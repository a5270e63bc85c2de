-------------------------- MODULE Fechamentos_proofs ---------------------------
(***************************************************************************)
(* Proofs about MCFechamentos, for any number of requests, guias and       *)
(* receipts and any amounts and bounds: the payrolls, the payments of a    *)
(* fiscal guia, the files of the guias, and the apuração of the Simples    *)
(* closed through the closing of the scope. FiscalClosing_proofs has those *)
(* of the closing itself.                                                  *)
(*                                                                         *)
(* The parts share no variable, so that a behaviour of MCFechamentos is    *)
(* one of each module (CincoPartes), and the invariant of a module holds   *)
(* of the whole. Each is the properties with what a request that is        *)
(* half-way through holds:                                                 *)
(*                                                                         *)
(*   RInv  a key that no request used names no row, no object and no       *)
(*         removal; two requests never hold the same key; what one that    *)
(*         uploaded will do with its object;                               *)
(*   TInv  the payments of a guia only grow, so that what a request read  *)
(*         of them before it writes PAGO still backs it; and a guia whose  *)
(*         row a reconciliation wrote is not cancelled until it ends;      *)
(*   GInv  two requests hold neither one key nor one guia that either      *)
(*         creates; the key of an upload is new until its row is written,  *)
(*         and what a request discards is named by no row;                 *)
(*   SInv  the rows a transaction wrote and did not commit are held by it  *)
(*         alone, and at every point of fechar the closing it names is     *)
(*         sealed with the values of the version it closes.                *)
(***************************************************************************)
EXTENDS MCFechamentos, FiscalClosing_proofs, FiniteSetTheorems, WellFoundedInduction

-----------------------------------------------------------------------------
(* The payrolls. *)

(* A key that no row, queue or list of another request knows. *)
IneditaDaFolha(k) ==
  /\ folhas[k].tipo = "AUSENTE" /\ filaFolha[k] = "fora" /\ k \notin perdidasFolha
  /\ \A a \in Recibos : k \notin folhas[a].vistas
  /\ \A q \in Procs : k \notin reqFolha[q].folha.vistas

(* A request at its point: its key is new until its row is written, the    *)
(* rows it saw are not of its type, and the object it discards is not one  *)
(* that a row is known to name. *)
FolhaOK(p) ==
  /\ pcFolha[p] = "ocioso" => reqFolha[p] = R!Ocioso
  /\ pcFolha[p] # "ocioso" => /\ reqFolha[p].chave \in usadasFolha
                              /\ reqFolha[p].folha.tipo \in R!Tipos
  /\ pcFolha[p] \in {"verificar", "enviar", "inserir"} => IneditaDaFolha(reqFolha[p].chave)
  /\ pcFolha[p] = "verificar" => /\ reqFolha[p].chave \notin objetosFolha
                                 /\ reqFolha[p].folha.vistas = {}
  /\ pcFolha[p] = "inserir" => reqFolha[p].chave \in objetosFolha
  /\ pcFolha[p] \in {"enviar", "inserir"} =>
       \A b \in reqFolha[p].folha.vistas : folhas[b].tipo # reqFolha[p].folha.tipo
  /\ pcFolha[p] = "descartar" =>
       (folhas[reqFolha[p].chave].tipo # "AUSENTE" => reqFolha[p].chave \in perdidasFolha)

(* One request works on a key. *)
UmDono ==
  \A p, q \in Procs :
    p # q /\ pcFolha[p] # "ocioso" /\ pcFolha[q] # "ocioso"
       => reqFolha[p].chave # reqFolha[q].chave

NaoUsadasDaFolha == \A k \in Recibos \ usadasFolha : IneditaDaFolha(k)
   /\ k \notin objetosFolha

RInv ==
  /\ R!TypeOK
  /\ NaoUsadasDaFolha
  /\ UmDono
  /\ \A p \in Procs : FolhaOK(p)
  /\ R!FolhaUnica /\ R!ArquivosCoerentes /\ R!CadastroAcumula

Folha == [tipo : R!Tipos \cup {"AUSENTE"}, admissao : BOOLEAN, vistas : SUBSET Recibos]
PedidoDeFolha == [chave : Recibos \cup {Nada}, folha : Folha]

LEMMA CamposDaFolha ==
  ASSUME RInv
  PROVE  /\ objetosFolha \subseteq Recibos /\ filaFolha \in [Recibos -> R!F!Etapas]
         /\ clienteFolha \in BOOLEAN /\ admissao \in BOOLEAN
         /\ usadasFolha \subseteq Recibos
         /\ folhas \in [Recibos -> Folha]
         /\ pcFolha \in [Procs -> R!Pontos] /\ reqFolha \in [Procs -> PedidoDeFolha]
         /\ perdidasFolha \subseteq Recibos /\ orfasFolha \subseteq Recibos
         /\ R!SemFolha \in Folha /\ R!SemFolha.tipo = "AUSENTE" /\ R!SemFolha.vistas = {}
         /\ R!Ocioso \in PedidoDeFolha /\ R!Ocioso.chave = Nada
         /\ R!Ocioso.folha = R!SemFolha
BY DEF RInv, R!TypeOK, Folha, PedidoDeFolha, R!SemFolha, R!Ocioso

(* The request p moves to another point, with another request. *)
MudaDaFolha(p, ponto, r) ==
  /\ pcFolha' = [pcFolha EXCEPT ![p] = ponto]
  /\ reqFolha' = [reqFolha EXCEPT ![p] = r]

LEMMA PassoDaFolha ==
  ASSUME RInv, NEW p \in Procs, NEW ponto \in R!Pontos, NEW r \in PedidoDeFolha,
         MudaDaFolha(p, ponto, r)
  PROVE  /\ pcFolha' \in [Procs -> R!Pontos] /\ reqFolha' \in [Procs -> PedidoDeFolha]
         /\ \A q \in Procs : pcFolha'[q] = IF q = p THEN ponto ELSE pcFolha[q]
         /\ \A q \in Procs : reqFolha'[q] = IF q = p THEN r ELSE reqFolha[q]
BY CamposDaFolha DEF MudaDaFolha

(* What the end of a request, or the next point, is. *)
LEMMA MudancasDaFolha ==
  ASSUME RInv, NEW p \in Procs
  PROVE  /\ R!Encerrar(p) => MudaDaFolha(p, "ocioso", R!Ocioso)
         /\ \A ponto \in R!Pontos : R!Ir(p, ponto) => MudaDaFolha(p, ponto, reqFolha[p])
<1>1. reqFolha = [reqFolha EXCEPT ![p] = reqFolha[p]]
  BY CamposDaFolha
<1> QED
  BY <1>1 DEF R!Encerrar, R!Ir, MudaDaFolha

LEMMA ReceberR ==
  ASSUME R!FolhasAssumption, RInv, NEW p \in Procs, R!Receber(p)
  PROVE  RInv'
<1>1. PICK t \in R!Tipos, k \in Recibos \ usadasFolha, i \in BOOLEAN :
        /\ usadasFolha' = usadasFolha \cup {k}
        /\ reqFolha' = [reqFolha EXCEPT ![p] =
             [chave |-> k, folha |-> [R!SemFolha EXCEPT !.tipo = t, !.admissao = i]]]
  BY DEF R!Receber
<1> DEFINE r == [chave |-> k, folha |-> [R!SemFolha EXCEPT !.tipo = t, !.admissao = i]]
<1>2. /\ r \in PedidoDeFolha /\ r.chave = k /\ r.folha.tipo = t /\ r.folha.vistas = {}
  BY DEF PedidoDeFolha, Folha, R!SemFolha
<1>3. MudaDaFolha(p, "verificar", r) /\ pcFolha[p] = "ocioso"
  BY <1>1 DEF R!Receber, MudaDaFolha
<1> HIDE DEF r
<1>4. /\ pcFolha' \in [Procs -> R!Pontos] /\ reqFolha' \in [Procs -> PedidoDeFolha]
      /\ \A q \in Procs : pcFolha'[q] = IF q = p THEN "verificar" ELSE pcFolha[q]
      /\ \A q \in Procs : reqFolha'[q] = IF q = p THEN r ELSE reqFolha[q]
  BY <1>2, <1>3, PassoDaFolha DEF R!Pontos
<1>5. UNCHANGED <<objetosFolha, filaFolha, clienteFolha, folhas, admissao, perdidasFolha,
                  orfasFolha>>
  BY DEF R!Receber, R!filaVars, R!dados
<1>6. R!TypeOK'
  BY <1>1, <1>4, <1>5, CamposDaFolha DEF RInv, R!TypeOK, PedidoDeFolha, Folha
<1>7. \A c \in Recibos : IneditaDaFolha(c) => IneditaDaFolha(c)'
  BY <1>2, <1>4, <1>5 DEF IneditaDaFolha
<1>8. NaoUsadasDaFolha'
  BY <1>1, <1>5, <1>7 DEF RInv, NaoUsadasDaFolha
<1>9. UmDono'
  BY <1>1, <1>2, <1>4 DEF RInv, UmDono, FolhaOK
<1>10. ASSUME NEW q \in Procs PROVE FolhaOK(q)'
  <2>1. CASE q = p
    BY <1>1, <1>2, <1>4, <1>5, <1>7, <2>1 DEF RInv, NaoUsadasDaFolha, FolhaOK
  <2>2. CASE q # p
    BY <1>1, <1>4, <1>5, <1>7, <2>2, CamposDaFolha DEF RInv, FolhaOK
  <2> QED BY <2>1, <2>2
<1>11. R!FolhaUnica' /\ R!CadastroAcumula'
  BY <1>5 DEF RInv, R!FolhaUnica, R!CadastroAcumula, R!DoTipo, R!Gravadas
<1>12. R!ArquivosCoerentes'
  BY <1>2, <1>3, <1>4, <1>5, CamposDaFolha
     DEF RInv, R!ArquivosCoerentes, R!Gravadas, FolhaOK, R!FolhasAssumption
<1> QED
  BY <1>6, <1>8, <1>9, <1>10, <1>11, <1>12 DEF RInv

LEMMA VerificarR ==
  ASSUME R!FolhasAssumption, RInv, NEW p \in Procs, R!Verificacoes(p)
  PROVE  RInv'
<1>1. PICK t \in R!Tipos : pcFolha[p] = "verificar" /\ reqFolha[p].folha.tipo = t
        /\ \/ R!Encerrar(p)
           \/ /\ pcFolha' = [pcFolha EXCEPT ![p] = "enviar"]
              /\ reqFolha' = [reqFolha EXCEPT ![p].folha.vistas = R!Gravadas]
              /\ R!DoTipo(t) = {}
  <2>1. CASE R!VerificarFolha(p)
    BY <2>1 DEF R!VerificarFolha, R!Verificar, R!DuplicadaFolha, R!Tipos
  <2>2. CASE R!VerificarAdiantamento13(p)
    BY <2>2 DEF R!VerificarAdiantamento13, R!Verificar, R!DuplicadoAdiantamento13, R!Tipos
  <2>3. CASE R!VerificarFerias(p)
    BY <2>3 DEF R!VerificarFerias, R!Verificar, R!DuplicadasFerias, R!Tipos
  <2> QED BY <2>1, <2>2, <2>3 DEF R!Verificacoes
<1>2. UNCHANGED <<objetosFolha, filaFolha, clienteFolha, folhas, admissao, usadasFolha,
                  perdidasFolha, orfasFolha>>
  BY DEF R!Verificacoes, R!VerificarFolha, R!VerificarAdiantamento13, R!VerificarFerias,
     R!Verificar, R!filaVars, R!dados
<1> DEFINE r == [reqFolha[p] EXCEPT !.folha.vistas = R!Gravadas]
<1>3. PICK ponto \in {"ocioso", "enviar"}, n \in PedidoDeFolha :
        /\ MudaDaFolha(p, ponto, n)
        /\ ponto = "ocioso" => n = R!Ocioso
        /\ ponto = "enviar" => /\ n.chave = reqFolha[p].chave
              /\ n.folha.tipo = reqFolha[p].folha.tipo
                               /\ n.folha.vistas = R!Gravadas
                               /\ R!DoTipo(n.folha.tipo) = {}
  <2>1. CASE R!Encerrar(p)
    BY <2>1, MudancasDaFolha, CamposDaFolha
  <2>2. CASE ~R!Encerrar(p)
    <3>1. reqFolha[p] \in PedidoDeFolha /\ R!Gravadas \subseteq Recibos
      BY CamposDaFolha DEF R!Gravadas
    <3>2. /\ r \in PedidoDeFolha /\ r.chave = reqFolha[p].chave
          /\ r.folha.tipo = reqFolha[p].folha.tipo /\ r.folha.vistas = R!Gravadas
      BY <3>1 DEF PedidoDeFolha, Folha
    <3>3. MudaDaFolha(p, "enviar", r)
      BY <1>1, <2>2 DEF MudaDaFolha
    <3> QED
      BY <1>1, <2>2, <3>2, <3>3
  <2> QED BY <2>1, <2>2
<1>4. /\ pcFolha' \in [Procs -> R!Pontos] /\ reqFolha' \in [Procs -> PedidoDeFolha]
      /\ \A q \in Procs : pcFolha'[q] = IF q = p THEN ponto ELSE pcFolha[q]
      /\ \A q \in Procs : reqFolha'[q] = IF q = p THEN n ELSE reqFolha[q]
  BY <1>3, PassoDaFolha DEF R!Pontos
<1>5. R!Ocioso.folha.vistas = {} /\ R!Ocioso.chave = Nada
  BY CamposDaFolha
<1>6. R!TypeOK'
  BY <1>2, <1>4, CamposDaFolha DEF RInv, R!TypeOK, PedidoDeFolha, Folha
<1>7. \A c \in Recibos : IneditaDaFolha(c) => IneditaDaFolha(c)'
  BY <1>2, <1>3, <1>4, <1>5 DEF IneditaDaFolha, R!Gravadas
<1>8. NaoUsadasDaFolha'
  BY <1>2, <1>7 DEF RInv, NaoUsadasDaFolha
<1>9. UmDono'
  BY <1>1, <1>3, <1>4 DEF RInv, UmDono, FolhaOK
<1>10. ASSUME NEW q \in Procs PROVE FolhaOK(q)'
  <2>1. CASE q = p
    BY <1>1, <1>2, <1>3, <1>4, <1>7, <2>1, CamposDaFolha
       DEF RInv, FolhaOK, R!DoTipo, R!Gravadas
  <2>2. CASE q # p
    BY <1>2, <1>4, <1>7, <2>2, CamposDaFolha DEF RInv, FolhaOK
  <2> QED BY <2>1, <2>2
<1>11. R!FolhaUnica' /\ R!CadastroAcumula'
  BY <1>2 DEF RInv, R!FolhaUnica, R!CadastroAcumula, R!DoTipo, R!Gravadas
<1>12. R!ArquivosCoerentes'
  BY <1>1, <1>2, <1>3, <1>4, <1>5, CamposDaFolha
     DEF RInv, R!ArquivosCoerentes, R!Gravadas, FolhaOK, R!FolhasAssumption
<1> QED
  BY <1>6, <1>8, <1>9, <1>10, <1>11, <1>12 DEF RInv

(* The steps that move a request, its object and what is left behind. *)
LEMMA ArmazenarR ==
  ASSUME R!FolhasAssumption, RInv, NEW p \in Procs,
         R!Enviar(p) \/ R!EnviarErro(p) \/ R!Descartar(p) \/ R!ProcessarErro(p) \/ R!Cair(p)
  PROVE  RInv'
<1>1. /\ pcFolha[p] # "ocioso" /\ reqFolha[p].chave \in Recibos /\ reqFolha[p].chave # Nada
  BY CamposDaFolha
     DEF R!Enviar, R!EnviarErro, R!Descartar, R!ProcessarErro, R!Cair, RInv, FolhaOK,
         R!FolhasAssumption
<1>2. UNCHANGED <<filaFolha, clienteFolha, folhas, admissao, usadasFolha, perdidasFolha>>
  BY DEF R!Enviar, R!EnviarErro, R!Descartar, R!ProcessarErro, R!Cair, R!F!Depositar,
     R!F!Descartar, R!filaVars, R!dados
<1>3. PICK ponto \in {"ocioso", "inserir", "descartar"}, n \in PedidoDeFolha :
        /\ MudaDaFolha(p, ponto, n)
        /\ ponto = "ocioso" => n = R!Ocioso
        /\ ponto # "ocioso" => n = reqFolha[p]
        /\ ponto = "inserir" => /\ pcFolha[p] = "enviar" /\ orfasFolha' = orfasFolha
                                /\ objetosFolha' = objetosFolha \cup {reqFolha[p].chave}
        /\ ponto = "descartar" => /\ pcFolha[p] = "inserir" /\ orfasFolha' = orfasFolha
                                  /\ objetosFolha' = objetosFolha
        /\ ponto = "ocioso" =>
             \/ /\ orfasFolha' = orfasFolha \cup {reqFolha[p].chave}
                /\ objetosFolha' \in {objetosFolha, objetosFolha \cup {reqFolha[p].chave}}
             \/ /\ pcFolha[p] = "descartar" /\ orfasFolha' = orfasFolha
                /\ objetosFolha' = objetosFolha \ {reqFolha[p].chave}
  <2>0. reqFolha[p] \in PedidoDeFolha /\ R!Ocioso \in PedidoDeFolha
    BY CamposDaFolha
  <2>1. CASE R!Enviar(p)
    BY <2>0, <2>1, MudancasDaFolha DEF R!Enviar, R!F!Depositar, R!Pontos
  <2>2. CASE R!EnviarErro(p)
    BY <2>0, <2>2, MudancasDaFolha DEF R!EnviarErro, R!F!Depositar, R!filaVars
  <2>3. CASE R!Descartar(p)
    BY <2>0, <2>3, MudancasDaFolha DEF R!Descartar, R!F!Descartar, R!filaVars
  <2>4. CASE R!ProcessarErro(p)
    BY <2>0, <2>4, MudancasDaFolha DEF R!ProcessarErro, R!filaVars, R!Pontos
  <2>5. CASE R!Cair(p)
    BY <2>0, <2>5, MudancasDaFolha DEF R!Cair, R!filaVars
  <2> QED BY <2>1, <2>2, <2>3, <2>4, <2>5
<1>4. /\ pcFolha' \in [Procs -> R!Pontos] /\ reqFolha' \in [Procs -> PedidoDeFolha]
      /\ \A q \in Procs : pcFolha'[q] = IF q = p THEN ponto ELSE pcFolha[q]
      /\ \A q \in Procs : reqFolha'[q] = IF q = p THEN n ELSE reqFolha[q]
  BY <1>3, PassoDaFolha DEF R!Pontos
<1>5. R!Ocioso.folha.vistas = {} /\ R!Ocioso.chave = Nada
  BY CamposDaFolha
<1>6. R!TypeOK'
  BY <1>1, <1>2, <1>3, <1>4, CamposDaFolha DEF RInv, R!TypeOK, PedidoDeFolha, Folha
<1>7. \A c \in Recibos : IneditaDaFolha(c) => IneditaDaFolha(c)'
  BY <1>2, <1>3, <1>4, <1>5 DEF IneditaDaFolha
<1>8. NaoUsadasDaFolha'
  BY <1>1, <1>2, <1>3, <1>7 DEF RInv, NaoUsadasDaFolha, FolhaOK
<1>9. UmDono'
  BY <1>1, <1>3, <1>4 DEF RInv, UmDono, FolhaOK
<1>10. ASSUME NEW q \in Procs PROVE FolhaOK(q)'
  <2>1. CASE q = p
    BY <1>1, <1>2, <1>3, <1>4, <1>7, <2>1, CamposDaFolha DEF RInv, FolhaOK, IneditaDaFolha
  <2>2. CASE q # p
    BY <1>1, <1>2, <1>3, <1>4, <1>7, <2>2, CamposDaFolha DEF RInv, FolhaOK, UmDono
  <2> QED BY <2>1, <2>2
<1>11. R!FolhaUnica' /\ R!CadastroAcumula'
  BY <1>2 DEF RInv, R!FolhaUnica, R!CadastroAcumula, R!DoTipo, R!Gravadas
<1>12. R!ArquivosCoerentes'
  <2>1. R!Gravadas' \ perdidasFolha' \subseteq objetosFolha'
    BY <1>1, <1>2, <1>3 DEF RInv, R!ArquivosCoerentes, R!Gravadas, FolhaOK
  <2>2. \A k \in R!Gravadas' : filaFolha'[k] = "fora"
    BY <1>2 DEF RInv, R!ArquivosCoerentes, R!Gravadas
  <2>3. ASSUME clienteFolha', NEW k \in objetosFolha' \ R!Gravadas'
        PROVE  filaFolha'[k] # "fora" \/ k \in orfasFolha'
                  \/ \E q \in Procs : reqFolha'[q].chave = k
    <3>1. CASE k = reqFolha[p].chave
      BY <1>3, <1>4, <3>1
    <3>2. CASE k # reqFolha[p].chave
      BY <1>2, <1>3, <1>4, <2>3, <3>2 DEF RInv, R!ArquivosCoerentes, R!Gravadas
    <3> QED BY <3>1, <3>2
  <2> QED BY <2>1, <2>2, <2>3 DEF R!ArquivosCoerentes
<1> QED
  BY <1>6, <1>8, <1>9, <1>10, <1>11, <1>12 DEF RInv

LEMMA GravarR ==
  ASSUME R!FolhasAssumption, RInv, NEW p \in Procs,
         R!ProcessarFolha(p) \/ R!ProcessarAdiantamento13(p) \/ R!ProcessarFerias(p)
  PROVE  RInv'
<1> DEFINE k == reqFolha[p].chave
           f == reqFolha[p].folha
<1>1. /\ pcFolha[p] = "inserir" /\ clienteFolha
      /\ folhas' = [folhas EXCEPT ![k] = f]
      /\ admissao' = (admissao \/ f.admissao)
      /\ UNCHANGED <<objetosFolha, filaFolha, clienteFolha, usadasFolha, orfasFolha>>
      /\ f.tipo = "FOLHA_MENSAL" => R!DoTipo("FOLHA_MENSAL") = {}
      /\ \/ R!Encerrar(p) /\ UNCHANGED perdidasFolha
         \/ R!Ir(p, "descartar") /\ perdidasFolha' = perdidasFolha \cup {k}
  BY DEF R!ProcessarFolha, R!ProcessarAdiantamento13, R!ProcessarFerias, R!Gravar,
     R!filaVars
<1>2. /\ k \in Recibos /\ k \in usadasFolha /\ f \in Folha /\ f.tipo \in R!Tipos
      /\ IneditaDaFolha(k)
      /\ k \in objetosFolha /\ f.tipo # "AUSENTE"
      /\ \A b \in f.vistas : folhas[b].tipo # f.tipo
  BY <1>1, CamposDaFolha DEF RInv, FolhaOK, PedidoDeFolha, R!Tipos
<1>3. PICK ponto \in {"ocioso", "descartar"}, n \in PedidoDeFolha :
        /\ MudaDaFolha(p, ponto, n)
        /\ ponto = "ocioso" => n = R!Ocioso /\ perdidasFolha' = perdidasFolha
        /\ ponto = "descartar" => n = reqFolha[p] /\ perdidasFolha' = perdidasFolha \cup {k}
  <2>0. reqFolha[p] \in PedidoDeFolha /\ R!Ocioso \in PedidoDeFolha
    BY CamposDaFolha
  <2> QED BY <1>1, <2>0, MudancasDaFolha DEF R!Pontos
<1>4. /\ pcFolha' \in [Procs -> R!Pontos] /\ reqFolha' \in [Procs -> PedidoDeFolha]
      /\ \A q \in Procs : pcFolha'[q] = IF q = p THEN ponto ELSE pcFolha[q]
      /\ \A q \in Procs : reqFolha'[q] = IF q = p THEN n ELSE reqFolha[q]
  BY <1>3, PassoDaFolha DEF R!Pontos
<1>5. R!Ocioso.folha.vistas = {} /\ R!Ocioso.chave = Nada
  BY CamposDaFolha
<1>6. /\ folhas' \in [Recibos -> Folha]
      /\ \A a \in Recibos : folhas'[a] = IF a = k THEN f ELSE folhas[a]
  BY <1>1, <1>2, CamposDaFolha
<1>7. /\ \A q \in Procs : k \notin reqFolha[q].folha.vistas
      /\ \A a \in Recibos : k \notin folhas[a].vistas
      /\ folhas[k].tipo = "AUSENTE" /\ filaFolha[k] = "fora" /\ k \notin f.vistas
  BY <1>2 DEF IneditaDaFolha
<1>8. R!TypeOK'
  BY <1>1, <1>2, <1>3, <1>4, <1>6, CamposDaFolha DEF RInv, R!TypeOK, PedidoDeFolha, Folha
<1>9. \A c \in Recibos \ {k} : IneditaDaFolha(c) => IneditaDaFolha(c)'
  BY <1>1, <1>3, <1>4, <1>5, <1>6 DEF IneditaDaFolha
<1>10. NaoUsadasDaFolha'
  BY <1>1, <1>2, <1>9 DEF RInv, NaoUsadasDaFolha
<1>11. UmDono'
  BY <1>1, <1>3, <1>4 DEF RInv, UmDono, FolhaOK
<1>12. ASSUME NEW q \in Procs PROVE FolhaOK(q)'
  <2>1. CASE q = p
    BY <1>1, <1>2, <1>3, <1>4, <1>6, <2>1, CamposDaFolha DEF RInv, FolhaOK
  <2>2. CASE q # p
    <3>1. pcFolha'[q] = pcFolha[q] /\ reqFolha'[q] = reqFolha[q] /\ FolhaOK(q)
      BY <1>4, <2>2 DEF RInv
    <3>2. pcFolha[q] # "ocioso" => reqFolha[q].chave \in Recibos \ {k}
      BY <1>1, <2>2, <3>1, CamposDaFolha DEF RInv, UmDono, FolhaOK
    <3>3. \A b \in reqFolha[q].folha.vistas : b # k /\ b \in Recibos
      BY <1>7, CamposDaFolha DEF PedidoDeFolha, Folha
    <3> QED
      BY <1>1, <1>3, <1>6, <1>9, <3>1, <3>2, <3>3 DEF FolhaOK
  <2> QED BY <2>1, <2>2
<1>13. R!Gravadas' = R!Gravadas \cup {k} /\ k \notin R!Gravadas
  BY <1>2, <1>6, <1>7 DEF R!Gravadas
<1>14. R!FolhaUnica'
  <2>1. \A a, b \in R!DoTipo("FOLHA_MENSAL")' : a = b
    BY <1>1, <1>6, <1>13 DEF RInv, R!FolhaUnica, R!DoTipo, R!Gravadas
  <2>2. ASSUME NEW a \in R!Gravadas', NEW b \in R!Gravadas',
               folhas'[a].tipo = folhas'[b].tipo
        PROVE  a \notin folhas'[b].vistas
    BY <1>2, <1>6, <1>7, <1>13, <2>2 DEF RInv, R!FolhaUnica, R!Gravadas
  <2> QED BY <2>1, <2>2 DEF R!FolhaUnica
<1>15. R!CadastroAcumula'
  BY <1>1, <1>6, <1>13 DEF RInv, R!CadastroAcumula, R!Gravadas
<1>16. R!ArquivosCoerentes'
  <2>1. R!Gravadas' \ perdidasFolha' \subseteq objetosFolha'
    BY <1>1, <1>2, <1>3, <1>13 DEF RInv, R!ArquivosCoerentes
  <2>2. \A c \in R!Gravadas' : filaFolha'[c] = "fora"
    BY <1>1, <1>7, <1>13 DEF RInv, R!ArquivosCoerentes
  <2>3. ASSUME NEW c \in objetosFolha' \ R!Gravadas'
        PROVE  filaFolha'[c] # "fora" \/ c \in orfasFolha'
                  \/ \E q \in Procs : reqFolha'[q].chave = c
    BY <1>1, <1>4, <1>13, <2>3 DEF RInv, R!ArquivosCoerentes
  <2> QED BY <2>1, <2>2, <2>3 DEF R!ArquivosCoerentes
<1> QED
  BY <1>8, <1>10, <1>11, <1>12, <1>14, <1>15, <1>16 DEF RInv

(* A deletion leaves the requests as they are, and no new key becomes known. *)
LEMMA ExcluirR ==
  ASSUME R!FolhasAssumption, RInv, NEW p \in Procs, R!ExcluirFolha(p) \/ R!ExcluirCliente(p)
  PROVE  RInv'
<1>1. UNCHANGED <<objetosFolha, usadasFolha, pcFolha, reqFolha, perdidasFolha, orfasFolha>>
  BY DEF R!ExcluirFolha, R!ExcluirCliente, R!F!Agendar, R!filaVars
<1>2. /\ folhas' \in [Recibos -> Folha]
      /\ filaFolha' \in [Recibos -> R!F!Etapas]
      /\ \A k \in Recibos : /\ folhas'[k] \in {folhas[k], R!SemFolha}
                            /\ filaFolha'[k] # filaFolha[k] => k \in R!Gravadas
                                  /\ folhas'[k] = R!SemFolha
                            /\ filaFolha[k] # "fora" => filaFolha'[k] = filaFolha[k]
      /\ clienteFolha' => clienteFolha /\ admissao' = admissao
      /\ clienteFolha' => \A k \in Recibos : folhas'[k] # folhas[k]
            => filaFolha'[k] # "fora"
      /\ ~clienteFolha' => (clienteFolha /\ \A k \in Recibos : folhas'[k] = R!SemFolha)
            \/ (~clienteFolha /\ admissao' = admissao)
      /\ clienteFolha' \in BOOLEAN /\ admissao' \in BOOLEAN
  <2>1. CASE R!ExcluirFolha(p)
    <3>1. PICK k \in R!Gravadas : folhas' = [folhas EXCEPT ![k] = R!SemFolha]
                  /\ R!F!Agendar({k})
      BY <2>1 DEF R!ExcluirFolha
    <3>2. /\ filaFolha' \in [Recibos -> R!F!Etapas]
          /\ \A c \in Recibos : filaFolha'[c] = IF c = k /\ filaFolha[c] = "fora"
                THEN "agendado" ELSE filaFolha[c]
      BY <3>1, CamposDaFolha DEF R!F!Agendar, R!F!Etapas
    <3>3. filaFolha[k] = "fora" /\ k \in Recibos
      BY DEF RInv, R!ArquivosCoerentes, R!Gravadas
    <3> QED
      BY <2>1, <3>1, <3>2, <3>3, CamposDaFolha DEF R!ExcluirFolha, R!Gravadas
  <2>2. CASE R!ExcluirCliente(p)
    BY <2>2, CamposDaFolha DEF R!ExcluirCliente, R!filaVars
  <2> QED BY <2>1, <2>2
<1>3. /\ R!SemFolha.tipo = "AUSENTE" /\ R!SemFolha.vistas = {}
      /\ \A k \in Recibos : folhas[k] \in Folha
  BY CamposDaFolha
<1>4. R!TypeOK'
  BY <1>1, <1>2, CamposDaFolha DEF RInv, R!TypeOK, PedidoDeFolha, Folha
<1>5. \A k \in Recibos : IneditaDaFolha(k) => IneditaDaFolha(k)'
  BY <1>1, <1>2, <1>3 DEF IneditaDaFolha, R!Gravadas
<1>6. NaoUsadasDaFolha' /\ UmDono'
  BY <1>1, <1>5 DEF RInv, NaoUsadasDaFolha, UmDono
<1>7. ASSUME NEW q \in Procs PROVE FolhaOK(q)'
  <2>1. \A k \in Recibos : folhas'[k].tipo \in {folhas[k].tipo, "AUSENTE"}
    BY <1>2, <1>3
  <2>2. /\ FolhaOK(q) /\ (pcFolha[q] # "ocioso" => reqFolha[q].chave \in Recibos)
        /\ reqFolha[q].folha.vistas \subseteq Recibos
    BY CamposDaFolha DEF RInv, FolhaOK, PedidoDeFolha, Folha
  <2> QED
    BY <1>1, <1>5, <2>1, <2>2 DEF FolhaOK, R!Tipos
<1>8. R!Gravadas' \subseteq R!Gravadas /\ \A k \in R!Gravadas' : folhas'[k] = folhas[k]
  BY <1>2, <1>3 DEF R!Gravadas
<1>9. R!FolhaUnica'
  BY <1>8 DEF RInv, R!FolhaUnica, R!DoTipo
<1>10. R!CadastroAcumula'
  BY <1>2, <1>3, <1>8 DEF RInv, R!CadastroAcumula, R!Gravadas
<1>11. R!ArquivosCoerentes'
  <2>1. R!Gravadas' \ perdidasFolha' \subseteq objetosFolha'
    BY <1>1, <1>8 DEF RInv, R!ArquivosCoerentes
  <2>2. \A k \in R!Gravadas' : filaFolha'[k] = "fora"
    BY <1>2, <1>3, <1>8 DEF RInv, R!ArquivosCoerentes, R!Gravadas
  <2>3. ASSUME clienteFolha', NEW k \in objetosFolha' \ R!Gravadas'
        PROVE  filaFolha'[k] # "fora" \/ k \in orfasFolha'
                  \/ \E q \in Procs : reqFolha'[q].chave = k
    <3>1. k \in Recibos
      BY <1>1, CamposDaFolha
    <3>2. CASE k \in R!Gravadas
      BY <1>2, <2>3, <3>1, <3>2 DEF R!Gravadas
    <3>3. CASE k \notin R!Gravadas
      BY <1>1, <1>2, <2>3, <3>1, <3>3 DEF RInv, R!ArquivosCoerentes
    <3> QED BY <3>2, <3>3
  <2> QED BY <2>1, <2>2, <2>3 DEF R!ArquivosCoerentes
<1> QED
  BY <1>4, <1>6, <1>7, <1>9, <1>10, <1>11 DEF RInv

LEMMA LimparR ==
  ASSUME R!FolhasAssumption, RInv, R!LimparFila
  PROVE  RInv'
<1>1. PICK k \in Recibos :
        /\ filaFolha[k] # "fora"
        /\ \/ objetosFolha' = objetosFolha \ {k} /\ filaFolha' = filaFolha
           \/ objetosFolha' = objetosFolha
              /\ filaFolha' = [filaFolha EXCEPT ![k] = "concluido"]
  BY DEF R!LimparFila, R!F!Limpar, R!F!Remover, R!F!Concluir
<1>2. UNCHANGED <<clienteFolha, folhas, admissao, usadasFolha, pcFolha, reqFolha,
                  perdidasFolha, orfasFolha>>
  BY DEF R!LimparFila, R!dados
<1>3. /\ filaFolha' \in [Recibos -> R!F!Etapas] /\ filaFolha'[k] # "fora"
      /\ \A c \in Recibos \ {k} : filaFolha'[c] = filaFolha[c]
  BY <1>1, CamposDaFolha DEF R!F!Etapas
<1>4. R!TypeOK'
  BY <1>1, <1>2, <1>3, CamposDaFolha DEF RInv, R!TypeOK, PedidoDeFolha, Folha
<1>5. \A c \in Recibos : IneditaDaFolha(c) => IneditaDaFolha(c)' /\ c # k
  BY <1>1, <1>2, <1>3 DEF IneditaDaFolha
<1>6. NaoUsadasDaFolha' /\ UmDono' /\ R!FolhaUnica' /\ R!CadastroAcumula'
  BY <1>1, <1>2, <1>5
     DEF RInv, NaoUsadasDaFolha, UmDono, R!FolhaUnica, R!CadastroAcumula, R!DoTipo,
         R!Gravadas
<1>7. ASSUME NEW q \in Procs PROVE FolhaOK(q)'
  BY <1>1, <1>2, <1>5, CamposDaFolha DEF RInv, FolhaOK
<1>8. R!ArquivosCoerentes'
  BY <1>1, <1>2, <1>3, CamposDaFolha DEF RInv, R!ArquivosCoerentes, R!Gravadas
<1> QED
  BY <1>4, <1>6, <1>7, <1>8 DEF RInv

LEMMA InicioR ==
  ASSUME R!FolhasAssumption, R!Init
  PROVE  RInv
<1>1. /\ R!SemFolha \in Folha /\ R!SemFolha.tipo = "AUSENTE" /\ R!SemFolha.vistas = {}
      /\ R!Ocioso \in PedidoDeFolha /\ R!Ocioso.chave = Nada /\ R!Ocioso.folha = R!SemFolha
  BY DEF Folha, PedidoDeFolha, R!SemFolha, R!Ocioso
<1>2. R!TypeOK
  BY <1>1 DEF R!Init, R!TypeOK, R!F!FInit, R!F!Etapas, R!Pontos, Folha, PedidoDeFolha
<1>3. \A k \in Recibos : IneditaDaFolha(k) /\ k \notin objetosFolha
  BY <1>1 DEF R!Init, R!F!FInit, IneditaDaFolha
<1>4. R!Gravadas = {}
  BY <1>1 DEF R!Init, R!Gravadas
<1>5. UmDono /\ \A p \in Procs : FolhaOK(p)
  BY DEF R!Init, UmDono, FolhaOK
<1>6. R!FolhaUnica /\ R!CadastroAcumula /\ R!ArquivosCoerentes
  BY <1>4
     DEF R!FolhaUnica, R!CadastroAcumula, R!ArquivosCoerentes, R!DoTipo, R!Init, R!F!FInit
<1> QED
  BY <1>2, <1>3, <1>5, <1>6 DEF RInv, NaoUsadasDaFolha

LEMMA PassoR ==
  ASSUME R!FolhasAssumption, RInv, [R!Next]_(R!vars)
  PROVE  RInv'
<1>1. CASE UNCHANGED R!vars
  BY <1>1
     DEF R!vars, R!filaVars, R!dados, RInv, R!TypeOK, NaoUsadasDaFolha, UmDono, FolhaOK,
         R!FolhaUnica, R!ArquivosCoerentes, R!CadastroAcumula, IneditaDaFolha, R!DoTipo,
         R!Gravadas
<1>2. CASE R!LimparFila
  BY <1>2, LimparR
<1>3. ASSUME NEW p \in Procs,
             \/ R!Receber(p) \/ R!Verificacoes(p) \/ R!Enviar(p) \/ R!EnviarErro(p)
             \/ R!Processar(p) \/ R!Descartar(p) \/ R!ExcluirFolha(p) \/ R!ExcluirCliente(p)
             \/ R!Cair(p)
      PROVE  RInv'
  BY <1>3, ReceberR, VerificarR, ArmazenarR, GravarR, ExcluirR DEF R!Processar
<1> QED
  BY <1>1, <1>2, <1>3 DEF R!Next

-----------------------------------------------------------------------------
(* The payments of a fiscal guia. What a trail sums to is a fold, hence the *)
(* sums over finite sets first. *)

(* A set of natural numbers has a least element. *)
LEMMA MenorNumero ==
  ASSUME NEW Z, Z \subseteq Nat, Z # {}
  PROVE  \E n \in Z : \A m \in Z : n <= m
<1> DEFINE Ord == OpToRel(<, Nat)
<1>1. IsWellFoundedOn(Ord, Nat)
  BY NatLessThanWellFounded
<1>2. Ord = {x \in Nat \X Nat : x[1] < x[2]}
  BY DEF OpToRel
<1> HIDE DEF Ord
<1>3. PICK n \in Z : \A m \in Z : ~(<<m, n>> \in Ord)
  BY <1>1, WFMin
<1>4. ASSUME NEW m \in Z PROVE n <= m
  <2>1. m \in Nat /\ n \in Nat /\ ~(<<m, n>> \in Ord)
    BY <1>3
  <2>2. <<m, n>> \in Nat \X Nat
    BY <2>1
  <2>3. m < n => <<m, n>> \in Ord
    BY <1>2, <2>1, <2>2
  <2> QED
    BY <2>1, <2>3
<1> QED
  BY <1>4

(* Of any sets of positions, one has no other inside it. *)
LEMMA MenorSubconjunto ==
  ASSUME NEW Todos, IsFiniteSet(Todos), NEW B, B \subseteq SUBSET Todos, B # {}
  PROVE  \E Z \in B : \A x \in Z : Z \ {x} \notin B
<1> DEFINE Tamanhos == {Cardinality(Z) : Z \in B}
<1>1. \A Z \in B : IsFiniteSet(Z) /\ Cardinality(Z) \in Nat
  BY FS_Subset, FS_CardinalityType
<1>2. Tamanhos \subseteq Nat /\ Tamanhos # {}
  BY <1>1
<1>3. \A Z \in B : Cardinality(Z) \in Tamanhos
  OBVIOUS
<1>4. PICK n \in Tamanhos : \A m \in Tamanhos : n <= m
  <2> HIDE DEF Tamanhos
  <2> QED BY <1>2, MenorNumero
<1>5. PICK Z \in B : n = Cardinality(Z)
  BY <1>4
<1>6. ASSUME NEW x \in Z PROVE Z \ {x} \notin B
  <2>1. Cardinality(Z \ {x}) = Cardinality(Z) - 1 /\ Cardinality(Z) \in Nat
    BY <1>1, FS_RemoveElement
  <2>2. ~(Cardinality(Z) <= Cardinality(Z \ {x}))
    BY <2>1
  <2> QED
    BY <1>3, <1>4, <1>5, <2>2
<1> QED
  BY <1>6

(* The sum of the weights w at the positions of a set, in the order CHOOSE *)
(* takes them: one pass of the recursive function of the fold. *)
EscolhaDe(Z) == CHOOSE x \in Z : TRUE

PassadaDe(w, g) ==
  [Z \in SUBSET DOMAIN w |->
     IF Z = {} THEN 0 ELSE g[Z \ {EscolhaDe(Z)}] + w[EscolhaDe(Z)]]

Pesos(w) == IsFiniteSet(DOMAIN w) /\ \A x \in DOMAIN w : w[x] \in Int

EhSoma(w, g) == g = PassadaDe(w, g)

LEMMA UmaPosicao ==
  ASSUME NEW w, Pesos(w), NEW g, EhSoma(w, g), NEW Z \in SUBSET DOMAIN w
  PROVE  /\ Z = {} => g[Z] = 0
         /\ Z # {} => /\ EscolhaDe(Z) \in Z
                      /\ g[Z] = g[Z \ {EscolhaDe(Z)}] + w[EscolhaDe(Z)]
<1>1. PassadaDe(w, g)[Z]
        = IF Z = {} THEN 0 ELSE g[Z \ {EscolhaDe(Z)}] + w[EscolhaDe(Z)]
  BY DEF PassadaDe
<1>2. Z # {} => EscolhaDe(Z) \in Z
  BY DEF EscolhaDe
<1> QED
  BY <1>1, <1>2 DEF EhSoma

LEMMA TotalInteiro ==
  ASSUME NEW w, Pesos(w), NEW g, EhSoma(w, g), NEW Z \in SUBSET DOMAIN w
  PROVE  g[Z] \in Int
<1> DEFINE B == {U \in SUBSET DOMAIN w : g[U] \notin Int}
<1> SUFFICES ASSUME B # {} PROVE FALSE
  OBVIOUS
<1>1. PICK U \in B : \A x \in U : U \ {x} \notin B
  BY MenorSubconjunto DEF Pesos
<1>2. U \in SUBSET DOMAIN w /\ g[U] \notin Int
  BY <1>1
<1>3. /\ U = {} => g[U] = 0
      /\ U # {} => /\ EscolhaDe(U) \in U
                   /\ g[U] = g[U \ {EscolhaDe(U)}] + w[EscolhaDe(U)]
  BY <1>2, UmaPosicao
<1>4. U # {} /\ EscolhaDe(U) \in DOMAIN w /\ g[U \ {EscolhaDe(U)}] \in Int
  BY <1>1, <1>2, <1>3
<1>5. w[EscolhaDe(U)] \in Int
  BY <1>4 DEF Pesos
<1> QED
  BY <1>2, <1>3, <1>4, <1>5

(* The order does not matter. *)
LEMMA QualquerOrdem ==
  ASSUME NEW w, Pesos(w), NEW g, EhSoma(w, g),
         NEW Z \in SUBSET DOMAIN w, NEW x \in Z
  PROVE  g[Z] = g[Z \ {x}] + w[x]
<1> DEFINE B == {U \in SUBSET DOMAIN w : \E y \in U : g[U] # g[U \ {y}] + w[y]}
<1> SUFFICES ASSUME B # {} PROVE FALSE
  OBVIOUS
<1>1. PICK U \in B : \A y \in U : U \ {y} \notin B
  BY MenorSubconjunto DEF Pesos
<1>2. PICK y \in U : g[U] # g[U \ {y}] + w[y]
  BY <1>1
<1> DEFINE c == EscolhaDe(U)
<1>3. c \in U /\ g[U] = g[U \ {c}] + w[c]
  <2>1. U \in SUBSET DOMAIN w /\ U # {}
    BY <1>1, <1>2
  <2> QED BY <2>1, UmaPosicao
<1> HIDE DEF c
<1>4. c # y
  BY <1>2, <1>3
<1>5. /\ g[U \ {c}] = g[(U \ {c}) \ {y}] + w[y]
      /\ g[U \ {y}] = g[(U \ {y}) \ {c}] + w[c]
  BY <1>1, <1>2, <1>3, <1>4
<1>6. (U \ {c}) \ {y} = (U \ {y}) \ {c}
  OBVIOUS
<1>7. g[(U \ {c}) \ {y}] \in Int /\ w[y] \in Int /\ w[c] \in Int
  BY <1>1, <1>2, <1>3, TotalInteiro DEF Pesos
<1> DEFINE r == g[(U \ {c}) \ {y}]
<1>8. g[U] = (r + w[y]) + w[c] /\ g[U \ {y}] = r + w[c] /\ r \in Int
  BY <1>3, <1>5, <1>6, <1>7
<1> HIDE DEF r
<1>9. g[U] = g[U \ {y}] + w[y]
  BY <1>7, <1>8
<1> QED
  BY <1>2, <1>9

(* Two sums of the same positions, and of greater weights. *)
LEMMA TotaisComparados ==
  ASSUME NEW w, Pesos(w), NEW g, EhSoma(w, g),
         NEW v, Pesos(v), NEW h, EhSoma(v, h),
         DOMAIN v \subseteq DOMAIN w, NEW Z \in SUBSET DOMAIN v
  PROVE  /\ (\A x \in DOMAIN v : v[x] = w[x]) => h[Z] = g[Z]
         /\ (\A x \in DOMAIN v : v[x] <= w[x]) => h[Z] <= g[Z]
<1>1. ASSUME \A x \in DOMAIN v : v[x] = w[x] PROVE h[Z] = g[Z]
  <2> DEFINE B == {U \in SUBSET DOMAIN v : h[U] # g[U]}
  <2> SUFFICES ASSUME B # {} PROVE FALSE
    OBVIOUS
  <2>1. PICK U \in B : \A x \in U : U \ {x} \notin B
    BY MenorSubconjunto DEF Pesos
  <2>2. U \in SUBSET DOMAIN w /\ U \in SUBSET DOMAIN v
    BY <2>1
  <2>3. /\ U = {} => g[U] = 0 /\ h[U] = 0
        /\ U # {} => /\ EscolhaDe(U) \in U
                     /\ g[U] = g[U \ {EscolhaDe(U)}] + w[EscolhaDe(U)]
                     /\ h[U] = h[U \ {EscolhaDe(U)}] + v[EscolhaDe(U)]
    BY <2>2, UmaPosicao
  <2> QED
    BY <1>1, <2>1, <2>2, <2>3
<1>2. ASSUME \A x \in DOMAIN v : v[x] <= w[x] PROVE h[Z] <= g[Z]
  <2> DEFINE B == {U \in SUBSET DOMAIN v : ~(h[U] <= g[U])}
  <2> SUFFICES ASSUME B # {} PROVE FALSE
    OBVIOUS
  <2>1. PICK U \in B : \A x \in U : U \ {x} \notin B
    BY MenorSubconjunto DEF Pesos
  <2>2. U \in SUBSET DOMAIN w /\ U \in SUBSET DOMAIN v
    BY <2>1
  <2>3. /\ U = {} => g[U] = 0 /\ h[U] = 0
        /\ U # {} => /\ EscolhaDe(U) \in U
                     /\ g[U] = g[U \ {EscolhaDe(U)}] + w[EscolhaDe(U)]
                     /\ h[U] = h[U \ {EscolhaDe(U)}] + v[EscolhaDe(U)]
    BY <2>2, UmaPosicao
  <2> DEFINE c == EscolhaDe(U)
  <2>4. U # {}
    BY <2>1, <2>3
  <2>5. /\ v[c] <= w[c] /\ h[U \ {c}] <= g[U \ {c}]
        /\ v[c] \in Int /\ w[c] \in Int
    BY <1>2, <2>1, <2>2, <2>3, <2>4 DEF Pesos
  <2>6. h[U \ {c}] \in Int /\ g[U \ {c}] \in Int
    BY <2>2, TotalInteiro
  <2> QED
    BY <2>1, <2>3, <2>4, <2>5, <2>6
<1> QED
  BY <1>1, <1>2

(* A function that sums every subset of up to n positions. *)
TotalAte(w, n, g) ==
  /\ g \in [SUBSET DOMAIN w -> Int]
  /\ \A Z \in SUBSET DOMAIN w : Cardinality(Z) <= n => g[Z] = PassadaDe(w, g)[Z]

LEMMA HaTotal ==
  ASSUME NEW w, Pesos(w)
  PROVE  \E g : EhSoma(w, g)
<1> DEFINE Todos == DOMAIN w
<1>1. \A Z \in SUBSET Todos : /\ IsFiniteSet(Z) /\ Cardinality(Z) \in Nat
                              /\ Cardinality(Z) <= Cardinality(Todos)
  BY FS_Subset, FS_CardinalityType DEF Pesos
<1>2. \A Z \in SUBSET Todos : Z # {} =>
        /\ EscolhaDe(Z) \in Z /\ Z \ {EscolhaDe(Z)} \in SUBSET Todos
        /\ Cardinality(Z) # 0 /\ Cardinality(Z \ {EscolhaDe(Z)}) = Cardinality(Z) - 1
  BY <1>1, FS_RemoveElement, FS_EmptySet DEF EscolhaDe
<1> DEFINE Faltam == {n \in Nat : ~ \E g : TotalAte(w, n, g)}
<1>3. Faltam = {}
  <2> SUFFICES ASSUME Faltam # {} PROVE FALSE
    OBVIOUS
  <2>1. PICK n \in Faltam : \A k \in Faltam : n <= k
    BY MenorNumero
  <2>2. n # 0
    <3> DEFINE g == [Z \in SUBSET Todos |-> 0]
    <3>1. ASSUME NEW Z \in SUBSET Todos, Cardinality(Z) <= 0 PROVE Z = {}
      <4>1. Cardinality(Z) = 0
        BY <1>1, <3>1
      <4> QED BY <1>2, <4>1
    <3>2. TotalAte(w, 0, g)
      BY <3>1 DEF TotalAte, PassadaDe
    <3> HIDE DEF g
    <3> QED
      BY <2>1, <3>2
  <2>3. n - 1 \in Nat /\ n - 1 \notin Faltam /\ n \in Nat
    BY <2>1, <2>2
  <2>4. PICK g : TotalAte(w, n - 1, g)
    BY <2>3
  <2> DEFINE h == [Z \in SUBSET Todos |->
                     IF Cardinality(Z) <= n - 1 THEN g[Z] ELSE PassadaDe(w, g)[Z]]
  <2>5. ASSUME NEW Z \in SUBSET Todos PROVE PassadaDe(w, g)[Z] \in Int
    <3>1. CASE Z = {}
      BY <3>1 DEF PassadaDe
    <3>2. CASE Z # {}
      <4>1. w[EscolhaDe(Z)] \in Int /\ g[Z \ {EscolhaDe(Z)}] \in Int
        BY <1>2, <2>4, <3>2 DEF TotalAte, Pesos
      <4> QED
        BY <3>2, <4>1 DEF PassadaDe
    <3> QED
      BY <3>1, <3>2
  <2>6. h \in [SUBSET Todos -> Int]
    BY <2>4, <2>5 DEF TotalAte
  <2>7. \A Z \in SUBSET Todos : Cardinality(Z) <= n => h[Z] = PassadaDe(w, g)[Z]
    BY <2>4 DEF TotalAte
  <2>8. \A Z \in SUBSET Todos : Cardinality(Z) <= n - 1 => h[Z] = g[Z]
    OBVIOUS
  <2> HIDE DEF h
  <2>9. ASSUME NEW Z \in SUBSET Todos, Cardinality(Z) <= n
        PROVE  PassadaDe(w, h)[Z] = PassadaDe(w, g)[Z]
    <3>1. CASE Z = {}
      BY <3>1 DEF PassadaDe
    <3>2. CASE Z # {}
      <4>1. Z \ {EscolhaDe(Z)} \in SUBSET Todos /\ Cardinality(Z \ {EscolhaDe(Z)}) <= n - 1
        BY <1>1, <1>2, <2>3, <2>9, <3>2
      <4> QED
        BY <2>8, <3>2, <4>1 DEF PassadaDe
    <3> QED
      BY <3>1, <3>2
  <2>10. TotalAte(w, n, h)
    BY <2>6, <2>7, <2>9 DEF TotalAte
  <2> QED
    BY <2>1, <2>10
<1>4. PICK g : TotalAte(w, Cardinality(Todos), g)
  <2>1. Cardinality(Todos) \in Nat
    BY FS_CardinalityType DEF Pesos
  <2> HIDE DEF Faltam
  <2>2. Cardinality(Todos) \notin Faltam
    BY <1>3
  <2> QED
    BY <2>1, <2>2 DEF Faltam
<1>5. g = PassadaDe(w, g)
  <2>1. /\ DOMAIN PassadaDe(w, g) = SUBSET Todos
        /\ PassadaDe(w, g) = [Z \in SUBSET Todos |-> PassadaDe(w, g)[Z]]
    BY DEF PassadaDe
  <2>2. g = [Z \in SUBSET Todos |-> g[Z]]
    BY <1>4 DEF TotalAte
  <2>3. \A Z \in SUBSET Todos : g[Z] = PassadaDe(w, g)[Z]
    BY <1>1, <1>4 DEF TotalAte
  <2> QED
    BY <2>1, <2>2, <2>3
<1> QED
  BY <1>5 DEF EhSoma

(* The two sums over a trail: all the effects, and the payments alone.     *)
Efeitos(s) == [i \in DOMAIN s |-> s[i].sinal * s[i].valor]

EntradasDaTrilha(s) == [i \in DOMAIN s |-> IF s[i].sinal = 1 THEN s[i].valor ELSE 0]

PassadaPaga(s, g) ==
  [Z \in SUBSET DOMAIN s |->
     IF Z = {} THEN 0
     ELSE g[Z \ {EscolhaDe(Z)}] + s[EscolhaDe(Z)].sinal * s[EscolhaDe(Z)].valor]

PassadaRecebida(s, g) ==
  [Z \in SUBSET DOMAIN s |->
     IF Z = {} THEN 0
     ELSE g[Z \ {EscolhaDe(Z)}]
            + (IF s[EscolhaDe(Z)].sinal = 1 THEN s[EscolhaDe(Z)].valor ELSE 0)]

LEMMA PagoPelaEscolha ==
  ASSUME NEW s
  PROVE  /\ T!TotalPago(s) = (CHOOSE g : g = PassadaPaga(s, g))[DOMAIN s]
         /\ T!TotalRecebido(s) = (CHOOSE g : g = PassadaRecebida(s, g))[DOMAIN s]
<1>1. T!TotalPago(s) = (CHOOSE g : g = PassadaPaga(s, g))[DOMAIN s]
  BY DEF T!TotalPago, T!FoldSeq, T!FoldFunction, T!FoldFunctionOnSet, T!MapThenFoldSet,
     T!Efeito, PassadaPaga, EscolhaDe
<1>2. T!TotalRecebido(s) = (CHOOSE g : g = PassadaRecebida(s, g))[DOMAIN s]
  BY DEF T!TotalRecebido, T!FoldSeq, T!FoldFunction, T!FoldFunctionOnSet,
     T!MapThenFoldSet, T!Entrada, PassadaRecebida, EscolhaDe
<1> QED
  BY <1>1, <1>2

LEMMA PesosDaTrilha ==
  ASSUME NEW s \in Seq(T!Evento)
  PROVE  /\ Pesos(Efeitos(s)) /\ Pesos(EntradasDaTrilha(s))
         /\ DOMAIN Efeitos(s) = DOMAIN s /\ DOMAIN EntradasDaTrilha(s) = DOMAIN s
         /\ \A i \in DOMAIN s : Efeitos(s)[i] <= EntradasDaTrilha(s)[i]
<1>1. DOMAIN s = 1 .. Len(s) /\ Len(s) \in Nat
  OBVIOUS
<1>2. IsFiniteSet(DOMAIN s)
  BY <1>1, FS_Interval
<1>3. ASSUME NEW i \in DOMAIN s
      PROVE  /\ Efeitos(s)[i] \in Int /\ EntradasDaTrilha(s)[i] \in Int
             /\ Efeitos(s)[i] <= EntradasDaTrilha(s)[i]
  <2>1. s[i] \in T!Evento
    BY <1>1
  <2>2. s[i].sinal \in {1, -1} /\ s[i].valor \in Nat
    BY <2>1 DEF T!Evento
  <2>3. CASE s[i].sinal = 1
    BY <2>2, <2>3 DEF Efeitos, EntradasDaTrilha
  <2>4. CASE s[i].sinal = -1
    BY <2>2, <2>4 DEF Efeitos, EntradasDaTrilha
  <2> QED BY <2>2, <2>3, <2>4
<1> QED
  BY <1>2, <1>3 DEF Pesos, Efeitos, EntradasDaTrilha

(* Each is the sum of its weights. *)
LEMMA TotaisDaTrilha ==
  ASSUME NEW s \in Seq(T!Evento)
  PROVE  /\ \E g : EhSoma(Efeitos(s), g) /\ T!TotalPago(s) = g[DOMAIN s]
         /\ \E g : EhSoma(EntradasDaTrilha(s), g) /\ T!TotalRecebido(s) = g[DOMAIN s]
<1>1. \A g : PassadaPaga(s, g) = PassadaDe(Efeitos(s), g)
  <2> TAKE g
  <2>1. ASSUME NEW Z \in SUBSET DOMAIN s
        PROVE  PassadaPaga(s, g)[Z] = PassadaDe(Efeitos(s), g)[Z]
    <3>1. Z # {} => EscolhaDe(Z) \in DOMAIN s
      BY DEF EscolhaDe
    <3> QED BY <3>1 DEF PassadaPaga, PassadaDe, Efeitos
  <2> QED BY <2>1 DEF PassadaPaga, PassadaDe, Efeitos
<1>2. \A g : PassadaRecebida(s, g) = PassadaDe(EntradasDaTrilha(s), g)
  <2> TAKE g
  <2>1. ASSUME NEW Z \in SUBSET DOMAIN s
        PROVE  PassadaRecebida(s, g)[Z] = PassadaDe(EntradasDaTrilha(s), g)[Z]
    <3>1. Z # {} => EscolhaDe(Z) \in DOMAIN s
      BY DEF EscolhaDe
    <3> QED BY <3>1 DEF PassadaRecebida, PassadaDe, EntradasDaTrilha
  <2> QED BY <2>1 DEF PassadaRecebida, PassadaDe, EntradasDaTrilha
<1>3. \E g : g = PassadaPaga(s, g)
  BY <1>1, PesosDaTrilha, HaTotal DEF EhSoma
<1>4. \E g : g = PassadaRecebida(s, g)
  BY <1>2, PesosDaTrilha, HaTotal DEF EhSoma
<1> DEFINE a == CHOOSE g : g = PassadaPaga(s, g)
           b == CHOOSE g : g = PassadaRecebida(s, g)
<1>5. a = PassadaPaga(s, a) /\ b = PassadaRecebida(s, b)
  BY <1>3, <1>4
<1>6. T!TotalPago(s) = a[DOMAIN s] /\ T!TotalRecebido(s) = b[DOMAIN s]
  BY PagoPelaEscolha
<1> HIDE DEF a, b
<1> QED
  BY <1>1, <1>2, <1>5, <1>6 DEF EhSoma

(* What came in is at least the balance, and one more event adds its own.  *)
LEMMA TotaisInteiros ==
  ASSUME NEW s \in Seq(T!Evento)
  PROVE  T!TotalPago(s) \in Int /\ T!TotalRecebido(s) \in Int
            /\ T!TotalPago(s) <= T!TotalRecebido(s)
<1>1. PICK g : EhSoma(Efeitos(s), g) /\ T!TotalPago(s) = g[DOMAIN s]
  BY TotaisDaTrilha
<1>2. PICK h : EhSoma(EntradasDaTrilha(s), h) /\ T!TotalRecebido(s) = h[DOMAIN s]
  BY TotaisDaTrilha
<1>3. g[DOMAIN s] \in Int /\ h[DOMAIN s] \in Int
  BY <1>1, <1>2, PesosDaTrilha, TotalInteiro
<1>4. g[DOMAIN s] <= h[DOMAIN s]
  BY <1>1, <1>2, PesosDaTrilha, TotaisComparados
<1> QED
  BY <1>1, <1>2, <1>3, <1>4

LEMMA MaisUmEvento ==
  ASSUME NEW s \in Seq(T!Evento), NEW e \in T!Evento
  PROVE  /\ T!TotalPago(Append(s, e)) = T!TotalPago(s) + e.sinal * e.valor
         /\ T!TotalRecebido(Append(s, e))
              = T!TotalRecebido(s) + (IF e.sinal = 1 THEN e.valor ELSE 0)
<1> DEFINE t == Append(s, e)
           n == Len(s) + 1
<1>1. /\ t \in Seq(T!Evento) /\ DOMAIN t = 1 .. n /\ DOMAIN s = 1 .. Len(s) /\ t[n] = e
      /\ Len(s) \in Nat /\ n \in Nat /\ \A i \in DOMAIN s : i \in DOMAIN t /\ t[i] = s[i]
  OBVIOUS
<1>2. DOMAIN t \ {n} = DOMAIN s /\ n \in DOMAIN t
  BY <1>1
<1> HIDE DEF t, n
<1>3. T!TotalPago(t) = T!TotalPago(s) + e.sinal * e.valor
  <2>1. PICK g : EhSoma(Efeitos(t), g) /\ T!TotalPago(t) = g[DOMAIN t]
    BY <1>1, TotaisDaTrilha
  <2>2. PICK h : EhSoma(Efeitos(s), h) /\ T!TotalPago(s) = h[DOMAIN s]
    BY TotaisDaTrilha
  <2> DEFINE v == Efeitos(s)
             w == Efeitos(t)
  <2>3. Pesos(w) /\ Pesos(v) /\ DOMAIN w = DOMAIN t /\ DOMAIN v = DOMAIN s
    BY <1>1, PesosDaTrilha
  <2>4. \A i \in DOMAIN s : Efeitos(s)[i] = Efeitos(t)[i]
    BY <1>1 DEF Efeitos
  <2>5. g[DOMAIN t] = g[DOMAIN t \ {n}] + w[n]
    <3>1. EhSoma(w, g) /\ n \in DOMAIN w /\ DOMAIN w \in SUBSET DOMAIN w
      BY <1>2, <2>1, <2>3
    <3>2. Pesos(w)
      BY <2>3
    <3> HIDE DEF w
    <3>3. PICK Z \in SUBSET DOMAIN w : Z = DOMAIN w
      OBVIOUS
    <3>4. n \in Z
      BY <3>1, <3>3
    <3>5. g[Z] = g[Z \ {n}] + w[n]
      BY <3>1, <3>2, <3>4, QualquerOrdem
    <3> QED BY <2>3, <3>3, <3>5
  <2>6. h[DOMAIN s] = g[DOMAIN s]
    <3>1. DOMAIN v \subseteq DOMAIN w /\ \A i \in DOMAIN v : v[i] = w[i]
      BY <1>1, <2>3, <2>4
    <3>2. EhSoma(w, g) /\ EhSoma(v, h)
      BY <2>1, <2>2
    <3> HIDE DEF v, w
    <3> QED BY <2>3, <3>1, <3>2, TotaisComparados
  <2>7. Efeitos(t)[n] = e.sinal * e.valor
    BY <1>1, <1>2 DEF Efeitos
  <2> QED
    BY <1>2, <2>1, <2>2, <2>5, <2>6, <2>7
<1>4. T!TotalRecebido(t) = T!TotalRecebido(s) + (IF e.sinal = 1 THEN e.valor ELSE 0)
  <2>1. PICK g : EhSoma(EntradasDaTrilha(t), g) /\ T!TotalRecebido(t) = g[DOMAIN t]
    BY <1>1, TotaisDaTrilha
  <2>2. PICK h : EhSoma(EntradasDaTrilha(s), h) /\ T!TotalRecebido(s) = h[DOMAIN s]
    BY TotaisDaTrilha
  <2> DEFINE v == EntradasDaTrilha(s)
             w == EntradasDaTrilha(t)
  <2>3. Pesos(w) /\ Pesos(v) /\ DOMAIN w = DOMAIN t /\ DOMAIN v = DOMAIN s
    BY <1>1, PesosDaTrilha
  <2>4. \A i \in DOMAIN s : EntradasDaTrilha(s)[i] = EntradasDaTrilha(t)[i]
    BY <1>1 DEF EntradasDaTrilha
  <2>5. g[DOMAIN t] = g[DOMAIN t \ {n}] + w[n]
    <3>1. EhSoma(w, g) /\ n \in DOMAIN w /\ DOMAIN w \in SUBSET DOMAIN w
      BY <1>2, <2>1, <2>3
    <3>2. Pesos(w)
      BY <2>3
    <3> HIDE DEF w
    <3>3. PICK Z \in SUBSET DOMAIN w : Z = DOMAIN w
      OBVIOUS
    <3>4. n \in Z
      BY <3>1, <3>3
    <3>5. g[Z] = g[Z \ {n}] + w[n]
      BY <3>1, <3>2, <3>4, QualquerOrdem
    <3> QED BY <2>3, <3>3, <3>5
  <2>6. h[DOMAIN s] = g[DOMAIN s]
    <3>1. DOMAIN v \subseteq DOMAIN w /\ \A i \in DOMAIN v : v[i] = w[i]
      BY <1>1, <2>3, <2>4
    <3>2. EhSoma(w, g) /\ EhSoma(v, h)
      BY <2>1, <2>2
    <3> HIDE DEF v, w
    <3> QED BY <2>3, <3>1, <3>2, TotaisComparados
  <2>7. EntradasDaTrilha(t)[n] = IF e.sinal = 1 THEN e.valor ELSE 0
    BY <1>1, <1>2 DEF EntradasDaTrilha
  <2> QED
    BY <1>2, <2>1, <2>2, <2>5, <2>6, <2>7
<1> QED
  BY <1>3, <1>4 DEF t

(* A request at its point: what it read or projected still holds of the    *)
(* payments, which only grow, and the guia a confirmation has written is   *)
(* not cancelled until it ends. *)
PedidoOK(p) ==
  /\ pcTrilha[p] \in {"projetar", "marcar", "registrar", "lerTrilha", "gravarFiscal"} =>
       reqTrilha[p].guia \in Guias
  /\ pcTrilha[p] = "projetar" => reqTrilha[p].status = "PAGO"
  /\ pcTrilha[p] = "marcar" => /\ reqTrilha[p].status # "AUSENTE"
                               /\ reqTrilha[p].status = "PAGO" =>
                                    T!TotalRecebido(trilha[reqTrilha[p].guia]) >= ValorTotal
  /\ pcTrilha[p] = "registrar" => reqTrilha[p].evento.origem = "MANUAL"
  /\ pcTrilha[p] = "lerFiscal" => reqTrilha[p] = T!Livre /\ upload.guia \in Guias
  /\ pcTrilha[p] \in {"gravarFiscal", "confirmar"} /\ reqTrilha[p].guia \in Guias =>
       /\ reqTrilha[p].evento = T!Conciliacao
       /\ reqTrilha[p].quita =>
            T!TotalRecebido(trilha[reqTrilha[p].guia]) + ValorUpload >= ValorTotal
  /\ pcTrilha[p] = "confirmar" /\ reqTrilha[p].guia \in Guias
        => ~guiasFiscais[reqTrilha[p].guia].cancelada

TInv ==
  /\ T!TypeOK
  /\ T!UmaGuiaPorChave
  /\ \A g \in T!ComChave : guiasFiscais[g].status # "AUSENTE"
  /\ \A p \in Procs : PedidoOK(p)
  /\ T!PagoRespaldado

PedidoDaTrilha == [guia : Guias \cup {Nada}, status : T!Estados, evento : T!Evento,
                   quita : BOOLEAN]

LEMMA CamposDoPagamento ==
  ASSUME T!PagamentosAssumption, TInv
  PROVE  /\ guiasFiscais \in [Guias -> T!Guia] /\ trilha \in [Guias -> Seq(T!Evento)]
         /\ upload \in [guia : Guias \cup {Nada}, paga : BOOLEAN]
         /\ respondidas \subseteq Guias
         /\ pcTrilha \in [Procs -> T!Pontos] /\ reqTrilha \in [Procs -> PedidoDaTrilha]
         /\ T!SemEvento \in T!Evento /\ T!SemEvento.origem = "MANUAL"
         /\ T!Livre \in PedidoDaTrilha /\ T!Livre.guia = Nada /\ Nada \notin Guias
         /\ T!Conciliacao \in T!Evento /\ T!Conciliacao.origem = "CONCILIACAO"
         /\ T!Conciliacao.sinal = 1 /\ T!Conciliacao.valor = ValorUpload
         /\ ValorUpload \in Nat /\ ValorTotal \in Nat
BY DEF TInv, T!TypeOK, PedidoDaTrilha, T!Livre, T!SemEvento, T!Evento, T!Estados,
   T!Conciliacao, T!PagamentosAssumption

(* The request p moves to another point, with another request. *)
MudaDaTrilha(p, ponto, r) ==
  /\ pcTrilha' = [pcTrilha EXCEPT ![p] = ponto]
  /\ reqTrilha' = [reqTrilha EXCEPT ![p] = r]

LEMMA PassoDoPagamento ==
  ASSUME T!PagamentosAssumption, TInv, NEW p \in Procs, NEW ponto \in T!Pontos,
         NEW r \in PedidoDaTrilha, MudaDaTrilha(p, ponto, r)
  PROVE  /\ pcTrilha' \in [Procs -> T!Pontos] /\ reqTrilha' \in [Procs -> PedidoDaTrilha]
         /\ pcTrilha'[p] = ponto /\ reqTrilha'[p] = r
         /\ \A q \in Procs \ {p} : pcTrilha'[q] = pcTrilha[q]
               /\ reqTrilha'[q] = reqTrilha[q]
BY CamposDoPagamento DEF MudaDaTrilha

LEMMA MudancasDaTrilha ==
  ASSUME T!PagamentosAssumption, TInv, NEW p \in Procs
  PROVE  /\ T!Encerrar(p) => MudaDaTrilha(p, "ocioso", T!Livre)
         /\ \A ponto \in T!Pontos : T!Ir(p, ponto) => MudaDaTrilha(p, ponto, reqTrilha[p])
<1>1. reqTrilha = [reqTrilha EXCEPT ![p] = reqTrilha[p]]
  BY CamposDoPagamento
<1> QED
  BY <1>1 DEF T!Encerrar, T!Ir, MudaDaTrilha

(* What no step takes from a request that waits: the payments of a trail,  *)
(* the link of the upload, and that a guia being confirmed is in force.    *)
NadaSePerde ==
  /\ \A g \in Guias : T!TotalRecebido(trilha[g]) <= T!TotalRecebido(trilha'[g])
  /\ upload.guia \in Guias => upload'.guia = upload.guia
  /\ \A g \in Guias : guiasFiscais'[g].cancelada => guiasFiscais[g].cancelada
        \/ ~T!Travada(g)

LEMMA QuemEspera ==
  ASSUME T!PagamentosAssumption, TInv, T!TypeOK', NadaSePerde, NEW q \in Procs,
         pcTrilha'[q] = pcTrilha[q], reqTrilha'[q] = reqTrilha[q]
  PROVE  PedidoOK(q)'
<1>1. PedidoOK(q) /\ reqTrilha[q] \in PedidoDaTrilha
  BY CamposDoPagamento DEF TInv
<1>2. \A g \in Guias : /\ T!TotalRecebido(trilha[g]) \in Int
                       /\ T!TotalRecebido(trilha'[g]) \in Int
  BY CamposDoPagamento, TotaisInteiros DEF T!TypeOK
<1>3. ASSUME reqTrilha[q].guia \in Guias, pcTrilha[q] = "marcar",
             reqTrilha[q].status = "PAGO"
      PROVE  T!TotalRecebido(trilha'[reqTrilha[q].guia]) >= ValorTotal
  <2>1. T!TotalRecebido(trilha[reqTrilha[q].guia]) >= ValorTotal
    BY <1>1, <1>3 DEF PedidoOK
  <2> QED
    BY <1>2, <1>3, <2>1, CamposDoPagamento DEF NadaSePerde
<1>4. ASSUME reqTrilha[q].guia \in Guias, pcTrilha[q] \in {"gravarFiscal", "confirmar"},
             reqTrilha[q].quita
      PROVE  T!TotalRecebido(trilha'[reqTrilha[q].guia]) + ValorUpload >= ValorTotal
  <2>1. T!TotalRecebido(trilha[reqTrilha[q].guia]) + ValorUpload >= ValorTotal
    BY <1>1, <1>4 DEF PedidoOK
  <2> QED
    BY <1>2, <1>4, <2>1, CamposDoPagamento DEF NadaSePerde
<1>5. pcTrilha[q] = "confirmar" /\ reqTrilha[q].guia \in Guias
         => ~guiasFiscais'[reqTrilha[q].guia].cancelada
  BY <1>1 DEF PedidoOK, NadaSePerde, T!Travada
<1> QED
  BY <1>1, <1>3, <1>4, <1>5 DEF PedidoOK, NadaSePerde

(* A step that leaves the guias, the trail and the upload alone. *)
LEMMA SoLeitura ==
  ASSUME T!PagamentosAssumption, TInv, NEW p \in Procs, NEW ponto \in T!Pontos,
         NEW r \in PedidoDaTrilha, MudaDaTrilha(p, ponto, r), UNCHANGED T!dados,
         respondidas \subseteq respondidas', respondidas' \subseteq T!ComChave,
         PedidoOK(p)'
  PROVE  TInv'
<1>1. /\ pcTrilha' \in [Procs -> T!Pontos] /\ reqTrilha' \in [Procs -> PedidoDaTrilha]
      /\ \A q \in Procs \ {p} : pcTrilha'[q] = pcTrilha[q] /\ reqTrilha'[q] = reqTrilha[q]
  BY PassoDoPagamento
<1>2. UNCHANGED <<guiasFiscais, trilha, upload>>
  BY DEF T!dados
<1>3. T!TypeOK'
  BY <1>1, <1>2, CamposDoPagamento DEF TInv, T!TypeOK, PedidoDaTrilha, T!ComChave
<1>4. NadaSePerde
  <2>1. \A g \in Guias : T!TotalRecebido(trilha[g]) \in Int
    BY CamposDoPagamento, TotaisInteiros
  <2> QED
    BY <1>2, <2>1 DEF NadaSePerde
<1>5. \A q \in Procs : PedidoOK(q)'
  BY <1>1, <1>3, <1>4, QuemEspera
<1> QED
  BY <1>2, <1>3, <1>5 DEF TInv, T!UmaGuiaPorChave, T!ComChave, T!PagoRespaldado

(* Nor does a step that only moves a request. *)
LEMMA LeiturasT ==
  ASSUME T!PagamentosAssumption, TInv, NEW p \in Procs,
         \/ T!BuscarChave(p) \/ T!PedirStatus(p) \/ T!PedirEvento(p) \/ T!PagarUpload(p)
         \/ T!Reler(p) \/ T!Projetar(p) \/ T!LerFiscal(p) \/ T!LerTrilha(p)
            \/ T!GravarFiscal(p)
         \/ T!Falhar(p)
  PROVE  TInv' /\ UNCHANGED T!dados
<1>0. /\ PedidoOK(p) /\ pcTrilha[p] \in T!Pontos /\ reqTrilha[p] \in PedidoDaTrilha
      /\ respondidas \subseteq T!ComChave
  BY CamposDoPagamento DEF TInv, T!UmaGuiaPorChave
<1>1. UNCHANGED T!dados
  BY DEF T!BuscarChave, T!PedirStatus, T!PedirEvento, T!PagarUpload, T!Reler, T!Projetar,
     T!LerFiscal, T!LerTrilha, T!GravarFiscal, T!Falhar
<1>2. UNCHANGED <<guiasFiscais, trilha, upload>>
  BY <1>1 DEF T!dados
<1>3. ASSUME T!Encerrar(p), respondidas \subseteq respondidas',
             respondidas' \subseteq T!ComChave
      PROVE  TInv'
  <2>1. MudaDaTrilha(p, "ocioso", T!Livre)
    BY <1>3, MudancasDaTrilha
  <2>2. PedidoOK(p)'
    BY <2>1, CamposDoPagamento, PassoDoPagamento DEF PedidoOK, T!Pontos
  <2> QED
    BY <1>1, <1>3, <2>1, <2>2, CamposDoPagamento, SoLeitura DEF T!Pontos
<1>4. CASE T!BuscarChave(p)
  <2>1. CASE \E g \in T!ComChave : T!Responder(p, g)
    <3>1. PICK g \in T!ComChave : T!Encerrar(p) /\ respondidas' = respondidas \cup {g}
      BY <2>1 DEF T!Responder
    <3>2. respondidas \subseteq respondidas' /\ respondidas' \subseteq T!ComChave
      BY <1>0, <3>1
    <3> QED
      BY <1>1, <1>3, <3>1, <3>2
  <2>2. CASE T!Iniciar(p, "inserir", T!Livre) /\ UNCHANGED respondidas
    <3>1. MudaDaTrilha(p, "inserir", T!Livre)
      BY <2>2 DEF T!Iniciar, MudaDaTrilha
    <3>2. PedidoOK(p)'
      BY <3>1, CamposDoPagamento, PassoDoPagamento DEF PedidoOK, T!Pontos
    <3> QED
      BY <1>0, <1>1, <2>2, <3>1, <3>2, CamposDoPagamento, SoLeitura DEF T!Pontos
  <2> QED BY <1>4, <2>1, <2>2 DEF T!BuscarChave
<1>5. CASE T!Reler(p)
  BY <1>0, <1>3, <1>5 DEF T!Reler, T!Responder
<1>6. CASE T!Falhar(p)
  BY <1>0, <1>3, <1>6 DEF T!Falhar
<1>7. CASE T!PedirStatus(p)
  <2>1. PICK g \in T!Existentes, s \in T!Estados \ {"AUSENTE"} :
          T!Iniciar(p, IF s = "PAGO" THEN "projetar" ELSE "marcar",
                  [T!Livre EXCEPT !.guia = g, !.status = s])
    BY <1>7 DEF T!PedirStatus
  <2> DEFINE ponto == IF s = "PAGO" THEN "projetar" ELSE "marcar"
             r == [T!Livre EXCEPT !.guia = g, !.status = s]
  <2>2. r \in PedidoDaTrilha /\ r.guia = g /\ g \in Guias /\ r.status = s
    BY CamposDoPagamento DEF PedidoDaTrilha, T!Livre, T!Existentes
  <2>3. MudaDaTrilha(p, ponto, r) /\ ponto \in T!Pontos
    BY <2>1 DEF T!Iniciar, MudaDaTrilha, T!Pontos
  <2>4. ponto = "projetar" => s = "PAGO"
    OBVIOUS
  <2>5. ponto \in {"projetar", "marcar"} /\ (ponto = "marcar" => s # "PAGO")
    OBVIOUS
  <2> HIDE DEF ponto, r
  <2>6. pcTrilha'[p] = ponto /\ reqTrilha'[p] = r
    BY <2>2, <2>3, PassoDoPagamento
  <2>7. PedidoOK(p)'
    BY <2>2, <2>4, <2>5, <2>6 DEF PedidoOK
  <2> QED
    BY <1>0, <1>1, <1>7, <2>2, <2>3, <2>7, SoLeitura DEF T!PedirStatus
<1>8. CASE T!PedirEvento(p)
  <2>1. PICK g \in T!Existentes : \E e \in T!Pagamentos \cup T!Estornos(g) :
          T!Iniciar(p, "registrar", [T!Livre EXCEPT !.guia = g, !.evento = e])
    BY <1>8 DEF T!PedirEvento
  <2>2. PICK e \in T!Pagamentos \cup T!Estornos(g) :
          T!Iniciar(p, "registrar", [T!Livre EXCEPT !.guia = g, !.evento = e])
    BY <2>1
  <2>3. e \in T!Evento /\ e.origem = "MANUAL" /\ g \in Guias
    <3>0. g \in Guias
      BY DEF T!Existentes
    <3>1. DOMAIN trilha[g] \subseteq Nat
      BY <3>0, CamposDoPagamento
    <3>2. Valores \subseteq Nat
      BY DEF T!PagamentosAssumption
    <3>3. ASSUME NEW x \in T!Pagamentos PROVE x \in T!Evento /\ x.origem = "MANUAL"
      <4>1. /\ x = [sinal |-> x.sinal, valor |-> x.valor, estorna |-> x.estorna,
                     origem |-> x.origem]
            /\ x.sinal = 1 /\ x.valor \in Valores /\ x.estorna = 0 /\ x.origem = "MANUAL"
        BY DEF T!Pagamentos
      <4> QED
        BY <3>2, <4>1 DEF T!Evento
    <3>4. ASSUME NEW x \in T!Estornos(g) PROVE x \in T!Evento /\ x.origem = "MANUAL"
      BY <3>1, <3>2 DEF T!Estornos, T!Evento
    <3> QED
      BY <3>0, <3>3, <3>4
  <2> DEFINE r == [T!Livre EXCEPT !.guia = g, !.evento = e]
  <2>4. r \in PedidoDaTrilha /\ r.guia = g /\ r.evento = e
    BY <2>3, CamposDoPagamento DEF PedidoDaTrilha, T!Livre
  <2>5. MudaDaTrilha(p, "registrar", r) /\ "registrar" \in T!Pontos
    BY <2>2 DEF T!Iniciar, MudaDaTrilha, T!Pontos
  <2> HIDE DEF r
  <2>6. pcTrilha'[p] = "registrar" /\ reqTrilha'[p] = r
    BY <2>4, <2>5, PassoDoPagamento
  <2>7. PedidoOK(p)'
    BY <2>3, <2>4, <2>6 DEF PedidoOK
  <2> QED
    BY <1>0, <1>1, <1>8, <2>4, <2>5, <2>7, SoLeitura DEF T!PedirEvento
<1>9. CASE T!PagarUpload(p)
  <2>1. MudaDaTrilha(p, "lerFiscal", T!Livre) /\ upload.guia \in Guias
    BY <1>9, CamposDoPagamento DEF T!PagarUpload, T!Iniciar, MudaDaTrilha
  <2>2. PedidoOK(p)'
    BY <1>2, <2>1, CamposDoPagamento, PassoDoPagamento DEF PedidoOK, T!Pontos
  <2> QED
    BY <1>0, <1>1, <1>9, <2>1, <2>2, CamposDoPagamento, SoLeitura
       DEF T!Pontos, T!PagarUpload
<1>10. CASE T!Projetar(p)
  <2>1. CASE ~T!Respaldada(reqTrilha[p].guia)
    BY <1>0, <1>3, <1>10, <2>1 DEF T!Projetar
  <2>2. CASE T!Respaldada(reqTrilha[p].guia)
    <3>1. MudaDaTrilha(p, "marcar", reqTrilha[p])
      BY <1>10, <2>2, MudancasDaTrilha DEF T!Projetar, T!Pontos
    <3>2. /\ reqTrilha[p].guia \in Guias /\ reqTrilha[p].status = "PAGO"
      BY <1>0, <1>10 DEF PedidoOK, T!Projetar
    <3>3. T!TotalRecebido(trilha[reqTrilha[p].guia]) >= ValorTotal
      <4>1. trilha[reqTrilha[p].guia] \in Seq(T!Evento) /\ ValorTotal \in Nat
        BY <3>2, CamposDoPagamento
      <4>2. ValorTotal - T!TotalPago(trilha[reqTrilha[p].guia]) <= 0
        BY <2>2 DEF T!Respaldada, T!Quitada
      <4> QED
        BY <4>1, <4>2, TotaisInteiros
    <3>4. pcTrilha'[p] = "marcar" /\ reqTrilha'[p] = reqTrilha[p]
      BY <1>0, <3>1, PassoDoPagamento DEF T!Pontos
    <3>5. PedidoOK(p)'
      BY <1>2, <3>2, <3>3, <3>4 DEF PedidoOK
    <3> QED
      BY <1>0, <1>1, <1>10, <3>1, <3>5, SoLeitura DEF T!Pontos, T!Projetar
  <2> QED BY <2>1, <2>2
<1>11. CASE T!LerFiscal(p)
  <2>1. reqTrilha[p] = T!Livre /\ upload.guia \in Guias
    BY <1>0, <1>11 DEF PedidoOK, T!LerFiscal
  <2>2. CASE guiasFiscais[upload.guia].cancelada
    <3>1. MudaDaTrilha(p, "confirmar", reqTrilha[p])
      BY <1>11, <2>2, MudancasDaTrilha DEF T!LerFiscal, T!Pontos
    <3>2. PedidoOK(p)'
      BY <1>0, <2>1, <3>1, CamposDoPagamento, PassoDoPagamento DEF PedidoOK, T!Pontos
    <3> QED
      BY <1>0, <1>1, <1>11, <3>1, <3>2, SoLeitura DEF T!Pontos, T!LerFiscal
  <2>3. CASE ~guiasFiscais[upload.guia].cancelada
    <3> DEFINE r == [reqTrilha[p] EXCEPT !.guia = upload.guia]
    <3>1. r \in PedidoDaTrilha /\ r.guia \in Guias
      BY <1>0, <2>1 DEF PedidoDaTrilha
    <3>2. MudaDaTrilha(p, "lerTrilha", r) /\ "lerTrilha" \in T!Pontos
      BY <1>11, <2>3 DEF T!LerFiscal, MudaDaTrilha, T!Pontos
    <3> HIDE DEF r
    <3>3. pcTrilha'[p] = "lerTrilha" /\ reqTrilha'[p] = r
      BY <3>1, <3>2, PassoDoPagamento
    <3>4. PedidoOK(p)'
      BY <3>1, <3>3 DEF PedidoOK
    <3> QED
      BY <1>0, <1>1, <1>11, <3>1, <3>2, <3>4, SoLeitura DEF T!LerFiscal
  <2> QED BY <2>2, <2>3
<1>12. CASE T!LerTrilha(p)
  <2> DEFINE s == trilha[reqTrilha[p].guia]
  <2>1. reqTrilha[p].guia \in Guias /\ s \in Seq(T!Evento)
    BY <1>0, <1>12, CamposDoPagamento DEF PedidoOK, T!LerTrilha
  <2>2. CASE T!Quitada(s)
    BY <1>0, <1>3, <1>12, <2>2 DEF T!LerTrilha
  <2>3. CASE ~T!Quitada(s)
    <3> DEFINE b == T!Quitada(Append(s, T!Conciliacao))
               r == [reqTrilha[p] EXCEPT !.evento = T!Conciliacao, !.quita = b]
    <3>0. b \in BOOLEAN
      BY DEF T!Quitada
    <3>1. r \in PedidoDaTrilha /\ r.guia = reqTrilha[p].guia /\ r.evento = T!Conciliacao
             /\ r.quita = b
      <4> HIDE DEF b
      <4> QED BY <1>0, <3>0, CamposDoPagamento DEF PedidoDaTrilha
    <3>2. MudaDaTrilha(p, "gravarFiscal", r) /\ "gravarFiscal" \in T!Pontos
      BY <1>12, <2>3 DEF T!LerTrilha, MudaDaTrilha, T!Pontos
    <3>3. b => T!TotalRecebido(s) + ValorUpload >= ValorTotal
      <4>1. T!TotalPago(Append(s, T!Conciliacao)) = T!TotalPago(s) + 1 * ValorUpload
        BY <2>1, CamposDoPagamento, MaisUmEvento
      <4>2. /\ T!TotalPago(s) \in Int /\ T!TotalRecebido(s) \in Int
            /\ T!TotalPago(s) <= T!TotalRecebido(s)
        BY <2>1, TotaisInteiros
      <4>3. b => ValorTotal - T!TotalPago(Append(s, T!Conciliacao)) <= 0
        BY DEF T!Quitada
      <4> HIDE DEF b, s
      <4> QED
        BY <4>1, <4>2, <4>3, CamposDoPagamento
    <3> HIDE DEF r, b
    <3>4. pcTrilha'[p] = "gravarFiscal" /\ reqTrilha'[p] = r
      BY <3>1, <3>2, PassoDoPagamento
    <3>5. PedidoOK(p)'
      BY <1>2, <2>1, <3>1, <3>3, <3>4 DEF PedidoOK
    <3> QED
      BY <1>0, <1>1, <1>12, <3>1, <3>2, <3>5, SoLeitura DEF T!LerTrilha
  <2> QED BY <2>2, <2>3
<1>13. CASE T!GravarFiscal(p)
  <2>1. CASE guiasFiscais[reqTrilha[p].guia].cancelada
    BY <1>0, <1>3, <1>13, <2>1 DEF T!GravarFiscal
  <2>2. CASE ~guiasFiscais[reqTrilha[p].guia].cancelada
    <3>1. MudaDaTrilha(p, "confirmar", reqTrilha[p])
      BY <1>13, <2>2, MudancasDaTrilha DEF T!GravarFiscal, T!Pontos
    <3>2. pcTrilha'[p] = "confirmar" /\ reqTrilha'[p] = reqTrilha[p]
      BY <1>0, <3>1, PassoDoPagamento DEF T!Pontos
    <3>3. PedidoOK(p)'
      BY <1>0, <1>2, <1>13, <2>2, <3>2 DEF PedidoOK, T!GravarFiscal
    <3> QED
      BY <1>0, <1>1, <1>13, <3>1, <3>3, SoLeitura DEF T!Pontos, T!GravarFiscal
  <2> QED BY <2>1, <2>2
<1> QED
  BY <1>1, <1>4, <1>5, <1>6, <1>7, <1>8, <1>9, <1>10, <1>11, <1>12, <1>13

(* A guia is created, or its flags change. *)
LEMMA MudancaDeGuia ==
  ASSUME T!PagamentosAssumption, TInv, T!TypeOK', UNCHANGED <<trilha, upload>>,
         \A g \in Guias : guiasFiscais'[g].cancelada => guiasFiscais[g].cancelada
            \/ ~T!Travada(g),
         \A q \in Procs : (pcTrilha'[q] = pcTrilha[q] /\ reqTrilha'[q] = reqTrilha[q])
            \/ pcTrilha'[q] \in {"ocioso", "reler"},
         T!UmaGuiaPorChave',
         \A g \in Guias : guiasFiscais'[g].chave => guiasFiscais'[g].status # "AUSENTE",
         \A g \in Guias : guiasFiscais'[g].status = "PAGO"
            => T!TotalRecebido(trilha[g]) >= ValorTotal
  PROVE  TInv'
<1>1. NadaSePerde
  <2>1. \A g \in Guias : T!TotalRecebido(trilha[g]) \in Int
    BY CamposDoPagamento, TotaisInteiros
  <2> QED
    BY <2>1 DEF NadaSePerde
<1>2. ASSUME NEW q \in Procs PROVE PedidoOK(q)'
  <2>1. CASE pcTrilha'[q] = pcTrilha[q] /\ reqTrilha'[q] = reqTrilha[q]
    BY <1>1, <2>1, QuemEspera
  <2>2. CASE pcTrilha'[q] \in {"ocioso", "reler"}
    BY <2>2 DEF PedidoOK
  <2> QED BY <2>1, <2>2
<1>3. T!PagoRespaldado'
  BY DEF T!PagoRespaldado
<1> QED
  BY <1>2, <1>3 DEF TInv, T!ComChave

LEMMA GuiasT ==
  ASSUME T!PagamentosAssumption, TInv, NEW p \in Procs,
         T!Inserir(p) \/ T!CriarSemChave(p) \/ T!Cancelar(p) \/ T!Marcar(p)
  PROVE  TInv' /\ UNCHANGED trilha
<1>0. /\ PedidoOK(p) /\ respondidas \subseteq T!ComChave /\ \A g, h \in T!ComChave : g = h
      /\ \A g \in T!ComChave : guiasFiscais[g].status # "AUSENTE"
      /\ \A g \in Guias : guiasFiscais[g].status = "PAGO"
            => T!TotalRecebido(trilha[g]) >= ValorTotal
  BY DEF TInv, T!UmaGuiaPorChave, T!PagoRespaldado
<1>1. UNCHANGED <<trilha, upload>>
  BY DEF T!Inserir, T!CriarSemChave, T!Cancelar, T!Marcar
<1>2. \/ pcTrilha' = pcTrilha /\ reqTrilha' = reqTrilha
      \/ T!Encerrar(p)
      \/ T!Ir(p, "reler")
  BY DEF T!Inserir, T!CriarSemChave, T!Cancelar, T!Marcar, T!Responder
<1>3. /\ pcTrilha' \in [Procs -> T!Pontos] /\ reqTrilha' \in [Procs -> PedidoDaTrilha]
      /\ \A q \in Procs :
           (pcTrilha'[q] = pcTrilha[q] /\ reqTrilha'[q] = reqTrilha[q])
              \/ pcTrilha'[q] \in {"ocioso", "reler"}
  <2>1. CASE pcTrilha' = pcTrilha /\ reqTrilha' = reqTrilha
    BY <2>1, CamposDoPagamento
  <2>2. CASE T!Encerrar(p)
    <3>1. MudaDaTrilha(p, "ocioso", T!Livre) /\ "ocioso" \in T!Pontos
      BY <2>2, MudancasDaTrilha DEF T!Pontos
    <3> QED BY <3>1, CamposDoPagamento, PassoDoPagamento
  <2>3. CASE T!Ir(p, "reler")
    <3>1. MudaDaTrilha(p, "reler", reqTrilha[p]) /\ "reler" \in T!Pontos
             /\ reqTrilha[p] \in PedidoDaTrilha
      BY <2>3, MudancasDaTrilha, CamposDoPagamento DEF T!Pontos
    <3> QED BY <3>1, PassoDoPagamento
  <2> QED BY <1>2, <2>1, <2>2, <2>3
<1>4. ASSUME guiasFiscais' \in [Guias -> T!Guia], respondidas' \subseteq Guias
      PROVE T!TypeOK'
  BY <1>1, <1>3, <1>4, CamposDoPagamento DEF TInv, T!TypeOK, PedidoDaTrilha
<1>5. \A b \in BOOLEAN : /\ T!Nova(b) \in T!Guia /\ T!Nova(b).status = "PENDENTE"
                         /\ T!Nova(b).chave = b /\ T!Nova(b).cancelada = FALSE
  BY DEF T!Guia, T!Ausente, T!Nova, T!Estados
<1>6. ASSUME NEW g \in Guias \ T!Existentes, NEW b \in BOOLEAN, b => T!ComChave = {},
             guiasFiscais' = [guiasFiscais EXCEPT ![g] = T!Nova(b)],
             respondidas' = respondidas \/ (b /\ respondidas' = respondidas \cup {g})
      PROVE  TInv'
  <2>1. guiasFiscais' \in [Guias -> T!Guia] /\ \A h \in Guias : guiasFiscais'[h] = IF h = g
           THEN T!Nova(b) ELSE guiasFiscais[h]
    BY <1>5, <1>6, CamposDoPagamento
  <2>2. g \notin T!ComChave
    BY <1>0, <1>6 DEF T!Existentes
  <2>3. T!ComChave' = IF b THEN {g} ELSE T!ComChave
    BY <1>5, <1>6, <2>1, <2>2 DEF T!ComChave
  <2>4. T!UmaGuiaPorChave' /\ respondidas' \subseteq Guias
    BY <1>0, <1>6, <2>3 DEF T!UmaGuiaPorChave, T!ComChave
  <2>5. \A h \in Guias : /\ guiasFiscais'[h].chave => guiasFiscais'[h].status # "AUSENTE"
                         /\ guiasFiscais'[h].status = "PAGO"
                               => T!TotalRecebido(trilha[h]) >= ValorTotal
                         /\ guiasFiscais'[h].cancelada => guiasFiscais[h].cancelada
    BY <1>0, <1>5, <2>1 DEF T!ComChave
  <2> QED
    BY <1>1, <1>3, <1>4, <2>1, <2>4, <2>5, MudancaDeGuia
<1>7. CASE T!Inserir(p)
  <2>1. CASE T!ComChave = {}
    <3>1. PICK g \in Guias \ T!Existentes :
            /\ guiasFiscais' = [guiasFiscais EXCEPT ![g] = T!Nova(TRUE)]
            /\ respondidas' = respondidas \/ respondidas' = respondidas \cup {g}
      BY <1>7, <2>1 DEF T!Inserir, T!Responder
    <3> QED
      BY <1>1, <1>6, <2>1, <3>1
  <2>2. CASE T!ComChave # {}
    <3>1. guiasFiscais' = guiasFiscais /\ respondidas' = respondidas
      BY <1>7, <2>2 DEF T!Inserir
    <3>2. /\ T!TypeOK' /\ T!UmaGuiaPorChave'
          /\ \A g \in Guias : guiasFiscais'[g].chave => guiasFiscais'[g].status # "AUSENTE"
      BY <1>0, <1>4, <3>1, CamposDoPagamento DEF T!UmaGuiaPorChave, T!ComChave
    <3> QED
      BY <1>0, <1>1, <1>3, <3>1, <3>2, MudancaDeGuia
  <2> QED BY <2>1, <2>2
<1>8. CASE T!CriarSemChave(p)
  <2>1. PICK g \in Guias \ T!Existentes : guiasFiscais' = [guiasFiscais EXCEPT ![g]
            = T!Nova(FALSE)]
    BY <1>8 DEF T!CriarSemChave
  <2> QED
    BY <1>1, <1>6, <1>8, <2>1 DEF T!CriarSemChave
<1>9. CASE T!Cancelar(p)
  <2>1. PICK g \in T!Existentes : ~T!Travada(g)
                /\ guiasFiscais' = [guiasFiscais EXCEPT ![g].cancelada = TRUE]
    BY <1>9 DEF T!Cancelar
  <2>2. /\ guiasFiscais' \in [Guias -> T!Guia] /\ respondidas' = respondidas
        /\ \A h \in Guias : /\ guiasFiscais'[h].chave = guiasFiscais[h].chave
                            /\ guiasFiscais'[h].status = guiasFiscais[h].status
                            /\ h # g => guiasFiscais'[h] = guiasFiscais[h]
    <3> DEFINE n == [guiasFiscais[g] EXCEPT !.cancelada = TRUE]
    <3>1. g \in Guias /\ guiasFiscais[g] \in T!Guia
      BY CamposDoPagamento DEF T!Existentes
    <3>2. n \in T!Guia /\ n.chave = guiasFiscais[g].chave
             /\ n.status = guiasFiscais[g].status
      BY <3>1 DEF T!Guia
    <3>3. guiasFiscais' = [guiasFiscais EXCEPT ![g] = n] /\ respondidas' = respondidas
      BY <1>9, <2>1 DEF T!Cancelar
    <3> HIDE DEF n
    <3> QED
      BY <3>1, <3>2, <3>3, CamposDoPagamento
  <2>3. T!ComChave' = T!ComChave
    BY <2>2 DEF T!ComChave
  <2>4. /\ T!TypeOK' /\ T!UmaGuiaPorChave'
        /\ \A h \in Guias : guiasFiscais'[h].chave => guiasFiscais'[h].status # "AUSENTE"
        /\ \A h \in Guias : guiasFiscais'[h].status = "PAGO"
              => T!TotalRecebido(trilha[h]) >= ValorTotal
        /\ \A h \in Guias : guiasFiscais'[h].cancelada => guiasFiscais[h].cancelada
              \/ ~T!Travada(h)
    BY <1>0, <1>4, <2>1, <2>2, <2>3, CamposDoPagamento DEF T!UmaGuiaPorChave, T!ComChave
  <2> QED
    BY <1>1, <1>3, <2>4, MudancaDeGuia
<1>10. CASE T!Marcar(p)
  <2> DEFINE g == reqTrilha[p].guia
             s == reqTrilha[p].status
  <2>1. /\ g \in Guias /\ s \in T!Estados /\ s # "AUSENTE"
        /\ s = "PAGO" => T!TotalRecebido(trilha[g]) >= ValorTotal
    BY <1>0, <1>10, CamposDoPagamento DEF T!Marcar, PedidoOK, PedidoDaTrilha
  <2>2. /\ guiasFiscais' \in [Guias -> T!Guia] /\ respondidas' = respondidas
        /\ \A h \in Guias : /\ guiasFiscais'[h].chave = guiasFiscais[h].chave
                            /\ guiasFiscais'[h].status = IF h = g THEN s
                                  ELSE guiasFiscais[h].status
                            /\ guiasFiscais'[h].cancelada = guiasFiscais[h].cancelada
    <3> DEFINE n == [guiasFiscais[g] EXCEPT !.status = s]
    <3>1. guiasFiscais[g] \in T!Guia
      BY <2>1, CamposDoPagamento
    <3>2. /\ n \in T!Guia /\ n.chave = guiasFiscais[g].chave /\ n.status = s
          /\ n.cancelada = guiasFiscais[g].cancelada
      BY <2>1, <3>1 DEF T!Guia
    <3>3. guiasFiscais' = [guiasFiscais EXCEPT ![g] = n] /\ respondidas' = respondidas
      BY <1>10 DEF T!Marcar
    <3> HIDE DEF n, g, s
    <3> QED
      BY <2>1, <3>2, <3>3, CamposDoPagamento
  <2> HIDE DEF g, s
  <2>3. T!ComChave' = T!ComChave
    BY <2>2 DEF T!ComChave
  <2>4. /\ T!TypeOK' /\ T!UmaGuiaPorChave'
        /\ \A h \in Guias : guiasFiscais'[h].chave => guiasFiscais'[h].status # "AUSENTE"
        /\ \A h \in Guias : guiasFiscais'[h].status = "PAGO"
              => T!TotalRecebido(trilha[h]) >= ValorTotal
        /\ \A h \in Guias : guiasFiscais'[h].cancelada => guiasFiscais[h].cancelada
              \/ ~T!Travada(h)
    BY <1>0, <1>4, <2>1, <2>2, <2>3, CamposDoPagamento DEF T!UmaGuiaPorChave, T!ComChave
  <2> QED
    BY <1>1, <1>3, <2>4, MudancaDeGuia
<1> QED
  BY <1>1, <1>7, <1>8, <1>9, <1>10

(* An event is added to the trail of one guia. *)
LEMMA Acrescimo ==
  ASSUME T!PagamentosAssumption, TInv, NEW g \in Guias, NEW e \in T!Evento,
         T!Acrescentar(g, e)
  PROVE  /\ trilha' \in [Guias -> Seq(T!Evento)]
         /\ \A h \in Guias \ {g} : trilha'[h] = trilha[h]
         /\ trilha'[g] = Append(trilha[g], e) /\ T!Last(trilha'[g]) = e
         /\ \A h \in Guias : /\ T!TotalRecebido(trilha[h]) \in Int
                             /\ T!TotalRecebido(trilha'[h]) \in Int
                             /\ T!TotalRecebido(trilha[h]) <= T!TotalRecebido(trilha'[h])
         /\ e.sinal = 1 => T!TotalRecebido(trilha'[g])
             = T!TotalRecebido(trilha[g]) + e.valor
<1> DEFINE s == trilha[g]
           t == Append(s, e)
<1>1. trilha \in [Guias -> Seq(T!Evento)] /\ s \in Seq(T!Evento)
  BY CamposDoPagamento
<1>2. /\ trilha' = [trilha EXCEPT ![g] = t] /\ t \in Seq(T!Evento)
  BY <1>1 DEF T!Acrescentar
<1>3. T!Last(t) = e
  BY <1>1 DEF T!Last
<1>4. /\ trilha' \in [Guias -> Seq(T!Evento)] /\ trilha'[g] = t
      /\ \A h \in Guias \ {g} : trilha'[h] = trilha[h]
  BY <1>1, <1>2
<1>5. /\ T!TotalRecebido(s) \in Int /\ T!TotalRecebido(t) \in Int /\ e.valor \in Nat
      /\ T!TotalRecebido(t) = T!TotalRecebido(s) + (IF e.sinal = 1 THEN e.valor ELSE 0)
  BY <1>1, <1>2, TotaisInteiros, MaisUmEvento DEF T!Evento
<1>6. \A h \in Guias : T!TotalRecebido(trilha[h]) \in Int
  BY <1>1, TotaisInteiros
<1>7. T!TotalRecebido(s) <= T!TotalRecebido(t)
  BY <1>5
<1> HIDE DEF t
<1>8. ASSUME NEW h \in Guias
      PROVE  /\ T!TotalRecebido(trilha'[h]) \in Int
             /\ T!TotalRecebido(trilha[h]) <= T!TotalRecebido(trilha'[h])
  BY <1>4, <1>5, <1>6, <1>7
<1> QED
  BY <1>3, <1>4, <1>5, <1>6, <1>8 DEF t

(* The events of a trail are conciliations of guias in force only.         *)
EmVigor ==
  \A g \in Guias :
    trilha'[g] # trilha[g] /\ T!Last(trilha'[g]).origem = "CONCILIACAO"
       => ~guiasFiscais[g].cancelada

LEMMA TrilhaT ==
  ASSUME T!PagamentosAssumption, TInv, NEW p \in Procs, T!Registrar(p) \/ T!Confirmar(p)
  PROVE  TInv' /\ EmVigor
<1>0. /\ PedidoOK(p) /\ respondidas \subseteq T!ComChave /\ \A g, h \in T!ComChave : g = h
      /\ \A g \in T!ComChave : guiasFiscais[g].status # "AUSENTE"
      /\ \A g \in Guias : guiasFiscais[g].status = "PAGO"
            => T!TotalRecebido(trilha[g]) >= ValorTotal
      /\ reqTrilha[p] \in PedidoDaTrilha /\ ValorTotal \in Nat /\ ValorUpload \in Nat
  BY CamposDoPagamento DEF TInv, T!UmaGuiaPorChave, T!PagoRespaldado
<1>1. MudaDaTrilha(p, "ocioso", T!Livre) /\ respondidas' = respondidas
  BY MudancasDaTrilha DEF T!Registrar, T!Confirmar
<1>2. /\ pcTrilha' \in [Procs -> T!Pontos] /\ reqTrilha' \in [Procs -> PedidoDaTrilha]
      /\ pcTrilha'[p] = "ocioso"
      /\ \A q \in Procs \ {p} : pcTrilha'[q] = pcTrilha[q] /\ reqTrilha'[q] = reqTrilha[q]
  BY <1>1, CamposDoPagamento, PassoDoPagamento DEF T!Pontos
<1>3. ASSUME guiasFiscais' \in [Guias -> T!Guia], trilha' \in [Guias -> Seq(T!Evento)],
             upload' \in [guia : Guias
                \cup {Nada}, paga : BOOLEAN], upload'.guia = upload.guia,
             \A g \in Guias : /\ guiasFiscais'[g].cancelada = guiasFiscais[g].cancelada
                              /\ guiasFiscais'[g].chave = guiasFiscais[g].chave
                              /\ guiasFiscais[g].status # "AUSENTE"
                                    => guiasFiscais'[g].status # "AUSENTE"
                              /\ T!TotalRecebido(trilha[g]) <= T!TotalRecebido(trilha'[g]),
             T!PagoRespaldado'
      PROVE  TInv'
  <2>1. T!TypeOK'
    BY <1>1, <1>2, <1>3, CamposDoPagamento DEF TInv, T!TypeOK, PedidoDaTrilha
  <2>2. NadaSePerde
    BY <1>3 DEF NadaSePerde
  <2>3. PedidoOK(p)'
    BY <1>2 DEF PedidoOK
  <2>4. \A q \in Procs : PedidoOK(q)'
    BY <1>2, <2>1, <2>2, <2>3, QuemEspera
  <2>5. T!ComChave' = T!ComChave
    BY <1>3 DEF T!ComChave
  <2> QED
    BY <1>0, <1>1, <1>3, <2>1, <2>4, <2>5 DEF TInv, T!UmaGuiaPorChave, T!ComChave
<1>4. CASE T!Registrar(p)
  <2> DEFINE g == reqTrilha[p].guia
             e == reqTrilha[p].evento
  <2>1. g \in Guias /\ e \in T!Evento /\ e.origem = "MANUAL" /\ T!Acrescentar(g, e)
    BY <1>0, <1>4 DEF T!Registrar, PedidoOK, PedidoDaTrilha
  <2>2. guiasFiscais' = guiasFiscais /\ upload' = upload
    BY <1>4 DEF T!Registrar
  <2> HIDE DEF g, e
  <2>3. EmVigor
    BY <2>1, Acrescimo DEF EmVigor
  <2>4. T!PagoRespaldado'
    <3>1. ASSUME NEW h \in Guias, guiasFiscais'[h].status = "PAGO"
          PROVE  T!TotalRecebido(trilha'[h]) >= ValorTotal
      <4>1. T!TotalRecebido(trilha[h]) >= ValorTotal
        BY <1>0, <2>2, <3>1
      <4> QED
        BY <1>0, <2>1, <4>1, Acrescimo
    <3> QED BY <3>1 DEF T!PagoRespaldado
  <2>5. /\ trilha' \in [Guias -> Seq(T!Evento)]
        /\ \A h \in Guias : T!TotalRecebido(trilha[h]) <= T!TotalRecebido(trilha'[h])
    BY <2>1, Acrescimo
  <2> QED
    BY <1>3, <2>2, <2>3, <2>4, <2>5, CamposDoPagamento
<1>5. CASE T!Confirmar(p) /\ reqTrilha[p].guia = Nada
  <2>1. /\ guiasFiscais' = guiasFiscais /\ trilha' = trilha
        /\ upload' \in [guia : Guias \cup {Nada}, paga : BOOLEAN]
              /\ upload'.guia = upload.guia
    BY <1>5, CamposDoPagamento DEF T!Confirmar
  <2>2. \A h \in Guias : T!TotalRecebido(trilha[h]) \in Int
    BY CamposDoPagamento, TotaisInteiros
  <2>3. T!PagoRespaldado' /\ EmVigor
    BY <1>0, <2>1 DEF T!PagoRespaldado, EmVigor
  <2> QED
    BY <1>3, <2>1, <2>2, <2>3, CamposDoPagamento
<1>6. CASE T!Confirmar(p) /\ reqTrilha[p].guia # Nada
  <2> DEFINE g == reqTrilha[p].guia
             e == reqTrilha[p].evento
             novo == IF reqTrilha[p].quita THEN "PAGO" ELSE guiasFiscais[g].status
  <2>1. /\ g \in Guias /\ e = T!Conciliacao /\ ~guiasFiscais[g].cancelada
        /\ T!Acrescentar(g, e)
        /\ reqTrilha[p].quita => T!TotalRecebido(trilha[g]) + ValorUpload >= ValorTotal
        /\ pcTrilha[p] = "confirmar"
    BY <1>0, <1>6 DEF T!Confirmar, PedidoOK, PedidoDaTrilha
  <2>2. /\ upload' \in [guia : Guias \cup {Nada}, paga : BOOLEAN]
              /\ upload'.guia = upload.guia
    BY <1>6, CamposDoPagamento DEF T!Confirmar
  <2>3. guiasFiscais' = [guiasFiscais EXCEPT ![g].status = novo]
    BY <1>6, <2>1, CamposDoPagamento DEF T!Confirmar
  <2>4. novo \in T!Estados
    BY <2>1, CamposDoPagamento DEF T!Guia, T!Estados
  <2>5. reqTrilha[p].quita => novo = "PAGO"
    OBVIOUS
  <2>6. ~reqTrilha[p].quita => novo = guiasFiscais[g].status
    OBVIOUS
  <2> HIDE DEF g, e, novo
  <2>7. /\ guiasFiscais' \in [Guias -> T!Guia]
        /\ \A h \in Guias : /\ guiasFiscais'[h].cancelada = guiasFiscais[h].cancelada
                            /\ guiasFiscais'[h].chave = guiasFiscais[h].chave
                            /\ guiasFiscais'[h].status = IF h = g THEN novo
                                  ELSE guiasFiscais[h].status
    BY <2>1, <2>3, <2>4, CamposDoPagamento DEF T!Guia
  <2>8. e \in T!Evento /\ e.sinal = 1 /\ e.valor = ValorUpload
    BY <2>1, CamposDoPagamento
  <2>9. /\ trilha' \in [Guias -> Seq(T!Evento)]
        /\ \A h \in Guias \ {g} : trilha'[h] = trilha[h]
        /\ \A h \in Guias : /\ T!TotalRecebido(trilha[h]) \in Int
                            /\ T!TotalRecebido(trilha'[h]) \in Int
                            /\ T!TotalRecebido(trilha[h]) <= T!TotalRecebido(trilha'[h])
        /\ T!TotalRecebido(trilha'[g]) = T!TotalRecebido(trilha[g]) + ValorUpload
    BY <2>1, <2>8, Acrescimo
  <2>10. EmVigor
    BY <2>1, <2>9 DEF EmVigor
  <2>11. T!PagoRespaldado'
    <3>1. ASSUME NEW h \in Guias, guiasFiscais'[h].status = "PAGO"
          PROVE  T!TotalRecebido(trilha'[h]) >= ValorTotal
      <4>1. CASE h = g /\ reqTrilha[p].quita
        BY <2>1, <2>9, <4>1
      <4>2. CASE ~(h = g /\ reqTrilha[p].quita)
        <5>1. T!TotalRecebido(trilha[h]) >= ValorTotal
          BY <1>0, <2>6, <2>7, <3>1, <4>2
        <5> QED
          BY <1>0, <2>9, <5>1
      <4> QED BY <4>1, <4>2
    <3> QED BY <3>1 DEF T!PagoRespaldado
  <2>12. guiasFiscais[g].status # "AUSENTE" => novo # "AUSENTE"
    BY <2>5, <2>6
  <2> QED
    BY <1>3, <2>2, <2>7, <2>9, <2>10, <2>11, <2>12
<1> QED
  BY <1>4, <1>5, <1>6

LEMMA UploadT ==
  ASSUME T!PagamentosAssumption, TInv, T!VincularUpload
  PROVE  TInv' /\ UNCHANGED trilha
<1>1. /\ UNCHANGED <<guiasFiscais, trilha, respondidas, pcTrilha, reqTrilha>>
      /\ upload' \in [guia : Guias \cup {Nada}, paga : BOOLEAN] /\ upload.guia = Nada
  BY CamposDoPagamento DEF T!VincularUpload, T!Existentes
<1>2. T!TypeOK'
  BY <1>1, CamposDoPagamento DEF TInv, T!TypeOK, PedidoDaTrilha
<1>3. NadaSePerde
  <2>1. \A g \in Guias : T!TotalRecebido(trilha[g]) \in Int
    BY CamposDoPagamento, TotaisInteiros
  <2> QED
    BY <1>1, <2>1, CamposDoPagamento DEF NadaSePerde
<1>4. \A q \in Procs : PedidoOK(q)'
  BY <1>1, <1>2, <1>3, QuemEspera
<1> QED
  BY <1>1, <1>2, <1>4 DEF TInv, T!UmaGuiaPorChave, T!ComChave, T!PagoRespaldado

LEMMA InicioT ==
  ASSUME T!PagamentosAssumption, T!Init
  PROVE  TInv
<1>1. T!TypeOK
  BY DEF T!Init, T!TypeOK, T!Guia, T!Estados, T!Ausente, T!Pontos, T!Livre, T!SemEvento,
     T!Evento
<1>2. T!ComChave = {} /\ respondidas = {}
  BY DEF T!Init, T!ComChave, T!Ausente
<1>3. \A p \in Procs : PedidoOK(p)
  BY DEF T!Init, PedidoOK
<1>4. T!PagoRespaldado
  BY DEF T!Init, T!PagoRespaldado, T!Ausente
<1> QED
  BY <1>1, <1>2, <1>3, <1>4 DEF TInv, T!UmaGuiaPorChave

LEMMA PassoT ==
  ASSUME T!PagamentosAssumption, TInv, [T!Next]_(T!vars)
  PROVE  TInv' /\ EmVigor
<1>1. CASE UNCHANGED T!vars
  <2>1. UNCHANGED <<guiasFiscais, trilha, upload, respondidas, pcTrilha, reqTrilha>>
    BY <1>1 DEF T!vars, T!dados
  <2> QED
    BY <2>1
       DEF TInv, T!TypeOK, T!UmaGuiaPorChave, T!ComChave, PedidoOK, T!PagoRespaldado,
           EmVigor
<1>2. ASSUME UNCHANGED trilha PROVE EmVigor
  BY <1>2 DEF EmVigor
<1>3. CASE T!VincularUpload
  BY <1>2, <1>3, UploadT
<1>4. ASSUME NEW p \in Procs, T!Pedir(p) \/ T!Prosseguir(p) \/ T!Falhar(p)
      PROVE  TInv' /\ EmVigor
  BY <1>2, <1>4, LeiturasT, GuiasT, TrilhaT DEF T!Pedir, T!Prosseguir, T!dados
<1> QED
  BY <1>1, <1>3, <1>4 DEF T!Next

-----------------------------------------------------------------------------
(* The files of the guias. *)

(* A key that no row, queue or list of a deletion knows. *)
IneditaDaGuia(k) ==
  /\ k \notin G!Referenciadas /\ fila[k] = "fora" /\ k \notin perdidas
  /\ \A q \in Procs : k \notin reqGuia[q].visto

Criacao == {"enviarGuia", "inserirGuia", "confirmarGuia"}
Pagamento == {"pagar", "confirmarPagamento"}
Exclusao == {"excluirGuia", "excluirCliente"}

(* A request at its point: the key it stores is new until its row is       *)
(* written, the guia it pays is pending while it holds its row, the one it *)
(* deletes is not linked, and what it discards no row is known to name.    *)
PontoOK(p) ==
  /\ pcGuia[p] = "ocioso" => reqGuia[p] = G!Ocioso
  /\ reqGuia[p].guia # Nada => reqGuia[p].guia \in usadas
  /\ reqGuia[p].chave # Nada => reqGuia[p].chave \in usadas
  /\ pcGuia[p] \in Criacao => reqGuia[p].guia \in Guias
        /\ reqGuia[p].chave = reqGuia[p].guia
  /\ pcGuia[p] \in {"enviarRecibo", "enviarAnexo", "anexar"} =>
       reqGuia[p].guia \in Guias /\ reqGuia[p].chave \in Recibos
  /\ pcGuia[p] \in Pagamento => reqGuia[p].guia \in Guias /\ reqGuia[p].chave \in Recibos
        \cup {Nada}
  /\ pcGuia[p] \in Exclusao => reqGuia[p].chave = Nada
  /\ pcGuia[p] \in {"ocioso", "descartar"} \cup Exclusao \/
       (reqGuia[p].chave # Nada => IneditaDaGuia(reqGuia[p].chave))
  /\ pcGuia[p] \in {"inserirGuia", "confirmarGuia", "anexar"} \cup Pagamento =>
       (reqGuia[p].chave # Nada => reqGuia[p].chave \in objetos)
  /\ pcGuia[p] = "confirmarGuia" /\ reqGuia[p].ligar => vinculo = Nada
  /\ pcGuia[p] = "confirmarPagamento" => guiasCliente[reqGuia[p].guia].status = "PENDENTE"
  /\ pcGuia[p] = "excluirGuia" => reqGuia[p].guia \in Guias /\ vinculo # reqGuia[p].guia
  /\ pcGuia[p] = "descartar" => /\ reqGuia[p].chave # Nada
                                /\ reqGuia[p].chave \in G!Referenciadas
                                      => reqGuia[p].chave \in perdidas

(* Two requests: never one key, never one guia when one creates it, never  *)
(* one row held by both. *)
Separados ==
  \A p, q \in Procs : p # q =>
    /\ reqGuia[p].chave # Nada => reqGuia[q].chave # reqGuia[p].chave
    /\ pcGuia[p] \in Criacao => reqGuia[q].guia # reqGuia[p].guia
    /\ pcGuia[p] = "confirmarPagamento" /\ pcGuia[q] = "confirmarPagamento" =>
         reqGuia[q].guia # reqGuia[p].guia
    /\ pcGuia[p] = "confirmarGuia" /\ pcGuia[q] = "confirmarGuia" => ~(reqGuia[p].ligar
          /\ reqGuia[q].ligar)

NaoUsadasDaGuia == \A k \in G!Chaves \ usadas : IneditaDaGuia(k) /\ k \notin objetos

(* A receipt is of a paid guia, and of one; only the linked guia has       *)
(* events in the fiscal trail.                                             *)
Recibo == \A g \in Guias :
  /\ ~G!Existe(g) => guiasCliente[g] = G!SemGuia
  /\ guiasCliente[g].comprovante # Nada => guiasCliente[g].status = "PAGO"
  /\ \A h \in Guias : guiasCliente[h].comprovante = guiasCliente[g].comprovante
        /\ guiasCliente[g].comprovante # Nada => h = g
  /\ eventos[g] # 0 => vinculo = g

GInv ==
  /\ G!TypeOK
  /\ NaoUsadasDaGuia
  /\ Separados
  /\ \A p \in Procs : PontoOK(p)
  /\ Recibo
  /\ G!ArquivosCoerentes
  /\ G!UmEventoPorPagamento

Guia == [status : {"AUSENTE", "PENDENTE", "PAGO"}, comprovante : Recibos \cup {Nada}]
PedidoDeGuia == [guia : Guias \cup {Nada}, chave : G!Chaves \cup {Nada}, ligar : BOOLEAN,
                 visto : SUBSET G!Chaves]

LEMMA CamposDaGuia ==
  ASSUME GInv
  PROVE  /\ objetos \subseteq G!Chaves /\ fila \in [G!Chaves -> G!F!Etapas]
         /\ cliente \in BOOLEAN /\ guiasCliente \in [Guias -> Guia]
         /\ vinculo \in Guias \cup {Nada} /\ eventos \in [Guias -> Nat]
         /\ usadas \subseteq G!Chaves /\ pcGuia \in [Procs -> G!Pontos]
         /\ reqGuia \in [Procs -> PedidoDeGuia]
         /\ perdidas \subseteq G!Chaves /\ orfas \subseteq G!Chaves
         /\ G!SemGuia \in Guia /\ G!SemGuia.status = "AUSENTE"
         /\ G!SemGuia.comprovante = Nada
         /\ G!Ocioso \in PedidoDeGuia /\ G!Ocioso.guia = Nada /\ G!Ocioso.chave = Nada
         /\ G!Ocioso.ligar = FALSE /\ G!Ocioso.visto = {}
BY DEF GInv, G!TypeOK, Guia, PedidoDeGuia, G!SemGuia, G!Ocioso

(* The keys in the rows. *)
LEMMA ChavesNasLinhas ==
  ASSUME G!GuiasAssumption, GInv
  PROVE  /\ G!Referenciadas \subseteq G!Chaves
         /\ Nada \notin G!Chaves
         /\ \A g \in Guias : g \in G!Referenciadas <=> G!Existe(g)
         /\ \A r \in Recibos : r \in G!Referenciadas
               <=> \E g \in Guias : guiasCliente[g].comprovante = r
         /\ \A g, h \in Guias : \A k \in G!ChavesDe(g) : k \in G!ChavesDe(h) => g = h
<1>1. \A g \in Guias : guiasCliente[g].comprovante \in Recibos \cup {Nada}
  BY CamposDaGuia DEF Guia
<1>2. \A g \in Guias : g \notin Recibos /\ g # Nada
  BY DEF G!GuiasAssumption
<1>3. \A g \in Guias : guiasCliente[g].comprovante # Nada => G!Existe(g)
  BY DEF GInv, Recibo, G!Existe
<1>4. Nada \notin Recibos
  BY DEF G!GuiasAssumption
<1>5. \A g \in Guias : G!ChavesDe(g) \subseteq G!Chaves
  BY <1>1, <1>2, <1>4 DEF G!ChavesDe, G!Chaves
<1>6. G!Referenciadas \subseteq G!Chaves
  BY <1>5 DEF G!Referenciadas
<1>7. \A g \in Guias : g \in G!Referenciadas <=> G!Existe(g)
  BY <1>1, <1>2 DEF G!Referenciadas, G!ChavesDe
<1>8. \A r \in Recibos : r \in G!Referenciadas
         <=> \E g \in Guias : guiasCliente[g].comprovante = r
  BY <1>2, <1>3, <1>4 DEF G!Referenciadas, G!ChavesDe
<1>9. ASSUME NEW g \in Guias, NEW h \in Guias, NEW k \in G!ChavesDe(g), k \in G!ChavesDe(h)
      PROVE  g = h
  BY <1>1, <1>2, <1>9 DEF GInv, Recibo, G!ChavesDe
<1> QED
  BY <1>2, <1>4, <1>6, <1>7, <1>8, <1>9 DEF G!Chaves

(* The request p moves to another point, with another request. *)
MudaDaGuia(p, ponto, r) ==
  /\ pcGuia' = [pcGuia EXCEPT ![p] = ponto]
  /\ reqGuia' = [reqGuia EXCEPT ![p] = r]

LEMMA PassoDaGuia ==
  ASSUME GInv, NEW p \in Procs, NEW ponto \in G!Pontos, NEW r \in PedidoDeGuia,
         MudaDaGuia(p, ponto, r)
  PROVE  /\ pcGuia' \in [Procs -> G!Pontos] /\ reqGuia' \in [Procs -> PedidoDeGuia]
         /\ \A q \in Procs : pcGuia'[q] = IF q = p THEN ponto ELSE pcGuia[q]
         /\ \A q \in Procs : reqGuia'[q] = IF q = p THEN r ELSE reqGuia[q]
BY CamposDaGuia DEF MudaDaGuia

(* What the end of a request, or the next point, is. *)
LEMMA MudancasDaGuia ==
  ASSUME GInv, NEW p \in Procs
  PROVE  /\ G!Encerrar(p) => MudaDaGuia(p, "ocioso", G!Ocioso)
         /\ \A ponto \in G!Pontos : G!Ir(p, ponto) => MudaDaGuia(p, ponto, reqGuia[p])
<1>1. reqGuia = [reqGuia EXCEPT ![p] = reqGuia[p]]
  BY CamposDaGuia
<1> QED
  BY <1>1 DEF G!Encerrar, G!Ir, MudaDaGuia

(* A request that arrives: the guia exists or is new, the key is new, and  *)
(* the deletion of the client sees the keys of the rows.                   *)
Chegada(p, ponto, n) ==
  /\ MudaDaGuia(p, ponto, n)
  /\ pcGuia[p] = "ocioso" /\ ponto \in G!Pontos /\ n \in PedidoDeGuia
  /\ usadas' = usadas \cup ({n.chave} \ {Nada})
  /\ n.chave \notin usadas
  /\ n.visto \subseteq G!Referenciadas
  /\ \/ /\ ponto = "enviarGuia" /\ n.guia = n.chave /\ n.chave \in Guias
     \/ /\ ponto = "pagar" /\ n.guia \in Guias /\ G!Existe(n.guia) /\ n.chave = Nada
     \/ /\ ponto \in {"enviarRecibo", "enviarAnexo"} /\ n.guia \in Guias
        /\ G!Existe(n.guia) /\ n.chave \in Recibos
     \/ /\ ponto = "excluirGuia" /\ n.guia \in Guias /\ G!Existe(n.guia)
        /\ vinculo # n.guia /\ n.chave = Nada
     \/ /\ ponto = "excluirCliente" /\ n.guia = Nada /\ n.chave = Nada

LEMMA ChegadasG ==
  ASSUME G!GuiasAssumption, GInv, NEW p \in Procs, G!Receber(p)
  PROVE  /\ \E ponto \in G!Pontos, n \in PedidoDeGuia : Chegada(p, ponto, n)
         /\ UNCHANGED <<objetos, fila, cliente, guiasCliente, vinculo, eventos, perdidas,
                        orfas>>
<1>0. /\ Nada \notin G!Chaves /\ G!Referenciadas \subseteq G!Chaves /\ Nada \notin usadas
      /\ G!Ocioso = [guia |-> Nada, chave |-> Nada, ligar |-> FALSE, visto |-> {}]
  BY ChavesNasLinhas, CamposDaGuia DEF G!Ocioso
<1>1. CASE G!ReceberGuia(p)
  <2>1. PICK g \in Guias \ usadas, l \in BOOLEAN :
          /\ G!Iniciar(p, "enviarGuia", [G!Ocioso EXCEPT !.guia = g, !.chave = g, !.ligar
              = l])
          /\ usadas' = usadas \cup {g}
    BY <1>1 DEF G!ReceberGuia
  <2> DEFINE n == [G!Ocioso EXCEPT !.guia = g, !.chave = g, !.ligar = l]
  <2>2. n \in PedidoDeGuia /\ n.guia = g /\ n.chave = g /\ n.visto = {} /\ g # Nada
    BY <1>0 DEF PedidoDeGuia, G!Chaves
  <2>3. MudaDaGuia(p, "enviarGuia", n) /\ pcGuia[p] = "ocioso" /\ "enviarGuia" \in G!Pontos
    BY <2>1 DEF G!Iniciar, MudaDaGuia, G!Pontos
  <2> HIDE DEF n
  <2>4. Chegada(p, "enviarGuia", n)
    BY <2>1, <2>2, <2>3 DEF Chegada
  <2> QED
    BY <1>1, <2>2, <2>3, <2>4 DEF G!ReceberGuia, G!filaVars, G!dados
<1>2. CASE G!ReceberPagamento(p)
  <2>1. PICK g \in Guias :
          \/ /\ G!Iniciar(p, "pagar", [G!Ocioso EXCEPT !.guia = g]) /\ G!Existe(g)
             /\ usadas' = usadas
          \/ \E r \in Recibos \ usadas, ponto \in {"enviarRecibo", "enviarAnexo"} :
               /\ G!Existe(g)
               /\ G!Iniciar(p, ponto, [G!Ocioso EXCEPT !.guia = g, !.chave = r])
               /\ usadas' = usadas \cup {r}
    BY <1>2 DEF G!ReceberPagamento
  <2>2. PICK ponto \in {"pagar", "enviarRecibo", "enviarAnexo"}, n \in PedidoDeGuia :
          /\ G!Existe(g) /\ n.chave \notin usadas /\ n.guia = g /\ n.visto = {}
          /\ n.chave \in Recibos \cup {Nada} /\ (n.chave = Nada <=> ponto = "pagar")
          /\ G!Iniciar(p, ponto, n)
          /\ usadas' = usadas \cup ({n.chave} \ {Nada})
    <3>1. CASE usadas' = usadas /\ G!Iniciar(p, "pagar", [G!Ocioso EXCEPT !.guia = g])
                  /\ G!Existe(g)
      <4> DEFINE m == [G!Ocioso EXCEPT !.guia = g]
      <4>1. m \in PedidoDeGuia /\ m.guia = g /\ m.chave = Nada /\ m.visto = {}
        BY <1>0 DEF PedidoDeGuia, G!Chaves
      <4> QED BY <1>0, <3>1, <4>1
    <3>2. CASE \E r \in Recibos \ usadas, ponto \in {"enviarRecibo", "enviarAnexo"} :
                 /\ G!Existe(g)
                 /\ G!Iniciar(p, ponto, [G!Ocioso EXCEPT !.guia = g, !.chave = r])
                 /\ usadas' = usadas \cup {r}
      <4>0. PICK r \in Recibos \ usadas, ponto \in {"enviarRecibo", "enviarAnexo"} :
                 /\ G!Existe(g)
                 /\ G!Iniciar(p, ponto, [G!Ocioso EXCEPT !.guia = g, !.chave = r])
                 /\ usadas' = usadas \cup {r}
        BY <3>2
      <4> DEFINE m == [G!Ocioso EXCEPT !.guia = g, !.chave = r]
      <4>1. m \in PedidoDeGuia /\ m.guia = g /\ m.chave = r /\ m.visto = {} /\ r # Nada
        BY <1>0 DEF PedidoDeGuia, G!Chaves
      <4>2. G!Iniciar(p, ponto, m) /\ G!Existe(g) /\ m.chave \notin usadas
        BY <4>0, <4>1
      <4> HIDE DEF m
      <4> QED BY <1>0, <4>0, <4>1, <4>2
    <3> QED BY <2>1, <3>1, <3>2
  <2>4. MudaDaGuia(p, ponto, n) /\ pcGuia[p] = "ocioso" /\ ponto \in G!Pontos
    BY <2>2 DEF G!Iniciar, MudaDaGuia, G!Pontos
  <2>5. Chegada(p, ponto, n)
    BY <2>2, <2>4 DEF Chegada
  <2> QED
    BY <1>2, <2>2, <2>4, <2>5 DEF G!ReceberPagamento, G!filaVars, G!dados
<1>3. CASE G!PedirExclusaoGuia(p)
  <2>1. PICK g \in Guias :
          /\ G!Existe(g) /\ vinculo # g
          /\ G!Iniciar(p, "excluirGuia", [G!Ocioso EXCEPT !.guia = g])
    BY <1>3 DEF G!PedirExclusaoGuia
  <2> DEFINE n == [G!Ocioso EXCEPT !.guia = g]
  <2>2. n \in PedidoDeGuia /\ n.guia = g /\ n.chave = Nada /\ n.visto = {}
    BY <1>0 DEF PedidoDeGuia
  <2>3. MudaDaGuia(p, "excluirGuia", n) /\ pcGuia[p] = "ocioso"
           /\ "excluirGuia" \in G!Pontos
    BY <2>1 DEF G!Iniciar, MudaDaGuia, G!Pontos
  <2> HIDE DEF n
  <2>4. usadas' = usadas
    BY <1>3 DEF G!PedirExclusaoGuia
  <2>5. Chegada(p, "excluirGuia", n)
    BY <1>0, <2>1, <2>2, <2>3, <2>4 DEF Chegada
  <2> QED
    BY <1>3, <2>2, <2>3, <2>5 DEF G!PedirExclusaoGuia, G!filaVars, G!dados
<1>4. CASE G!PedirExclusaoCliente(p)
  <2> DEFINE n == [G!Ocioso EXCEPT !.visto = G!Referenciadas]
  <2>2. n \in PedidoDeGuia /\ n.guia = Nada /\ n.chave = Nada /\ n.visto = G!Referenciadas
    BY <1>0 DEF PedidoDeGuia
  <2>3. MudaDaGuia(p, "excluirCliente", n) /\ pcGuia[p] = "ocioso"
           /\ "excluirCliente" \in G!Pontos
    BY <1>4 DEF G!PedirExclusaoCliente, G!Iniciar, MudaDaGuia, G!Pontos
  <2> HIDE DEF n
  <2>4. usadas' = usadas
    BY <1>4 DEF G!PedirExclusaoCliente
  <2>5. Chegada(p, "excluirCliente", n)
    BY <1>0, <2>2, <2>3, <2>4 DEF Chegada
  <2> QED
    BY <1>4, <2>2, <2>3, <2>5 DEF G!PedirExclusaoCliente, G!filaVars, G!dados
<1> QED
  BY <1>1, <1>2, <1>3, <1>4 DEF G!Receber

(* Rows and queue as they are, the keys of the rows are the same.          *)
LEMMA MesmasLinhas ==
  ASSUME guiasCliente' = guiasCliente
  PROVE  /\ G!Referenciadas' = G!Referenciadas
         /\ \A g : G!Existe(g)' = G!Existe(g)
BY DEF G!Referenciadas, G!ChavesDe, G!Existe

LEMMA ReceberG ==
  ASSUME G!GuiasAssumption, GInv, NEW p \in Procs, G!Receber(p)
  PROVE  GInv'
<1>1. PICK ponto \in G!Pontos, n \in PedidoDeGuia : Chegada(p, ponto, n)
  BY ChegadasG
<1>2. UNCHANGED <<objetos, fila, cliente, guiasCliente, vinculo, eventos, perdidas, orfas>>
  BY ChegadasG
<1>3. /\ pcGuia' \in [Procs -> G!Pontos] /\ reqGuia' \in [Procs -> PedidoDeGuia]
      /\ \A q \in Procs : pcGuia'[q] = IF q = p THEN ponto ELSE pcGuia[q]
      /\ \A q \in Procs : reqGuia'[q] = IF q = p THEN n ELSE reqGuia[q]
  BY <1>1, PassoDaGuia DEF Chegada
<1>4. G!Referenciadas' = G!Referenciadas /\ \A g : G!Existe(g)' = G!Existe(g)
  BY <1>2, MesmasLinhas
<1>5. /\ pcGuia[p] = "ocioso" /\ reqGuia[p] = G!Ocioso
      /\ n.chave \in G!Chaves \cup {Nada} /\ n.guia \in Guias \cup {Nada}
      /\ Nada \notin Guias /\ Guias \subseteq G!Chaves /\ Nada \notin Recibos
      /\ \A q \in Procs : reqGuia[q].visto \subseteq G!Chaves
  BY <1>1, CamposDaGuia
     DEF Chegada, GInv, PontoOK, PedidoDeGuia, G!GuiasAssumption, G!Chaves
<1>6. G!TypeOK'
  BY <1>1, <1>2, <1>3, <1>5, CamposDaGuia DEF GInv, G!TypeOK, PedidoDeGuia, Guia, Chegada
<1>7. \A c \in G!Chaves : IneditaDaGuia(c) => IneditaDaGuia(c)'
  BY <1>1, <1>2, <1>3, <1>4 DEF IneditaDaGuia, Chegada
<1>8. NaoUsadasDaGuia'
  BY <1>1, <1>2, <1>7 DEF GInv, NaoUsadasDaGuia, Chegada
<1>9. \A g \in Guias : G!Existe(g) => g \in usadas
  BY <1>5, ChavesNasLinhas DEF GInv, NaoUsadasDaGuia, IneditaDaGuia
<1>10. \A q \in Procs : /\ reqGuia[q].guia # Nada => reqGuia[q].guia \in usadas
                        /\ reqGuia[q].chave # Nada => reqGuia[q].chave \in usadas
  BY DEF GInv, PontoOK
<1>11. \A q \in Procs : pcGuia[q] \in Criacao => ~G!Existe(reqGuia[q].guia)
  <2>1. ASSUME NEW q \in Procs, pcGuia[q] \in Criacao PROVE ~G!Existe(reqGuia[q].guia)
    <3>1. reqGuia[q].guia \in Guias /\ IneditaDaGuia(reqGuia[q].guia)
      BY <1>5, <2>1 DEF GInv, PontoOK, Criacao, Exclusao
    <3> QED BY <3>1, ChavesNasLinhas DEF IneditaDaGuia
  <2> QED BY <2>1
<1>12. Separados'
  <2>1. ASSUME NEW q \in Procs, q # p
        PROVE  /\ n.chave # Nada => reqGuia[q].chave # n.chave
               /\ reqGuia[q].chave # Nada => n.chave # reqGuia[q].chave
               /\ ponto \in Criacao => reqGuia[q].guia # n.guia
               /\ pcGuia[q] \in Criacao => n.guia # reqGuia[q].guia
               /\ ponto # "confirmarPagamento" /\ ponto # "confirmarGuia"
    <3>1. /\ n.chave # Nada => n.chave \notin usadas
          /\ ponto \in Criacao => n.guia \in Guias \ usadas
          /\ ponto \notin Criacao => n.guia = Nada \/ G!Existe(n.guia)
          /\ ponto # "confirmarPagamento" /\ ponto # "confirmarGuia"
      BY <1>1, <1>5 DEF Chegada, Criacao
    <3>2. pcGuia[q] \in Criacao => reqGuia[q].guia \in Guias /\ reqGuia[q].guia \in usadas
      BY <1>5, <1>10 DEF GInv, PontoOK
    <3> QED
      BY <1>5, <1>10, <1>11, <3>1, <3>2
  <2> QED
    BY <1>3, <2>1 DEF GInv, Separados
<1>13. ASSUME NEW q \in Procs PROVE PontoOK(q)'
  <2>1. CASE q = p
    <3>1. n.chave # Nada => IneditaDaGuia(n.chave)'
      BY <1>1, <1>5, <1>7 DEF GInv, NaoUsadasDaGuia, Chegada
    <3>2. n.guia # Nada => n.guia \in usadas'
      BY <1>1, <1>9 DEF Chegada
    <3>3. n.chave # Nada => n.chave \in usadas'
      BY <1>1 DEF Chegada
    <3>4. pcGuia'[q] = ponto /\ reqGuia'[q] = n
      BY <1>3, <2>1
    <3> QED
      BY <1>1, <1>2, <1>5, <3>1, <3>2, <3>3, <3>4
         DEF PontoOK, Chegada, Criacao, Pagamento, Exclusao
  <2>2. CASE q # p
    <3>1. PontoOK(q) /\ pcGuia'[q] = pcGuia[q] /\ reqGuia'[q] = reqGuia[q]
             /\ usadas \subseteq usadas'
      BY <1>1, <1>3, <2>2 DEF GInv, Chegada
    <3>2. reqGuia[q].chave \in G!Chaves \cup {Nada}
      BY CamposDaGuia DEF PedidoDeGuia
    <3> QED
      BY <1>2, <1>4, <1>7, <3>1, <3>2 DEF PontoOK
  <2> QED BY <2>1, <2>2
<1>14. Recibo' /\ G!UmEventoPorPagamento'
  BY <1>2, <1>4 DEF GInv, Recibo, G!UmEventoPorPagamento
<1>15. G!ArquivosCoerentes'
  <2>1. G!ReferenciaArmazenada' /\ G!FilaSemReferencia'
    BY <1>2, <1>4 DEF GInv, G!ArquivosCoerentes, G!ReferenciaArmazenada, G!FilaSemReferencia
  <2>2. \A k \in G!Chaves, q \in Procs : reqGuia[q].chave = k => reqGuia'[q].chave = k
    BY <1>3, <1>5, CamposDaGuia, ChavesNasLinhas
  <2>3. G!SemOrfas'
    <3>1. ASSUME cliente', NEW k \in objetos' \ G!Referenciadas'
          PROVE  fila'[k] # "fora" \/ k \in orfas' \/ \E q \in Procs : reqGuia'[q].chave = k
      <4>1. cliente /\ k \in objetos \ G!Referenciadas /\ k \in G!Chaves
        BY <1>2, <1>4, <3>1, CamposDaGuia
      <4>2. fila[k] # "fora" \/ k \in orfas \/ \E q \in Procs : reqGuia[q].chave = k
        BY <4>1 DEF GInv, G!ArquivosCoerentes, G!SemOrfas
      <4> QED BY <1>2, <2>2, <4>1, <4>2
    <3> QED BY <3>1 DEF G!SemOrfas
  <2> QED BY <2>1, <2>3 DEF G!ArquivosCoerentes
<1> QED
  BY <1>6, <1>8, <1>12, <1>13, <1>14, <1>15 DEF GInv

(* The requests that end, and those that go on with what they are: what    *)
(* each leaves in the bucket and among the orphans.                        *)
Andamento(p, ponto, n) ==
  /\ MudaDaGuia(p, ponto, n)
  /\ ponto \in G!Pontos /\ n \in PedidoDeGuia
  /\ ponto = "ocioso" => n = G!Ocioso
  /\ ponto # "ocioso" => n = reqGuia[p]
  /\ ponto \in {"ocioso", "descartar"} =>
       \/ /\ reqGuia[p].chave \in objetos' =>
               reqGuia[p].chave \in orfas' \/ ponto = "descartar"
          /\ objetos \ {reqGuia[p].chave} \subseteq objetos'
          /\ objetos' \subseteq objetos \cup ({reqGuia[p].chave} \ {Nada})
          /\ reqGuia[p].chave \in objetos \ objetos' => pcGuia[p] = "descartar"
  /\ ponto \notin {"ocioso", "descartar"} =>
       /\ objetos \subseteq objetos'
       /\ objetos' \subseteq objetos \cup ({reqGuia[p].chave} \ {Nada})
  /\ \/ ponto = "ocioso"
     \/ /\ ponto = "inserirGuia" /\ pcGuia[p] = "enviarGuia"
        /\ reqGuia[p].chave \in objetos'
     \/ /\ ponto = "pagar" /\ pcGuia[p] = "enviarRecibo" /\ reqGuia[p].chave \in objetos'
     \/ /\ ponto = "anexar" /\ pcGuia[p] = "enviarAnexo" /\ reqGuia[p].chave \in objetos'
     \/ /\ ponto = "confirmarGuia" /\ pcGuia[p] = "inserirGuia"
        /\ reqGuia[p].ligar => vinculo = Nada /\ ~G!VinculoTravado
     \/ /\ ponto = "confirmarPagamento" /\ pcGuia[p] = "pagar"
        /\ ~G!Travada(reqGuia[p].guia) /\ G!Pagavel(reqGuia[p].guia)
     \/ /\ ponto = "descartar" /\ reqGuia[p].chave # Nada
        /\ pcGuia[p] \in {"inserirGuia", "confirmarGuia", "anexar"} \cup Pagamento

Andamentos(p) ==
  \/ G!Armazenar(p) \/ G!Cair(p)
  \/ G!InserirGuia(p) \/ G!InserirGuiaErro(p)
  \/ G!Pagar(p) \/ G!PagamentoRecusado(p) \/ G!PagamentoErro(p)
  \/ G!AnexoRecusado(p) \/ G!ExclusaoErro(p)

LEMMA DesistirG ==
  ASSUME G!GuiasAssumption, GInv, NEW p \in Procs, G!Desistir(p)
  PROVE  \/ MudaDaGuia(p, "ocioso", G!Ocioso) /\ reqGuia[p].chave = Nada
         \/ MudaDaGuia(p, "descartar", reqGuia[p]) /\ reqGuia[p].chave # Nada
BY MudancasDaGuia DEF G!Desistir, G!Pontos

LEMMA AndamentosG ==
  ASSUME G!GuiasAssumption, GInv, NEW p \in Procs, Andamentos(p)
  PROVE  /\ \E ponto \in G!Pontos, n \in PedidoDeGuia : Andamento(p, ponto, n)
         /\ UNCHANGED <<fila, cliente, guiasCliente, vinculo, eventos, usadas, perdidas>>
         /\ orfas \subseteq orfas' /\ orfas' \subseteq G!Chaves
<1>0. /\ reqGuia[p] \in PedidoDeGuia /\ reqGuia[p].chave \in G!Chaves \cup {Nada}
      /\ orfas \subseteq G!Chaves
      /\ G!Ocioso \in PedidoDeGuia /\ Nada \notin G!Chaves
      /\ "ocioso" \in G!Pontos /\ "descartar" \in G!Pontos
      /\ objetos \subseteq G!Chaves /\ PontoOK(p)
      /\ Guias \subseteq G!Chaves /\ Recibos \subseteq G!Chaves
  BY CamposDaGuia, ChavesNasLinhas DEF PedidoDeGuia, G!Pontos, GInv, G!Chaves
<1>1. CASE G!Enviar(p)
  <2>1. /\ pcGuia[p] \in {"enviarGuia", "enviarRecibo", "enviarAnexo"}
        /\ G!Depois[pcGuia[p]] \in {"inserirGuia", "pagar", "anexar"}
        /\ pcGuia[p] = "enviarGuia" => G!Depois[pcGuia[p]] = "inserirGuia"
        /\ pcGuia[p] = "enviarRecibo" => G!Depois[pcGuia[p]] = "pagar"
        /\ pcGuia[p] = "enviarAnexo" => G!Depois[pcGuia[p]] = "anexar"
    BY <1>1 DEF G!Enviar, G!Depois
  <2>2. G!Depois[pcGuia[p]] \in G!Pontos
    BY <2>1 DEF G!Pontos
  <2>3. MudaDaGuia(p, G!Depois[pcGuia[p]], reqGuia[p])
    BY <1>1, <2>2, MudancasDaGuia DEF G!Enviar
  <2>4. /\ objetos' = objetos \cup {reqGuia[p].chave} /\ fila' = fila
        /\ UNCHANGED <<cliente, guiasCliente, vinculo, eventos, usadas, perdidas, orfas>>
    BY <1>1 DEF G!Enviar, G!F!Depositar, G!dados
  <2>5. reqGuia[p].chave # Nada
    BY <1>0, <2>1 DEF PontoOK, Criacao
  <2>6. Andamento(p, G!Depois[pcGuia[p]], reqGuia[p])
    BY <1>0, <2>1, <2>2, <2>3, <2>4, <2>5 DEF Andamento
  <2> QED BY <1>0, <2>2, <2>4, <2>6
<1>2. CASE G!EnviarErro(p)
  <2>1. MudaDaGuia(p, "ocioso", G!Ocioso)
    BY <1>2, MudancasDaGuia DEF G!EnviarErro
  <2>2. /\ pcGuia[p] \in {"enviarGuia", "enviarRecibo", "enviarAnexo"}
        /\ objetos' \in {objetos, objetos \cup {reqGuia[p].chave}} /\ fila' = fila
        /\ orfas' = orfas \cup {reqGuia[p].chave}
        /\ UNCHANGED <<cliente, guiasCliente, vinculo, eventos, usadas, perdidas>>
    BY <1>2 DEF G!EnviarErro, G!Depois, G!F!Depositar, G!filaVars, G!dados
  <2>3. reqGuia[p].chave \in G!Chaves /\ reqGuia[p].chave # Nada
    BY <1>0, <2>2 DEF PontoOK, Criacao
  <2>4. Andamento(p, "ocioso", G!Ocioso)
    BY <1>0, <2>1, <2>2, <2>3 DEF Andamento
  <2> QED BY <1>0, <2>2, <2>3, <2>4
<1>3. CASE G!Descartar(p)
  <2>1. MudaDaGuia(p, "ocioso", G!Ocioso)
    BY <1>3, MudancasDaGuia DEF G!Descartar
  <2>2. /\ objetos' = objetos \ {reqGuia[p].chave} /\ fila' = fila
        /\ pcGuia[p] = "descartar"
        /\ UNCHANGED <<cliente, guiasCliente, vinculo, eventos, usadas, perdidas, orfas>>
    BY <1>3 DEF G!Descartar, G!F!Descartar, G!dados
  <2>3. Andamento(p, "ocioso", G!Ocioso)
    BY <1>0, <2>1, <2>2 DEF Andamento
  <2> QED BY <1>0, <2>2, <2>3
<1>4. CASE G!DescartarErro(p)
  <2>1. MudaDaGuia(p, "ocioso", G!Ocioso)
    BY <1>4, MudancasDaGuia DEF G!DescartarErro
  <2>2. /\ UNCHANGED <<objetos, fila, cliente, guiasCliente, vinculo, eventos, usadas,
                       perdidas>>
        /\ orfas' = orfas \cup {reqGuia[p].chave} /\ pcGuia[p] = "descartar"
    BY <1>4 DEF G!DescartarErro, G!filaVars, G!dados
  <2>3. reqGuia[p].chave \in G!Chaves
    BY <1>0, <2>2 DEF PontoOK
  <2>4. Andamento(p, "ocioso", G!Ocioso)
    BY <1>0, <2>1, <2>2 DEF Andamento
  <2> QED BY <1>0, <2>2, <2>3, <2>4
<1>5. CASE G!Cair(p)
  <2>1. MudaDaGuia(p, "ocioso", G!Ocioso)
    BY <1>5, MudancasDaGuia DEF G!Cair
  <2>2. /\ UNCHANGED <<objetos, fila, cliente, guiasCliente, vinculo, eventos, usadas,
                       perdidas>>
        /\ orfas' = orfas \cup ({reqGuia[p].chave} \ {Nada})
    BY <1>5 DEF G!Cair, G!filaVars, G!dados
  <2>3. Andamento(p, "ocioso", G!Ocioso)
    BY <1>0, <2>1, <2>2 DEF Andamento
  <2> QED BY <1>0, <2>2, <2>3
<1>6. CASE G!InserirGuia(p) \/ G!InserirGuiaErro(p) \/ G!Pagar(p) \/ G!AnexoRecusado(p)
  <2>1. UNCHANGED <<objetos, fila, cliente, guiasCliente, vinculo, eventos, usadas,
                    perdidas, orfas>>
    BY <1>6
       DEF G!InserirGuia, G!InserirGuiaErro, G!Pagar, G!AnexoRecusado, G!filaVars, G!dados
  <2>2. CASE G!InserirGuia(p)
    <3>1. MudaDaGuia(p, "confirmarGuia", reqGuia[p]) /\ "confirmarGuia" \in G!Pontos
      BY <2>2, MudancasDaGuia DEF G!InserirGuia, G!Pontos
    <3>2. Andamento(p, "confirmarGuia", reqGuia[p])
      BY <1>0, <2>1, <2>2, <3>1 DEF Andamento, G!InserirGuia
    <3> QED BY <1>0, <2>1, <3>1, <3>2
  <2>3. CASE G!InserirGuiaErro(p) \/ G!AnexoRecusado(p)
    <3>1. MudaDaGuia(p, "descartar", reqGuia[p])
             /\ pcGuia[p] \in {"inserirGuia", "confirmarGuia", "anexar"}
      BY <2>3, MudancasDaGuia DEF G!InserirGuiaErro, G!AnexoRecusado, G!Pontos
    <3>2. reqGuia[p].chave # Nada
      BY <1>0, <3>1 DEF PontoOK, Criacao
    <3>3. Andamento(p, "descartar", reqGuia[p])
      BY <1>0, <2>1, <3>1, <3>2 DEF Andamento
    <3> QED BY <1>0, <2>1, <3>3
  <2>4. CASE G!Pagar(p)
    <3>1. MudaDaGuia(p, "confirmarPagamento", reqGuia[p])
             /\ "confirmarPagamento" \in G!Pontos
      BY <2>4, MudancasDaGuia DEF G!Pagar, G!Pontos
    <3>2. Andamento(p, "confirmarPagamento", reqGuia[p])
      BY <1>0, <2>1, <2>4, <3>1 DEF Andamento, G!Pagar
    <3> QED BY <1>0, <2>1, <3>1, <3>2
  <2> QED BY <1>6, <2>2, <2>3, <2>4
<1>7. CASE G!PagamentoRecusado(p) \/ G!PagamentoErro(p)
  <2>1. UNCHANGED <<objetos, fila, cliente, guiasCliente, vinculo, eventos, usadas,
                    perdidas, orfas>>
    BY <1>7 DEF G!PagamentoRecusado, G!PagamentoErro, G!filaVars, G!dados
  <2>2. pcGuia[p] \in Pagamento /\ G!Desistir(p)
    BY <1>7 DEF G!PagamentoRecusado, G!PagamentoErro, Pagamento
  <2>3. CASE MudaDaGuia(p, "ocioso", G!Ocioso) /\ reqGuia[p].chave = Nada
    <3>1. Andamento(p, "ocioso", G!Ocioso)
      BY <1>0, <2>1, <2>3 DEF Andamento
    <3> QED BY <1>0, <2>1, <3>1
  <2>4. CASE MudaDaGuia(p, "descartar", reqGuia[p]) /\ reqGuia[p].chave # Nada
    <3>1. Andamento(p, "descartar", reqGuia[p])
      BY <1>0, <2>1, <2>2, <2>4 DEF Andamento
    <3> QED BY <1>0, <2>1, <3>1
  <2> QED BY <2>2, <2>3, <2>4, DesistirG
<1>8. CASE G!ExclusaoErro(p)
  <2>1. MudaDaGuia(p, "ocioso", G!Ocioso)
    BY <1>8, MudancasDaGuia DEF G!ExclusaoErro
  <2>2. UNCHANGED <<objetos, fila, cliente, guiasCliente, vinculo, eventos, usadas,
                    perdidas, orfas>>
    BY <1>8 DEF G!ExclusaoErro, G!filaVars, G!dados
  <2>3. reqGuia[p].chave = Nada
    BY <1>0, <1>8 DEF G!ExclusaoErro, PontoOK, Exclusao
  <2>4. Andamento(p, "ocioso", G!Ocioso)
    BY <1>0, <2>1, <2>2, <2>3 DEF Andamento
  <2> QED BY <1>0, <2>2, <2>4
<1> QED
  BY <1>1, <1>2, <1>3, <1>4, <1>5, <1>6, <1>7, <1>8 DEF Andamentos, G!Armazenar

LEMMA AndarG ==
  ASSUME G!GuiasAssumption, GInv, NEW p \in Procs, Andamentos(p)
  PROVE  GInv'
<1>1. PICK ponto \in G!Pontos, n \in PedidoDeGuia : Andamento(p, ponto, n)
  BY AndamentosG
<1>2. /\ UNCHANGED <<fila, cliente, guiasCliente, vinculo, eventos, usadas, perdidas>>
      /\ orfas \subseteq orfas' /\ orfas' \subseteq G!Chaves
  BY AndamentosG
<1>3. /\ pcGuia' \in [Procs -> G!Pontos] /\ reqGuia' \in [Procs -> PedidoDeGuia]
      /\ \A q \in Procs : pcGuia'[q] = IF q = p THEN ponto ELSE pcGuia[q]
      /\ \A q \in Procs : reqGuia'[q] = IF q = p THEN n ELSE reqGuia[q]
  BY <1>1, PassoDaGuia DEF Andamento
<1>4. G!Referenciadas' = G!Referenciadas /\ \A g : G!Existe(g)' = G!Existe(g)
  BY <1>2, MesmasLinhas
<1>5. /\ Nada \notin G!Chaves /\ G!Referenciadas \subseteq G!Chaves
      /\ G!Ocioso.guia = Nada /\ G!Ocioso.chave = Nada /\ G!Ocioso.visto = {}
      /\ ~G!Ocioso.ligar
      /\ \A q \in Procs : reqGuia[q].chave \in G!Chaves \cup {Nada}
      /\ \A q \in Procs : PontoOK(q)
      /\ Guias \subseteq G!Chaves
  BY CamposDaGuia, ChavesNasLinhas DEF GInv, PedidoDeGuia, G!Chaves
<1>6. /\ objetos \ {reqGuia[p].chave} \subseteq objetos'
      /\ objetos' \subseteq objetos \cup ({reqGuia[p].chave} \ {Nada})
      /\ reqGuia[p].chave \in objetos \ objetos' => pcGuia[p] = "descartar"
      /\ n = reqGuia[p] \/ n = G!Ocioso
  BY <1>1 DEF Andamento
<1>7. G!TypeOK'
  <2>1. objetos' \subseteq G!Chaves
    BY <1>5, <1>6, CamposDaGuia
  <2> QED
    BY <1>2, <1>3, <2>1, CamposDaGuia DEF GInv, G!TypeOK, PedidoDeGuia, Guia
<1>8. \A c \in G!Chaves : IneditaDaGuia(c) => IneditaDaGuia(c)'
  BY <1>2, <1>3, <1>4, <1>5, <1>6 DEF IneditaDaGuia
<1>9. NaoUsadasDaGuia'
  <2>1. reqGuia[p].chave # Nada => reqGuia[p].chave \in usadas
    BY <1>5 DEF PontoOK
  <2> QED
    BY <1>2, <1>6, <1>8, <2>1 DEF GInv, NaoUsadasDaGuia
<1>10. Separados'
  <2>1. ASSUME NEW q \in Procs, q # p
        PROVE  /\ n.chave # Nada => reqGuia[q].chave # n.chave
               /\ reqGuia[q].chave # Nada => n.chave # reqGuia[q].chave
               /\ ponto \in Criacao => reqGuia[q].guia # n.guia
               /\ pcGuia[q] \in Criacao => n.guia # reqGuia[q].guia
               /\ ponto = "confirmarPagamento" /\ pcGuia[q] = "confirmarPagamento" =>
                    reqGuia[q].guia # n.guia
               /\ ponto = "confirmarGuia" /\ pcGuia[q] = "confirmarGuia" => ~(n.ligar
                     /\ reqGuia[q].ligar)
    <3>1. CASE n = G!Ocioso
      <4>1. ponto = "ocioso"
        BY <1>1, <1>3, <1>5, <3>1 DEF Andamento, PontoOK, Criacao, Pagamento
      <4>2. pcGuia[q] \in Criacao => reqGuia[q].guia # Nada
        BY <1>5 DEF PontoOK
      <4> QED BY <1>5, <3>1, <4>1, <4>2 DEF Criacao
    <3>2. CASE n = reqGuia[p]
      <4>1. ponto \in Criacao => pcGuia[p] \in Criacao
        BY <1>1 DEF Andamento, Criacao
      <4>2. ponto = "confirmarPagamento" => ~G!Travada(reqGuia[p].guia)
        BY <1>1 DEF Andamento
      <4>3. ponto = "confirmarGuia" /\ reqGuia[p].ligar => ~G!VinculoTravado
        BY <1>1 DEF Andamento
      <4> QED
        BY <2>1, <3>2, <4>1, <4>2, <4>3 DEF GInv, Separados, G!Travada, G!VinculoTravado
    <3> QED BY <1>6, <3>1, <3>2
  <2> QED
    BY <1>3, <2>1 DEF GInv, Separados
<1>11. ASSUME NEW q \in Procs PROVE PontoOK(q)'
  <2>1. CASE q = p
    <3>1. pcGuia'[q] = ponto /\ reqGuia'[q] = n
      BY <1>3, <2>1
    <3>2. CASE ponto = "ocioso"
      BY <1>1, <1>5, <3>1, <3>2 DEF PontoOK, Andamento, Criacao, Pagamento, Exclusao
    <3>3. CASE ponto = "descartar"
      <4>1. n = reqGuia[p] /\ reqGuia[p].chave # Nada /\ reqGuia[p].chave \in G!Chaves
        BY <1>1, <1>5, <3>3 DEF Andamento
      <4>2. IneditaDaGuia(reqGuia[p].chave)
        BY <1>1, <1>5, <3>3, <4>1 DEF PontoOK, Andamento, Exclusao, Pagamento
      <4> QED
        BY <1>2, <1>4, <1>5, <3>1, <3>3, <4>1, <4>2
           DEF PontoOK, Criacao, Pagamento, Exclusao, IneditaDaGuia
    <3>4. CASE ponto \notin {"ocioso", "descartar"}
      <4>1. n = reqGuia[p] /\ objetos \subseteq objetos'
        BY <1>1, <3>4 DEF Andamento
      <4>2. n.chave # Nada => IneditaDaGuia(n.chave)'
        BY <1>1, <1>5, <1>8, <3>4, <4>1 DEF PontoOK, Andamento, Exclusao, Pagamento
      <4> QED
        BY <1>1, <1>2, <1>5, <3>1, <3>4, <4>1, <4>2
           DEF PontoOK, Andamento, Criacao, Pagamento, Exclusao, G!Pagavel
    <3> QED BY <3>2, <3>3, <3>4
  <2>2. CASE q # p
    <3>1. PontoOK(q) /\ pcGuia'[q] = pcGuia[q] /\ reqGuia'[q] = reqGuia[q]
      BY <1>3, <1>5, <2>2
    <3>2. /\ reqGuia[q].chave # Nada => reqGuia[q].chave \in G!Chaves
          /\ reqGuia[q].chave # Nada => reqGuia[q].chave # reqGuia[p].chave
      BY <1>5, <2>2 DEF GInv, Separados
    <3>3. reqGuia[q].chave # Nada /\ reqGuia[q].chave \in objetos
             => reqGuia[q].chave \in objetos'
      BY <1>6, <3>2
    <3> QED
      BY <1>2, <1>4, <1>8, <3>1, <3>2, <3>3 DEF PontoOK
  <2> QED BY <2>1, <2>2
<1>12. Recibo' /\ G!UmEventoPorPagamento'
  BY <1>2, <1>4 DEF GInv, Recibo, G!UmEventoPorPagamento
<1>13. G!ArquivosCoerentes'
  <2>1. G!ReferenciaArmazenada'
    <3>1. reqGuia[p].chave \in objetos \ objetos' =>
            (reqGuia[p].chave \in G!Referenciadas => reqGuia[p].chave \in perdidas)
      BY <1>5, <1>6 DEF PontoOK
    <3> QED
      BY <1>2, <1>4, <1>6, <3>1 DEF GInv, G!ArquivosCoerentes, G!ReferenciaArmazenada
  <2>2. G!FilaSemReferencia'
    BY <1>2, <1>4 DEF GInv, G!ArquivosCoerentes, G!FilaSemReferencia
  <2>3. ASSUME cliente', NEW k \in objetos' \ G!Referenciadas'
        PROVE  fila'[k] # "fora" \/ k \in orfas' \/ \E q \in Procs : reqGuia'[q].chave = k
    <3>1. CASE k = reqGuia[p].chave /\ ponto = "ocioso"
      BY <1>1, <2>3, <3>1 DEF Andamento
    <3>2. CASE k = reqGuia[p].chave /\ ponto # "ocioso"
      BY <1>1, <1>3, <3>2 DEF Andamento
    <3>3. CASE k # reqGuia[p].chave
      <4>1. cliente /\ k \in objetos \ G!Referenciadas
        BY <1>2, <1>4, <1>6, <2>3, <3>3
      <4>2. fila[k] # "fora" \/ k \in orfas \/ \E q \in Procs : reqGuia[q].chave = k
        BY <4>1 DEF GInv, G!ArquivosCoerentes, G!SemOrfas
      <4> QED BY <1>2, <1>3, <3>3, <4>1, <4>2
    <3> QED BY <3>1, <3>2, <3>3
  <2> QED BY <2>1, <2>2, <2>3 DEF G!ArquivosCoerentes, G!SemOrfas
<1> QED
  BY <1>7, <1>9, <1>10, <1>11, <1>12, <1>13 DEF GInv

(* A guia g gets a row, a receipt or a payment: the row names the key k of *)
(* the request p besides what it named.                                    *)
Registro(p, g, k, linha) ==
  /\ guiasCliente' = [guiasCliente EXCEPT ![g] = linha]
  /\ linha \in Guia /\ linha.status # "AUSENTE"
  /\ g \in Guias /\ k = reqGuia[p].chave /\ k \in G!Chaves \cup {Nada}
  /\ k # Nada => IneditaDaGuia(k) /\ k \in objetos /\ k \in usadas
  /\ UNCHANGED <<objetos, fila, cliente, usadas, orfas>>
  /\ \/ MudaDaGuia(p, "ocioso", G!Ocioso) /\ perdidas' = perdidas
     \/ MudaDaGuia(p, "descartar", reqGuia[p]) /\ perdidas' = perdidas \cup {k} /\ k # Nada
     \/ MudaDaGuia(p, "ocioso", G!Ocioso) /\ perdidas' = perdidas \cup ({k} \ {Nada})
        /\ k = Nada

(* What follows whatever the registration is: the keys of the rows, what   *)
(* the other requests know, and the files.                                 *)
LEMMA RegistroG ==
  ASSUME G!GuiasAssumption, GInv, NEW p \in Procs, NEW g \in Guias,
         NEW k \in G!Chaves \cup {Nada}, NEW linha \in Guia, Registro(p, g, k, linha),
         vinculo' \in Guias \cup {Nada}, eventos' \in [Guias -> Nat],
         k = g \/ G!Existe(g),
         linha.comprovante = guiasCliente[g].comprovante \/ linha.comprovante = k,
         k # Nada => k = g \/ linha.comprovante = k,
         guiasCliente[g].comprovante # Nada
            => linha.comprovante = guiasCliente[g].comprovante,
         linha.comprovante # Nada => linha.status = "PAGO",
         \A h \in Guias : eventos'[h] # 0 => vinculo' = h,
         \A h \in Guias : eventos'[h] <= 1,
         \A h \in Guias \ {g} : eventos'[h] = eventos[h],
         eventos'[g] = 1 => linha.status = "PAGO",
         \A q \in Procs \ {p} :
           /\ pcGuia[q] = "confirmarGuia" /\ reqGuia[q].ligar => vinculo' = Nada
           /\ pcGuia[q] = "confirmarPagamento" =>
                reqGuia[q].guia # g \/ linha.status = "PENDENTE"
           /\ pcGuia[q] = "excluirGuia" => vinculo' # reqGuia[q].guia
  PROVE  GInv'
<1>1. /\ Nada \notin G!Chaves /\ G!Referenciadas \subseteq G!Chaves /\ Nada \notin Guias
      /\ G!Ocioso.guia = Nada /\ G!Ocioso.chave = Nada /\ G!Ocioso.visto = {}
      /\ ~G!Ocioso.ligar
      /\ \A q \in Procs : reqGuia[q].chave \in G!Chaves \cup {Nada}
      /\ \A q \in Procs : reqGuia[q].guia \in Guias \cup {Nada}
      /\ \A q \in Procs : PontoOK(q)
      /\ Guias \subseteq G!Chaves /\ Nada \notin Recibos
      /\ \A h \in Guias : h \notin Recibos
  BY CamposDaGuia, ChavesNasLinhas DEF GInv, PedidoDeGuia, G!Chaves, G!GuiasAssumption
<1>2. /\ guiasCliente' \in [Guias -> Guia]
      /\ \A h \in Guias : guiasCliente'[h] = IF h = g THEN linha ELSE guiasCliente[h]
  BY CamposDaGuia DEF Registro
<1>3. PICK ponto \in {"ocioso", "descartar"}, n \in PedidoDeGuia :
        /\ MudaDaGuia(p, ponto, n)
        /\ ponto = "ocioso" => n = G!Ocioso /\ perdidas' = perdidas
        /\ ponto = "descartar" => n = reqGuia[p] /\ perdidas' = perdidas \cup {k}
              /\ k # Nada
  BY CamposDaGuia DEF Registro
<1>4. /\ pcGuia' \in [Procs -> G!Pontos] /\ reqGuia' \in [Procs -> PedidoDeGuia]
      /\ \A q \in Procs : pcGuia'[q] = IF q = p THEN ponto ELSE pcGuia[q]
      /\ \A q \in Procs : reqGuia'[q] = IF q = p THEN n ELSE reqGuia[q]
  BY <1>3, PassoDaGuia DEF G!Pontos
<1>5. /\ UNCHANGED <<objetos, fila, cliente, usadas, orfas>>
      /\ k = reqGuia[p].chave /\ linha.status # "AUSENTE"
      /\ k # Nada => IneditaDaGuia(k) /\ k \in objetos /\ k \in usadas
  BY DEF Registro
<1>6. perdidas \subseteq perdidas' /\ perdidas' \subseteq perdidas \cup ({k} \ {Nada})
  BY <1>3
<1>7. G!Referenciadas' = G!Referenciadas \cup ({k} \ {Nada})
  <2>1. \A h \in Guias \ {g} : G!ChavesDe(h)' = G!ChavesDe(h)
    BY <1>2 DEF G!ChavesDe, G!Existe
  <2>2. G!ChavesDe(g)' = G!ChavesDe(g) \cup ({k} \ {Nada})
    <3>1. G!ChavesDe(g)' = {g, linha.comprovante} \ {Nada}
      BY <1>2, <1>5 DEF G!ChavesDe, G!Existe
    <3>2. linha.comprovante \in Recibos \cup {Nada}
             /\ guiasCliente[g].comprovante \in Recibos \cup {Nada}
      BY CamposDaGuia DEF Guia
    <3>3. CASE G!Existe(g)
      BY <3>1, <3>3 DEF G!ChavesDe
    <3>4. CASE ~G!Existe(g)
      <4>1. guiasCliente[g].comprovante = Nada /\ G!ChavesDe(g) = {} /\ k = g
        BY <3>4, CamposDaGuia DEF GInv, Recibo, G!ChavesDe
      <4>2. linha.comprovante = Nada
        BY <1>1, <3>2, <4>1
      <4> QED BY <1>1, <3>1, <4>1, <4>2
    <3> QED BY <3>3, <3>4
  <2> QED
    BY <2>1, <2>2 DEF G!Referenciadas
<1>8. G!TypeOK'
  <2>1. perdidas' \subseteq G!Chaves
    BY <1>6, CamposDaGuia
  <2> QED
    BY <1>2, <1>4, <1>5, <2>1, CamposDaGuia DEF GInv, G!TypeOK, PedidoDeGuia, Guia
<1>9. \A c \in G!Chaves : IneditaDaGuia(c) /\ c # k => IneditaDaGuia(c)'
  BY <1>1, <1>3, <1>4, <1>5, <1>6, <1>7 DEF IneditaDaGuia
<1>10. NaoUsadasDaGuia'
  BY <1>1, <1>5, <1>9 DEF GInv, NaoUsadasDaGuia
<1>11. Separados'
  <2>1. ASSUME NEW q \in Procs, q # p
        PROVE  /\ n.chave # Nada => reqGuia[q].chave # n.chave
               /\ reqGuia[q].chave # Nada => n.chave # reqGuia[q].chave
               /\ pcGuia[q] \in Criacao => n.guia # reqGuia[q].guia
    <3>1. CASE n = G!Ocioso
      <4>1. pcGuia[q] \in Criacao => reqGuia[q].guia # Nada
        BY <1>1 DEF PontoOK
      <4> QED BY <1>1, <3>1, <4>1
    <3>2. CASE n = reqGuia[p]
      BY <2>1, <3>2 DEF GInv, Separados
    <3> QED BY <1>3, <3>1, <3>2
  <2>2. ponto \notin Criacao /\ ponto # "confirmarPagamento" /\ ponto # "confirmarGuia"
    BY <1>3 DEF Criacao
  <2> QED
    BY <1>4, <2>1, <2>2 DEF GInv, Separados
<1>12. ASSUME NEW q \in Procs PROVE PontoOK(q)'
  <2>1. CASE q = p
    <3>1. pcGuia'[q] = ponto /\ reqGuia'[q] = n
      BY <1>4, <2>1
    <3> QED
      BY <1>1, <1>3, <1>5, <3>1 DEF PontoOK, Criacao, Pagamento, Exclusao
  <2>2. CASE q # p
    <3>1. PontoOK(q) /\ pcGuia'[q] = pcGuia[q] /\ reqGuia'[q] = reqGuia[q]
      BY <1>1, <1>4, <2>2
    <3>2. /\ reqGuia[q].chave # Nada => reqGuia[q].chave \in G!Chaves
          /\ reqGuia[q].chave # Nada => reqGuia[q].chave # k
      BY <1>1, <1>5, <2>2 DEF GInv, Separados
    <3>3. pcGuia[q] = "confirmarPagamento"
             => guiasCliente'[reqGuia[q].guia].status = "PENDENTE"
      <4>1. ASSUME pcGuia[q] = "confirmarPagamento"
            PROVE  guiasCliente'[reqGuia[q].guia].status = "PENDENTE"
        <5>1. reqGuia[q].guia \in Guias /\ guiasCliente[reqGuia[q].guia].status = "PENDENTE"
          BY <3>1, <4>1 DEF PontoOK, Pagamento
        <5> QED BY <1>2, <2>2, <4>1, <5>1
      <4> QED BY <4>1
    <3>4. reqGuia[q].chave # Nada /\ reqGuia[q].chave \in G!Referenciadas'
             => reqGuia[q].chave \in G!Referenciadas
      BY <1>7, <3>2
    <3> QED
      BY <1>5, <1>6, <1>9, <2>2, <3>1, <3>2, <3>3, <3>4 DEF PontoOK
  <2> QED BY <2>1, <2>2
<1>13. Recibo'
  <2>1. ASSUME NEW h \in Guias
        PROVE  /\ ~G!Existe(h)' => guiasCliente'[h] = G!SemGuia
               /\ guiasCliente'[h].comprovante # Nada => guiasCliente'[h].status = "PAGO"
               /\ eventos'[h] # 0 => vinculo' = h
    BY <1>2, <1>5 DEF GInv, Recibo, G!Existe
  <2>2. ASSUME NEW h \in Guias, NEW j \in Guias,
               guiasCliente'[j].comprovante = guiasCliente'[h].comprovante,
               guiasCliente'[h].comprovante # Nada
        PROVE  j = h
    <3>1. \A i \in Guias : k # Nada => guiasCliente[i].comprovante # k
      <4>1. ASSUME NEW i \in Guias, k # Nada, guiasCliente[i].comprovante = k PROVE FALSE
        <5>1. k \in Recibos
          BY <4>1, CamposDaGuia DEF Guia
        <5>2. k \in G!Referenciadas
          BY <4>1, <5>1, ChavesNasLinhas
        <5> QED BY <1>5, <4>1, <5>2 DEF IneditaDaGuia
      <4> QED BY <4>1
    <3>2. \A i \in Guias : guiasCliente'[i].comprovante = guiasCliente[i].comprovante
                            \/ (i = g /\ guiasCliente'[i].comprovante = k)
      BY <1>2
    <3> QED
      BY <2>2, <3>1, <3>2 DEF GInv, Recibo
  <2> QED BY <2>1, <2>2 DEF Recibo
<1>14. G!UmEventoPorPagamento'
  BY <1>2 DEF GInv, G!UmEventoPorPagamento
<1>15. G!ArquivosCoerentes'
  <2>1. G!ReferenciaArmazenada'
    BY <1>5, <1>6, <1>7 DEF GInv, G!ArquivosCoerentes, G!ReferenciaArmazenada
  <2>2. G!FilaSemReferencia'
    BY <1>5, <1>7 DEF GInv, G!ArquivosCoerentes, G!FilaSemReferencia, IneditaDaGuia
  <2>3. ASSUME cliente', NEW c \in objetos' \ G!Referenciadas'
        PROVE  fila'[c] # "fora" \/ c \in orfas' \/ \E q \in Procs : reqGuia'[q].chave = c
    <3>1. cliente /\ c \in objetos \ G!Referenciadas /\ c # k
      BY <1>1, <1>5, <1>7, <2>3, CamposDaGuia
    <3>2. fila[c] # "fora" \/ c \in orfas \/ \E q \in Procs : reqGuia[q].chave = c
      BY <3>1 DEF GInv, G!ArquivosCoerentes, G!SemOrfas
    <3> QED BY <1>4, <1>5, <3>1, <3>2
  <2> QED BY <2>1, <2>2, <2>3 DEF G!ArquivosCoerentes, G!SemOrfas
<1> QED
  BY <1>8, <1>10, <1>11, <1>12, <1>13, <1>14, <1>15 DEF GInv

(* The trail has one event of a guia at most, of the linked one, once paid. *)
LEMMA EventosDaGuia ==
  ASSUME GInv
  PROVE  \A h \in Guias : /\ eventos[h] \in {0, 1}
                          /\ eventos[h] = 1 => guiasCliente[h].status = "PAGO"
                          /\ eventos[h] # 0 => vinculo = h
<1>1. \A h \in Guias : eventos[h] \in Nat /\ eventos[h] <= 1
  BY CamposDaGuia DEF GInv, G!UmEventoPorPagamento
<1>2. \A i \in Nat : i <= 1 => i \in {0, 1}
  OBVIOUS
<1> QED
  BY <1>1, <1>2 DEF GInv, G!UmEventoPorPagamento, Recibo

LEMMA ConfirmarGuiaG ==
  ASSUME G!GuiasAssumption, GInv, NEW p \in Procs,
         G!ConfirmarGuia(p) \/ G!ConfirmarGuiaSemResposta(p)
  PROVE  GInv' /\ \A g \in Guias : guiasCliente[g].comprovante # Nada =>
                                     guiasCliente'[g].comprovante
                                         = guiasCliente[g].comprovante
<1> DEFINE g == reqGuia[p].guia
           linha == [guiasCliente[g] EXCEPT !.status = "PENDENTE"]
<1>1. /\ pcGuia[p] = "confirmarGuia" /\ G!GravarGuia(p)
      /\ UNCHANGED <<objetos, fila, usadas, orfas>>
      /\ \/ G!Encerrar(p) /\ perdidas' = perdidas
         \/ G!Ir(p, "descartar") /\ perdidas' = perdidas \cup {reqGuia[p].chave}
  BY DEF G!ConfirmarGuia, G!ConfirmarGuiaSemResposta, G!filaVars
<1>2. /\ g \in Guias /\ reqGuia[p].chave = g /\ g \in G!Chaves /\ g # Nada
      /\ IneditaDaGuia(g) /\ g \in objetos /\ g \in usadas
      /\ reqGuia[p].ligar => vinculo = Nada
      /\ PontoOK(p)
  BY <1>1, ChavesNasLinhas DEF GInv, PontoOK, Criacao, Exclusao, G!Chaves
<1>3. /\ ~G!Existe(g) /\ guiasCliente[g] = G!SemGuia /\ guiasCliente[g].comprovante = Nada
      /\ guiasCliente[g].status = "AUSENTE"
  BY <1>2, ChavesNasLinhas, CamposDaGuia DEF IneditaDaGuia, GInv, Recibo
<1>4. linha \in Guia /\ linha.status = "PENDENTE" /\ linha.comprovante = Nada
  BY <1>3, CamposDaGuia DEF Guia
<1>5. /\ guiasCliente' = [guiasCliente EXCEPT ![g] = linha]
      /\ UNCHANGED <<cliente, eventos>>
      /\ vinculo' = IF reqGuia[p].ligar THEN g ELSE vinculo
  BY <1>1, CamposDaGuia DEF G!GravarGuia
<1> HIDE DEF linha
<1>6. Registro(p, g, g, linha)
  BY <1>1, <1>2, <1>4, <1>5, MudancasDaGuia DEF Registro, G!Pontos
<1>7. /\ vinculo' \in Guias \cup {Nada} /\ eventos' \in [Guias -> Nat]
      /\ \A h \in Guias : eventos'[h] # 0 => vinculo' = h
      /\ \A h \in Guias : eventos'[h] <= 1
      /\ \A h \in Guias \ {g} : eventos'[h] = eventos[h]
      /\ eventos'[g] # 1
  <2>1. \A h \in Guias : eventos'[h] \in {0, 1} /\ eventos'[h] <= 1
    BY <1>5, EventosDaGuia
  <2>2. eventos'[g] = 0
    BY <1>2, <1>3, <1>5, EventosDaGuia
  <2>3. \A h \in Guias : eventos'[h] # 0 => vinculo' = h
    BY <1>2, <1>5, <2>2, EventosDaGuia, ChavesNasLinhas DEF G!Chaves
  <2> QED
    BY <1>2, <1>5, <2>1, <2>2, <2>3, CamposDaGuia
<1>8. ASSUME NEW q \in Procs \ {p}
      PROVE  /\ pcGuia[q] = "confirmarGuia" /\ reqGuia[q].ligar => vinculo' = Nada
             /\ pcGuia[q] = "confirmarPagamento" => reqGuia[q].guia # g
                   \/ linha.status = "PENDENTE"
             /\ pcGuia[q] = "excluirGuia" => vinculo' # reqGuia[q].guia
  <2>1. PontoOK(q) /\ reqGuia[q].guia # g
    BY <1>1 DEF GInv, Separados, Criacao
  <2>2. pcGuia[q] = "confirmarGuia" => ~(reqGuia[p].ligar /\ reqGuia[q].ligar)
    BY <1>1 DEF GInv, Separados
  <2> QED BY <1>4, <1>5, <2>1, <2>2 DEF PontoOK
<1>9. GInv'
  BY <1>2, <1>3, <1>4, <1>6, <1>7, <1>8, RegistroG
<1> QED
  BY <1>3, <1>5, <1>9, CamposDaGuia

LEMMA PagarG ==
  ASSUME G!GuiasAssumption, GInv, NEW p \in Procs,
         G!ConfirmarPagamento(p) \/ G!ConfirmarPagamentoSemResposta(p)
  PROVE  GInv' /\ \A g \in Guias : guiasCliente[g].comprovante # Nada =>
                                     guiasCliente'[g].comprovante
                                         = guiasCliente[g].comprovante
<1> DEFINE g == reqGuia[p].guia
           k == reqGuia[p].chave
           linha == [guiasCliente[g] EXCEPT !.status = "PAGO", !.comprovante = k]
<1>1. /\ pcGuia[p] = "confirmarPagamento" /\ G!GravarPagamento(p)
      /\ UNCHANGED <<objetos, fila, usadas, orfas>>
      /\ \/ G!Encerrar(p) /\ perdidas' = perdidas
         \/ G!Desistir(p) /\ perdidas' = perdidas \cup ({k} \ {Nada})
  BY DEF G!ConfirmarPagamento, G!ConfirmarPagamentoSemResposta, G!filaVars
<1>2. /\ g \in Guias /\ k \in Recibos \cup {Nada} /\ k \in G!Chaves \cup {Nada}
      /\ k # Nada => IneditaDaGuia(k) /\ k \in objetos /\ k \in usadas
      /\ guiasCliente[g].status = "PENDENTE"
      /\ PontoOK(p)
  BY <1>1 DEF GInv, PontoOK, Criacao, Pagamento, Exclusao, G!Chaves
<1>3. G!Existe(g) /\ guiasCliente[g].comprovante = Nada /\ eventos[g] = 0
  BY <1>2, EventosDaGuia DEF G!Existe, GInv, Recibo
<1>4. linha \in Guia /\ linha.status = "PAGO" /\ linha.comprovante = k
  BY <1>2, CamposDaGuia DEF Guia
<1>5. /\ guiasCliente' = [guiasCliente EXCEPT ![g] = linha]
      /\ UNCHANGED <<cliente, vinculo>>
      /\ eventos' = eventos \/ (vinculo = g /\ eventos' = [eventos EXCEPT ![g] = 1])
  <2>2. guiasCliente' = [guiasCliente EXCEPT ![g] = linha]
    BY <1>1, <1>2, CamposDaGuia DEF G!GravarPagamento
  <2>3. [eventos EXCEPT ![g] = @ + 1] = [eventos EXCEPT ![g] = 1]
    BY <1>3
  <2> QED
    BY <1>1, <2>2, <2>3 DEF G!GravarPagamento
<1>6. g # k
  BY <1>2 DEF G!GuiasAssumption
<1> HIDE DEF linha
<1>7. Registro(p, g, k, linha)
  <2>1. \/ MudaDaGuia(p, "ocioso", G!Ocioso) /\ perdidas' = perdidas
        \/ MudaDaGuia(p, "descartar", reqGuia[p]) /\ perdidas' = perdidas \cup {k}
           /\ k # Nada
        \/ MudaDaGuia(p, "ocioso", G!Ocioso) /\ perdidas' = perdidas \cup ({k} \ {Nada})
           /\ k = Nada
    BY <1>1, MudancasDaGuia, DesistirG
  <2> QED
    BY <1>1, <1>2, <1>4, <1>5, <2>1 DEF Registro
<1>8. /\ vinculo' \in Guias \cup {Nada} /\ eventos' \in [Guias -> Nat]
      /\ \A h \in Guias : eventos'[h] # 0 => vinculo' = h
      /\ \A h \in Guias : eventos'[h] <= 1
      /\ \A h \in Guias \ {g} : eventos'[h] = eventos[h]
  <2>1. CASE eventos' = eventos
    BY <1>5, <2>1, CamposDaGuia, EventosDaGuia
  <2>2. CASE vinculo = g /\ eventos' = [eventos EXCEPT ![g] = 1]
    BY <1>2, <1>5, <2>2, CamposDaGuia, EventosDaGuia
  <2> QED BY <1>5, <2>1, <2>2
<1>9. ASSUME NEW q \in Procs \ {p}
      PROVE  /\ pcGuia[q] = "confirmarGuia" /\ reqGuia[q].ligar => vinculo' = Nada
             /\ pcGuia[q] = "confirmarPagamento" => reqGuia[q].guia # g
                   \/ linha.status = "PENDENTE"
             /\ pcGuia[q] = "excluirGuia" => vinculo' # reqGuia[q].guia
  <2>1. PontoOK(q) /\ (pcGuia[q] = "confirmarPagamento" => reqGuia[q].guia # g)
    BY <1>1 DEF GInv, Separados
  <2> QED BY <1>5, <2>1 DEF PontoOK
<1>10. GInv'
  BY <1>2, <1>3, <1>4, <1>7, <1>8, <1>9, RegistroG
<1> QED
  BY <1>3, <1>5, <1>10, CamposDaGuia

LEMMA AnexarG ==
  ASSUME G!GuiasAssumption, GInv, NEW p \in Procs, G!Anexar(p)
  PROVE  GInv' /\ \A g \in Guias : guiasCliente[g].comprovante # Nada =>
                                     guiasCliente'[g].comprovante
                                         = guiasCliente[g].comprovante
<1> DEFINE g == reqGuia[p].guia
           k == reqGuia[p].chave
           linha == [guiasCliente[g] EXCEPT !.comprovante = k]
<1>1. /\ pcGuia[p] = "anexar" /\ ~G!Travada(g)
      /\ UNCHANGED <<objetos, fila, cliente, vinculo, eventos, usadas, orfas>>
      /\ \/ G!Encerrar(p) /\ perdidas' = perdidas
         \/ G!Ir(p, "descartar") /\ perdidas' = perdidas \cup {k}
      /\ guiasCliente[g].status = "PAGO" /\ guiasCliente[g].comprovante = Nada
  BY DEF G!Anexar, G!filaVars, G!Anexavel
<1>2. /\ g \in Guias /\ k \in Recibos /\ k \in G!Chaves /\ k # Nada
      /\ IneditaDaGuia(k) /\ k \in objetos /\ k \in usadas
      /\ PontoOK(p)
  BY <1>1 DEF GInv, PontoOK, Criacao, Pagamento, Exclusao, G!Chaves, G!GuiasAssumption
<1>3. G!Existe(g)
  BY <1>1 DEF G!Existe
<1>4. linha \in Guia /\ linha.status = "PAGO" /\ linha.comprovante = k
  BY <1>1, <1>2, CamposDaGuia DEF Guia
<1>5. guiasCliente' = [guiasCliente EXCEPT ![g] = linha]
  BY CamposDaGuia DEF G!Anexar
<1>6. g # k
  BY <1>2 DEF G!GuiasAssumption
<1> HIDE DEF linha
<1>7. Registro(p, g, k, linha)
  <2>1. \/ MudaDaGuia(p, "ocioso", G!Ocioso) /\ perdidas' = perdidas
        \/ MudaDaGuia(p, "descartar", reqGuia[p]) /\ perdidas' = perdidas \cup {k}
    BY <1>1, MudancasDaGuia DEF G!Pontos
  <2> QED
    BY <1>1, <1>2, <1>4, <1>5, <2>1 DEF Registro
<1>8. /\ vinculo' \in Guias \cup {Nada} /\ eventos' \in [Guias -> Nat]
      /\ \A h \in Guias : eventos'[h] # 0 => vinculo' = h
      /\ \A h \in Guias : eventos'[h] <= 1
      /\ \A h \in Guias \ {g} : eventos'[h] = eventos[h]
  BY <1>1, CamposDaGuia DEF GInv, Recibo, G!UmEventoPorPagamento
<1>9. ASSUME NEW q \in Procs \ {p}
      PROVE  /\ pcGuia[q] = "confirmarGuia" /\ reqGuia[q].ligar => vinculo' = Nada
             /\ pcGuia[q] = "confirmarPagamento" => reqGuia[q].guia # g
                   \/ linha.status = "PENDENTE"
             /\ pcGuia[q] = "excluirGuia" => vinculo' # reqGuia[q].guia
  <2>1. PontoOK(q) /\ (pcGuia[q] = "confirmarPagamento" => reqGuia[q].guia # g)
    BY <1>1 DEF GInv, G!Travada
  <2> QED BY <1>1, <2>1 DEF PontoOK
<1>10. GInv'
  BY <1>1, <1>2, <1>3, <1>4, <1>7, <1>8, <1>9, RegistroG
<1> QED
  BY <1>1, <1>5, <1>10, CamposDaGuia

(* The request p deletes rows: the keys of the rows that go are scheduled  *)
(* while the client exists, and no key but those of rows is.               *)
LEMMA ExclusaoG ==
  ASSUME G!GuiasAssumption, GInv, NEW p \in Procs,
         MudaDaGuia(p, "ocioso", G!Ocioso), pcGuia[p] \in Exclusao,
         UNCHANGED <<objetos, usadas, perdidas, orfas>>,
         guiasCliente' \in [Guias -> Guia], fila' \in [G!Chaves -> G!F!Etapas],
         vinculo' \in {vinculo, Nada}, eventos' \in [Guias -> Nat], cliente' \in BOOLEAN,
         cliente' => cliente,
         \A h \in Guias : guiasCliente'[h] \in {guiasCliente[h], G!SemGuia},
         \A h \in Guias : G!Existe(h)' => \A c \in G!ChavesDe(h) : fila'[c] = fila[c],
         \A c \in G!Chaves : fila'[c] # fila[c] => c \in G!Referenciadas
            \cup reqGuia[p].visto,
         \A c \in G!Chaves : fila[c] # "fora" => fila'[c] # "fora",
         cliente' => \A c \in G!Referenciadas : c \in G!Referenciadas' \/ fila'[c] # "fora",
         \A h \in Guias : eventos'[h] # 0 =>
           eventos'[h] = eventos[h] /\ guiasCliente'[h] = guiasCliente[h]
              /\ vinculo' = vinculo,
         \A q \in Procs : pcGuia[q] = "confirmarPagamento" =>
           guiasCliente'[reqGuia[q].guia] = guiasCliente[reqGuia[q].guia]
  PROVE  GInv'
<1>1. /\ Nada \notin G!Chaves /\ G!Referenciadas \subseteq G!Chaves /\ Nada \notin Guias
      /\ G!Ocioso.guia = Nada /\ G!Ocioso.chave = Nada /\ G!Ocioso.visto = {}
      /\ ~G!Ocioso.ligar
      /\ G!Ocioso \in PedidoDeGuia
      /\ \A q \in Procs : reqGuia[q].chave \in G!Chaves \cup {Nada}
      /\ \A q \in Procs : PontoOK(q)
      /\ Guias \subseteq G!Chaves
      /\ G!SemGuia.status = "AUSENTE" /\ G!SemGuia.comprovante = Nada
  BY CamposDaGuia, ChavesNasLinhas DEF GInv, PedidoDeGuia, G!Chaves
<1>2. /\ pcGuia' \in [Procs -> G!Pontos] /\ reqGuia' \in [Procs -> PedidoDeGuia]
      /\ \A q \in Procs : pcGuia'[q] = IF q = p THEN "ocioso" ELSE pcGuia[q]
      /\ \A q \in Procs : reqGuia'[q] = IF q = p THEN G!Ocioso ELSE reqGuia[q]
  BY <1>1, PassoDaGuia DEF G!Pontos
<1>3. \A h \in Guias : G!Existe(h)' => guiasCliente'[h] = guiasCliente[h]
  BY <1>1 DEF G!Existe
<1>4. G!Referenciadas' \subseteq G!Referenciadas
  BY <1>3 DEF G!Referenciadas, G!ChavesDe, G!Existe
<1>5. G!TypeOK'
  <2>1. vinculo' \in Guias \cup {Nada}
    BY CamposDaGuia
  <2> QED
    BY <1>2, <2>1, CamposDaGuia DEF GInv, G!TypeOK, PedidoDeGuia, Guia
<1>6. \A c \in G!Chaves : IneditaDaGuia(c) => IneditaDaGuia(c)'
  BY <1>1, <1>2, <1>4 DEF IneditaDaGuia
<1>7. NaoUsadasDaGuia'
  BY <1>6 DEF GInv, NaoUsadasDaGuia
<1>8. Separados'
  <2>1. \A q \in Procs : pcGuia[q] \in Criacao => reqGuia[q].guia # Nada
    BY <1>1 DEF PontoOK
  <2> QED
    BY <1>1, <1>2, <2>1 DEF GInv, Separados, Criacao
<1>9. ASSUME NEW q \in Procs PROVE PontoOK(q)'
  <2>1. CASE q = p
    <3>1. pcGuia'[q] = "ocioso" /\ reqGuia'[q] = G!Ocioso
      BY <1>2, <2>1
    <3> QED
      BY <1>1, <3>1 DEF PontoOK, Criacao, Pagamento, Exclusao
  <2>2. CASE q # p
    <3>1. PontoOK(q) /\ pcGuia'[q] = pcGuia[q] /\ reqGuia'[q] = reqGuia[q]
      BY <1>1, <1>2, <2>2
    <3>2. reqGuia[q].chave # Nada => reqGuia[q].chave \in G!Chaves
      BY <1>1
    <3>3. pcGuia[q] = "confirmarPagamento"
             => guiasCliente'[reqGuia[q].guia].status = "PENDENTE"
      BY <3>1 DEF PontoOK
    <3>4. pcGuia[q] = "excluirGuia" => vinculo' # reqGuia[q].guia
      BY <1>1, <3>1 DEF PontoOK
    <3>5. reqGuia[q].chave \in G!Referenciadas' => reqGuia[q].chave \in G!Referenciadas
      BY <1>4
    <3> QED
      BY <1>6, <3>1, <3>2, <3>3, <3>4, <3>5 DEF PontoOK
  <2> QED BY <2>1, <2>2
<1>10. Recibo'
  <2>1. \A h \in Guias : /\ ~G!Existe(h)' => guiasCliente'[h] = G!SemGuia
                         /\ guiasCliente'[h].comprovante # Nada =>
                              guiasCliente'[h] = guiasCliente[h]
                                 /\ guiasCliente'[h].status = "PAGO"
                         /\ eventos'[h] # 0 => vinculo' = h
    BY <1>1 DEF GInv, Recibo, G!Existe
  <2>2. ASSUME NEW h \in Guias, NEW j \in Guias,
               guiasCliente'[j].comprovante = guiasCliente'[h].comprovante,
               guiasCliente'[h].comprovante # Nada
        PROVE  j = h
    BY <2>1, <2>2 DEF GInv, Recibo
  <2> QED BY <2>1, <2>2 DEF Recibo
<1>11. G!UmEventoPorPagamento'
  BY CamposDaGuia DEF GInv, G!UmEventoPorPagamento
<1>12. G!ArquivosCoerentes'
  <2>1. G!ReferenciaArmazenada'
    BY <1>4 DEF GInv, G!ArquivosCoerentes, G!ReferenciaArmazenada
  <2>2. G!FilaSemReferencia'
    <3>1. ASSUME NEW c \in G!Referenciadas' PROVE fila'[c] = "fora"
      <4>1. PICK h \in Guias : c \in G!ChavesDe(h)'
        BY <3>1 DEF G!Referenciadas
      <4>2. G!Existe(h)' /\ c \in G!ChavesDe(h)
        BY <1>3, <4>1 DEF G!ChavesDe, G!Existe
      <4>3. fila[c] = "fora"
        BY <1>4 DEF GInv, G!ArquivosCoerentes, G!FilaSemReferencia
      <4> QED BY <4>2, <4>3
    <3> QED BY <3>1 DEF G!FilaSemReferencia
  <2>3. ASSUME cliente', NEW c \in objetos' \ G!Referenciadas'
        PROVE  fila'[c] # "fora" \/ c \in orfas' \/ \E q \in Procs : reqGuia'[q].chave = c
    <3>1. c \in G!Chaves /\ c \in objetos /\ cliente
      BY <2>3, CamposDaGuia
    <3>2. CASE c \in G!Referenciadas
      BY <2>3, <3>2
    <3>3. CASE c \notin G!Referenciadas
      <4>1. fila[c] # "fora" \/ c \in orfas \/ \E q \in Procs : reqGuia[q].chave = c
        BY <3>1, <3>3 DEF GInv, G!ArquivosCoerentes, G!SemOrfas
      <4>2. reqGuia[p].chave = Nada
        BY <1>1 DEF PontoOK
      <4> QED BY <1>1, <1>2, <3>1, <4>1, <4>2
    <3> QED BY <3>2, <3>3
  <2> QED BY <2>1, <2>2, <2>3 DEF G!ArquivosCoerentes, G!SemOrfas
<1> QED
  BY <1>5, <1>7, <1>8, <1>9, <1>10, <1>11, <1>12 DEF GInv

LEMMA ExcluirGuiaG ==
  ASSUME G!GuiasAssumption, GInv, NEW p \in Procs, G!ExcluirGuia(p)
  PROVE  /\ GInv'
         /\ \A h \in Guias : G!Existe(h)' => guiasCliente'[h] = guiasCliente[h]
         /\ \A h \in Guias : G!Existe(h) /\ ~G!Existe(h)'
               => \A k \in G!ChavesDe(h) : fila'[k] # "fora"
<1> DEFINE g == reqGuia[p].guia
<1>1. /\ pcGuia[p] = "excluirGuia" /\ ~G!Travada(g)
      /\ guiasCliente' = [guiasCliente EXCEPT ![g] = G!SemGuia]
      /\ G!F!Agendar(G!ChavesDe(g)) /\ MudaDaGuia(p, "ocioso", G!Ocioso)
      /\ UNCHANGED <<cliente, vinculo, eventos, usadas, perdidas, orfas>>
  BY MudancasDaGuia DEF G!ExcluirGuia
<1>2. g \in Guias /\ vinculo # g /\ eventos[g] = 0
  BY <1>1, EventosDaGuia DEF GInv, PontoOK
<1>3. /\ guiasCliente' \in [Guias -> Guia]
      /\ \A h \in Guias : guiasCliente'[h] = IF h = g THEN G!SemGuia ELSE guiasCliente[h]
      /\ G!SemGuia.status = "AUSENTE"
  BY <1>1, CamposDaGuia
<1>4. /\ fila' \in [G!Chaves -> G!F!Etapas] /\ objetos' = objetos
      /\ \A c \in G!Chaves : fila'[c] = IF c \in G!ChavesDe(g) /\ fila[c] = "fora"
                                      THEN "agendado" ELSE fila[c]
  BY <1>1, CamposDaGuia DEF G!F!Agendar, G!F!Etapas
<1>5. /\ G!Referenciadas \subseteq G!Chaves
      /\ \A h \in Guias : G!ChavesDe(h) \subseteq G!Referenciadas
      /\ \A h \in Guias : G!Existe(h)' => h # g
  BY <1>3, ChavesNasLinhas DEF G!Referenciadas, G!Existe
<1>6. \A h \in Guias : G!Existe(h)' => \A c \in G!ChavesDe(h) : fila'[c] = fila[c]
  <2>1. ASSUME NEW h \in Guias, G!Existe(h)', NEW c \in G!ChavesDe(h)
        PROVE fila'[c] = fila[c]
    <3>1. c \notin G!ChavesDe(g) /\ c \in G!Chaves
      BY <1>2, <1>5, <2>1, ChavesNasLinhas
    <3> QED BY <1>4, <3>1
  <2> QED BY <2>1
<1>7. \A c \in G!ChavesDe(g) : fila'[c] # "fora"
  BY <1>2, <1>4, <1>5
<1>8. \A c \in G!Chaves : /\ fila'[c] # fila[c] => c \in G!Referenciadas
                          /\ fila[c] # "fora" => fila'[c] # "fora"
  BY <1>2, <1>4, <1>5
<1>9. \A c \in G!Referenciadas : c \in G!Referenciadas' \/ fila'[c] # "fora"
  <2>1. ASSUME NEW c \in G!Referenciadas, fila'[c] = "fora" PROVE c \in G!Referenciadas'
    <3>1. PICK h \in Guias : c \in G!ChavesDe(h)
      BY DEF G!Referenciadas
    <3>2. h # g
      BY <1>7, <2>1, <3>1
    <3>3. G!ChavesDe(h)' = G!ChavesDe(h)
      BY <1>3, <3>2 DEF G!ChavesDe, G!Existe
    <3> QED BY <3>1, <3>3 DEF G!Referenciadas
  <2> QED BY <2>1
<1>10. \A q \in Procs : pcGuia[q] = "confirmarPagamento" =>
         guiasCliente'[reqGuia[q].guia] = guiasCliente[reqGuia[q].guia]
  <2>1. ASSUME NEW q \in Procs, pcGuia[q] = "confirmarPagamento"
        PROVE  guiasCliente'[reqGuia[q].guia] = guiasCliente[reqGuia[q].guia]
    <3>1. reqGuia[q].guia # g /\ reqGuia[q].guia \in Guias
      BY <1>1, <2>1 DEF G!Travada, GInv, PontoOK, Pagamento
    <3> QED BY <1>3, <3>1
  <2> QED BY <2>1
<1>11. \A h \in Guias : eventos'[h] # 0 =>
         eventos'[h] = eventos[h] /\ guiasCliente'[h] = guiasCliente[h]
            /\ vinculo' = vinculo
  BY <1>1, <1>2, <1>3
<1>12. /\ pcGuia[p] \in Exclusao /\ eventos' \in [Guias -> Nat] /\ cliente' \in BOOLEAN
       /\ cliente' => cliente
  BY <1>1, CamposDaGuia DEF Exclusao
<1>13. GInv'
  BY <1>1, <1>3, <1>4, <1>6, <1>8, <1>9, <1>10, <1>11, <1>12, ExclusaoG
<1>14. ASSUME NEW h \in Guias, G!Existe(h), ~G!Existe(h)'
       PROVE  \A k \in G!ChavesDe(h) : fila'[k] # "fora"
  BY <1>3, <1>7, <1>14 DEF G!Existe
<1> QED
  BY <1>3, <1>5, <1>13, <1>14

LEMMA ExcluirClienteG ==
  ASSUME G!GuiasAssumption, GInv, NEW p \in Procs, G!ExcluirCliente(p)
  PROVE  /\ GInv'
         /\ \A h \in Guias : G!Existe(h)' => guiasCliente'[h] = guiasCliente[h]
         /\ cliente' => guiasCliente' = guiasCliente
<1>1. /\ pcGuia[p] = "excluirCliente" /\ pcGuia[p] \in Exclusao
      /\ MudaDaGuia(p, "ocioso", G!Ocioso)
      /\ UNCHANGED <<objetos, usadas, perdidas, orfas>>
      /\ \A g \in Guias : ~G!Travada(g)
  BY MudancasDaGuia DEF G!ExcluirCliente, G!F!Agendar, G!filaVars, Exclusao
<1>2. \A q \in Procs : pcGuia[q] # "confirmarPagamento"
  BY <1>1 DEF G!Travada, GInv, PontoOK, Pagamento
<1>3. CASE cliente
  <2>1. /\ cliente' = FALSE /\ guiasCliente' = [g \in Guias |-> G!SemGuia]
        /\ vinculo' = Nada
        /\ eventos' = [g \in Guias |-> 0] /\ G!F!Agendar(reqGuia[p].visto)
    BY <1>3 DEF G!ExcluirCliente
  <2>2. /\ fila' \in [G!Chaves -> G!F!Etapas]
        /\ \A c \in G!Chaves : fila'[c] = IF c \in reqGuia[p].visto /\ fila[c] = "fora"
                                        THEN "agendado" ELSE fila[c]
    BY <2>1, CamposDaGuia DEF G!F!Agendar, G!F!Etapas
  <2>3. \A h \in Guias : ~G!Existe(h)' /\ guiasCliente'[h] = G!SemGuia /\ eventos'[h] = 0
    BY <2>1, CamposDaGuia DEF G!Existe
  <2>4. guiasCliente' \in [Guias -> Guia] /\ eventos' \in [Guias -> Nat]
    BY <2>1, CamposDaGuia
  <2>5. GInv'
    BY <1>1, <1>2, <2>1, <2>2, <2>3, <2>4, ExclusaoG
  <2> QED BY <2>1, <2>3, <2>5
<1>4. CASE ~cliente
  <2>1. UNCHANGED <<objetos, fila, cliente, guiasCliente, vinculo, eventos>>
    BY <1>4 DEF G!ExcluirCliente, G!filaVars, G!dados
  <2>2. G!Referenciadas' = G!Referenciadas
    BY <2>1, MesmasLinhas
  <2>3. GInv'
    BY <1>1, <2>1, <2>2, ExclusaoG, CamposDaGuia
  <2> QED BY <2>1, <2>3
<1> QED
  BY <1>3, <1>4

LEMMA LimparG ==
  ASSUME G!GuiasAssumption, GInv, G!LimparFila
  PROVE  GInv'
<1>1. PICK k \in G!Chaves :
        /\ fila[k] # "fora"
        /\ \/ objetos' = objetos \ {k} /\ fila' = fila
           \/ objetos' = objetos /\ fila' = [fila EXCEPT ![k] = "concluido"]
  BY DEF G!LimparFila, G!F!Limpar, G!F!Remover, G!F!Concluir
<1>2. UNCHANGED <<cliente, guiasCliente, vinculo, eventos, usadas, pcGuia, reqGuia,
                  perdidas, orfas>>
  BY DEF G!LimparFila, G!dados
<1>3. /\ fila' \in [G!Chaves -> G!F!Etapas] /\ fila'[k] # "fora"
      /\ \A c \in G!Chaves \ {k} : fila'[c] = fila[c]
  BY <1>1, CamposDaGuia DEF G!F!Etapas
<1>4. G!Referenciadas' = G!Referenciadas /\ \A g : G!Existe(g)' = G!Existe(g)
  BY <1>2, MesmasLinhas
<1>5. G!TypeOK'
  BY <1>1, <1>2, <1>3, CamposDaGuia DEF GInv, G!TypeOK, PedidoDeGuia, Guia
<1>6. \A c \in G!Chaves : IneditaDaGuia(c) => IneditaDaGuia(c)' /\ c # k
  BY <1>1, <1>2, <1>3, <1>4 DEF IneditaDaGuia
<1>7. NaoUsadasDaGuia' /\ Separados' /\ Recibo' /\ G!UmEventoPorPagamento'
  BY <1>1, <1>2, <1>4, <1>6
     DEF GInv, NaoUsadasDaGuia, Separados, Recibo, G!UmEventoPorPagamento
<1>8. ASSUME NEW q \in Procs PROVE PontoOK(q)'
  <2>1. /\ PontoOK(q) /\ (reqGuia[q].chave # Nada => reqGuia[q].chave \in G!Chaves)
        /\ pcGuia'[q] = pcGuia[q] /\ reqGuia'[q] = reqGuia[q]
    BY <1>2, CamposDaGuia DEF GInv, PedidoDeGuia
  <2>2. pcGuia[q] \in {"inserirGuia", "confirmarGuia", "anexar"} \cup Pagamento =>
          (reqGuia[q].chave # Nada => IneditaDaGuia(reqGuia[q].chave))
    BY <2>1 DEF PontoOK, Pagamento, Exclusao
  <2>3. \A c \in objetos : c # k => c \in objetos'
    BY <1>1
  <2> QED
    BY <1>2, <1>4, <1>6, <2>1, <2>2, <2>3 DEF PontoOK
<1>9. G!ArquivosCoerentes'
  BY <1>1, <1>2, <1>3, <1>4, CamposDaGuia, ChavesNasLinhas
     DEF GInv, G!ArquivosCoerentes, G!ReferenciaArmazenada, G!FilaSemReferencia,
         G!SemOrfas
<1> QED
  BY <1>5, <1>7, <1>8, <1>9 DEF GInv

LEMMA InicioG ==
  ASSUME G!GuiasAssumption, G!Init
  PROVE  GInv
<1>1. /\ G!SemGuia \in Guia /\ G!SemGuia.status = "AUSENTE" /\ G!SemGuia.comprovante = Nada
      /\ G!Ocioso \in PedidoDeGuia /\ G!Ocioso.guia = Nada /\ G!Ocioso.chave = Nada
      /\ G!Ocioso.ligar = FALSE /\ G!Ocioso.visto = {}
  BY DEF Guia, PedidoDeGuia, G!SemGuia, G!Ocioso
<1>2. G!TypeOK
  BY <1>1 DEF G!Init, G!TypeOK, G!F!FInit, G!F!Etapas, G!Pontos, Guia, PedidoDeGuia
<1>3. G!Referenciadas = {} /\ \A g \in Guias : ~G!Existe(g) /\ guiasCliente[g] = G!SemGuia
  BY <1>1 DEF G!Init, G!Referenciadas, G!ChavesDe, G!Existe
<1>4. NaoUsadasDaGuia
  BY <1>1, <1>3 DEF G!Init, G!F!FInit, NaoUsadasDaGuia, IneditaDaGuia
<1>5. Separados /\ \A p \in Procs : PontoOK(p)
  BY <1>1 DEF G!Init, Separados, PontoOK, Criacao, Pagamento, Exclusao
<1>6. Recibo /\ G!UmEventoPorPagamento
  BY <1>1, <1>3 DEF Recibo, G!UmEventoPorPagamento, G!Init
<1>7. G!ArquivosCoerentes
  BY <1>3
     DEF G!ArquivosCoerentes, G!ReferenciaArmazenada, G!FilaSemReferencia, G!SemOrfas,
         G!Init, G!F!FInit
<1> QED
  BY <1>2, <1>4, <1>5, <1>6, <1>7 DEF GInv

(* The invariant, and what no step does to a recorded receipt or to the    *)
(* files of a deleted guia. *)
LEMMA PassoG ==
  ASSUME G!GuiasAssumption, GInv, [G!Next]_(G!vars)
  PROVE  /\ GInv'
         /\ \A g \in Guias : guiasCliente[g].comprovante # Nada /\ G!Existe(g)' =>
              guiasCliente'[g].comprovante = guiasCliente[g].comprovante
         /\ cliente' => \A g \in Guias :
              G!Existe(g) /\ ~G!Existe(g)' => \A k \in G!ChavesDe(g) : fila'[k] # "fora"
<1>1. CASE UNCHANGED G!vars
  <2>1. UNCHANGED <<objetos, fila, cliente, guiasCliente, vinculo, eventos, usadas, pcGuia,
                    reqGuia,
                    perdidas, orfas>>
    BY <1>1 DEF G!vars, G!filaVars, G!dados
  <2>2. G!Referenciadas' = G!Referenciadas /\ \A g : G!Existe(g)' = G!Existe(g)
    BY <2>1, MesmasLinhas
  <2>3. \A k : IneditaDaGuia(k)' = IneditaDaGuia(k)
    BY <2>1, <2>2 DEF IneditaDaGuia
  <2>4. \A p : PontoOK(p)' = PontoOK(p)
    BY <2>1, <2>2, <2>3 DEF PontoOK
  <2>5. GInv'
    BY <2>1, <2>2, <2>3, <2>4
       DEF GInv, G!TypeOK, NaoUsadasDaGuia, Separados, Recibo, G!ArquivosCoerentes,
           G!ReferenciaArmazenada, G!FilaSemReferencia, G!SemOrfas, G!UmEventoPorPagamento
  <2> QED BY <2>1, <2>2, <2>5
<1>2. CASE G!LimparFila
  <2>1. guiasCliente' = guiasCliente
    BY <1>2 DEF G!LimparFila, G!dados
  <2>2. \A g : G!Existe(g)' = G!Existe(g)
    BY <2>1, MesmasLinhas
  <2> QED BY <1>2, <2>1, <2>2, LimparG
<1>3. ASSUME NEW p \in Procs, G!Receber(p) \/ Andamentos(p)
      PROVE  GInv' /\ guiasCliente' = guiasCliente
  BY <1>3, ReceberG, ChegadasG, AndarG, AndamentosG
<1>4. ASSUME NEW p \in Procs, G!Receber(p) \/ Andamentos(p)
      PROVE  GInv' /\ guiasCliente' = guiasCliente /\ \A g : G!Existe(g)' = G!Existe(g)
  BY <1>3, <1>4, MesmasLinhas
<1>5. ASSUME NEW p \in Procs,
             \/ G!ConfirmarGuia(p) \/ G!ConfirmarGuiaSemResposta(p)
             \/ G!ConfirmarPagamento(p) \/ G!ConfirmarPagamentoSemResposta(p) \/ G!Anexar(p)
      PROVE  /\ GInv'
             /\ \A g \in Guias : guiasCliente[g].comprovante # Nada =>
                                   guiasCliente'[g].comprovante
                                       = guiasCliente[g].comprovante
             /\ \A g \in Guias : G!Existe(g) => G!Existe(g)'
  <2>1. PICK g \in Guias, linha \in Guia :
          guiasCliente' = [guiasCliente EXCEPT ![g] = linha] /\ (G!Existe(g)
             => linha.status # "AUSENTE")
    <3>1. guiasCliente[reqGuia[p].guia] \in Guia /\ reqGuia[p].guia \in Guias
          /\ reqGuia[p].chave \in Recibos \cup {Nada, reqGuia[p].guia}
          /\ (pcGuia[p] # "confirmarGuia" => reqGuia[p].chave \in Recibos \cup {Nada})
      BY <1>5, CamposDaGuia
         DEF G!ConfirmarGuia, G!ConfirmarGuiaSemResposta, G!ConfirmarPagamento,
             G!ConfirmarPagamentoSemResposta, G!Anexar, GInv, PontoOK, Criacao, Pagamento
    <3>2. CASE G!ConfirmarGuia(p) \/ G!ConfirmarGuiaSemResposta(p)
      BY <3>1, <3>2 DEF G!ConfirmarGuia, G!ConfirmarGuiaSemResposta, G!GravarGuia, Guia
    <3>3. CASE G!ConfirmarPagamento(p) \/ G!ConfirmarPagamentoSemResposta(p)
      BY <3>1, <3>3
         DEF G!ConfirmarPagamento, G!ConfirmarPagamentoSemResposta, G!GravarPagamento,
             Guia
    <3>4. CASE G!Anexar(p)
      <4> DEFINE g == reqGuia[p].guia
                 linha == [guiasCliente[g] EXCEPT !.comprovante = reqGuia[p].chave]
      <4>1. guiasCliente[g].status = "PAGO" /\ reqGuia[p].chave \in Recibos \cup {Nada}
        BY <3>1, <3>4 DEF G!Anexar, G!Anexavel
      <4>2. linha \in Guia /\ linha.status = "PAGO"
        BY <3>1, <4>1 DEF Guia
      <4>3. guiasCliente' = [guiasCliente EXCEPT ![g] = linha]
        BY <3>4, CamposDaGuia DEF G!Anexar
      <4> HIDE DEF linha
      <4> QED BY <3>1, <4>2, <4>3
    <3> QED BY <1>5, <3>2, <3>3, <3>4
  <2>2. \A h \in Guias : G!Existe(h) => G!Existe(h)'
    BY <2>1, CamposDaGuia DEF G!Existe
  <2> QED BY <1>5, <2>2, ConfirmarGuiaG, PagarG, AnexarG
<1>6. ASSUME NEW p \in Procs, G!ExcluirGuia(p) \/ G!ExcluirCliente(p)
      PROVE  /\ GInv'
             /\ \A h \in Guias : G!Existe(h)' => guiasCliente'[h] = guiasCliente[h]
             /\ cliente' => \A g \in Guias :
                  G!Existe(g) /\ ~G!Existe(g)' => \A k \in G!ChavesDe(g) : fila'[k] # "fora"
  <2>1. CASE G!ExcluirGuia(p)
    BY <2>1, ExcluirGuiaG
  <2>2. CASE G!ExcluirCliente(p)
    BY <2>2, ExcluirClienteG, MesmasLinhas
  <2> QED BY <1>6, <2>1, <2>2
<1>7. G!Next => \/ G!LimparFila
                \/ \E p \in Procs :
                     \/ G!Receber(p) \/ Andamentos(p)
                     \/ G!ConfirmarGuia(p) \/ G!ConfirmarGuiaSemResposta(p)
                     \/ G!ConfirmarPagamento(p) \/ G!ConfirmarPagamentoSemResposta(p)
                        \/ G!Anexar(p)
                     \/ G!ExcluirGuia(p) \/ G!ExcluirCliente(p)
  BY DEF G!Next, G!Gravar, Andamentos
<1> QED
  BY <1>1, <1>2, <1>4, <1>5, <1>6, <1>7

-----------------------------------------------------------------------------
(* The apuração of the Simples. *)

(* A delivered closing, sealed with the values of the version v. *)
Selado(f, v) == f \in S!H!Fechadas /\ historico[f].entradas = v

Prefixo(t) == \A v \in S!Existentes(t) : \A w \in S!Versoes : w < v => w \in S!Existentes(t)

(* The rows: the closed one is the current one, a draft has no guia yet,   *)
(* and the closing and the guia a row names are sealed with its values.    *)
LinhaOK(v) ==
  LET a == apuracoes[v]
  IN  /\ a.status = "AUSENTE" => a = S!Ausente
      /\ a.corrente <=> a.status = "FECHADO"
      /\ a.status = "RASCUNHO" => ~a.guia
      /\ a.fech # 0 => Selado(a.fech, v)
      /\ guias[v] # 0 => Selado(guias[v], v)
      /\ a.corrente => /\ a.fech # 0 /\ a.guia = a.devida
                       /\ a.guia => guias[v] # 0

TabelaOK ==
  /\ Prefixo(apuracoes)
  /\ S!UmRascunho
  /\ \A v, w \in S!Correntes(apuracoes) : v = w

(* What apurar saw, and what its open transaction wrote. *)
ApurarOK(p) ==
  /\ pcSimples[p] \in {"gravar", "confirmarApurar"} => lockSimples = p
  /\ pcSimples[p] \in {"lock", "gravar"} =>
       /\ Prefixo(req[p].visto)
       /\ \A v \in S!Existentes(req[p].visto) :
            /\ v \in S!Existentes(apuracoes)
            /\ v \in S!Rascunhos(apuracoes) => v \in S!Rascunhos(req[p].visto)
  /\ pcSimples[p] = "confirmarApurar" =>
       \E n \in tocadasSimples[p], d \in BOOLEAN :
         /\ n \notin S!Existentes(apuracoes)
         /\ \A w \in S!Versoes : w < n => w \in S!Existentes(apuracoes)
         /\ areaSimples[p][n] = [S!Ausente EXCEPT !.status = "RASCUNHO", !.devida = d]
         /\ \A v \in tocadasSimples[p] \ {n} : v \in S!Rascunhos(apuracoes)
               /\ areaSimples[p][v] = S!Retificada(v)
         /\ S!Rascunhos(apuracoes) \subseteq tocadasSimples[p]

(* What fechar holds at each point, and what its last transaction wrote.   *)
FecharOK(p) ==
  LET a == req[p].alvo
      f == req[p].fech
  IN  /\ pcSimples[p] \in S!PontosFechar => a \in S!Existentes(apuracoes)
      /\ pcSimples[p] \in {"pendente", "revisado", "fecharVersao"} =>
           f \in S!H!Indices /\ historico[f].entradas = a
      /\ pcSimples[p]
           \in {"vincular", "guia", "ler", "desmarcar", "promover", "confirmar"} =>
           f # 0 /\ Selado(f, a)
      /\ pcSimples[p]
           \in {"abrir", "pendente", "revisado", "fecharVersao", "vincular", "guia"} =>
           ~req[p].guia
      /\ pcSimples[p] \in {"ler", "desmarcar", "promover", "confirmar"} =>
           /\ req[p].guia = apuracoes[a].devida
           /\ req[p].guia => guias[a] # 0
      /\ pcSimples[p] = "promover" =>
           \A v \in tocadasSimples[p] : v \in S!Correntes(apuracoes)
              /\ areaSimples[p][v] = S!Retificada(v)
      /\ pcSimples[p] = "confirmar" =>
           /\ a \in tocadasSimples[p] /\ areaSimples[p][a] = S!Promovida(p)
           /\ \A v \in tocadasSimples[p] \ {a} : v \in S!Correntes(apuracoes)
                 /\ areaSimples[p][v] = S!Retificada(v)
           /\ S!Correntes(apuracoes) \subseteq tocadasSimples[p]

(* Only an open transaction holds rows, no two the same, and one alone     *)
(* promotes. *)
TravasOK ==
  /\ \A p \in Procs : tocadasSimples[p] # {}
        => pcSimples[p] \in {"confirmarApurar", "promover", "confirmar"}
  /\ \A p, q \in Procs : p # q =>
       /\ tocadasSimples[p] \cap tocadasSimples[q] = {}
       /\ ~(pcSimples[p] = "confirmar" /\ pcSimples[q] = "confirmar")

SInv ==
  /\ S!TypeOK
  /\ \A v \in S!Versoes : LinhaOK(v)
  /\ TabelaOK
  /\ TravasOK
  /\ \A p \in Procs : ApurarOK(p) /\ FecharOK(p)

LEMMA CamposDoSimples ==
  ASSUME SInv
  PROVE  /\ historico \in Seq(S!H!Versao) /\ apuracoes \in [S!Versoes -> S!Apuracao]
         /\ guias \in [S!Versoes -> 0 .. MaxFech] /\ lockSimples \in Procs \cup {Nada}
         /\ pcSimples \in [Procs -> S!Pontos] /\ req \in [Procs -> S!Requisicao]
         /\ areaSimples \in [Procs -> [S!Versoes -> S!Apuracao]]
         /\ tocadasSimples \in [Procs -> SUBSET S!Versoes]
BY DEF SInv, S!TypeOK

LEMMA Vazios ==
  ASSUME S!SimplesAssumption
  PROVE  /\ S!Ausente \in S!Apuracao /\ S!Ausente.status = "AUSENTE"
         /\ S!Ausente.corrente = FALSE
         /\ S!Ausente.guia = FALSE /\ S!Ausente.fech = 0
         /\ S!TabelaVazia \in [S!Versoes -> S!Apuracao] /\ S!Livre \in S!Requisicao
         /\ S!Versoes \subseteq Nat /\ \A v \in S!Versoes : v # 0
<1>1. S!Ausente \in S!Apuracao
  BY DEF S!SimplesAssumption, S!Ausente, S!Apuracao
<1>2. S!Livre \in S!Requisicao
  BY <1>1 DEF S!SimplesAssumption, S!Livre, S!Requisicao, S!TabelaVazia
<1> QED
  BY <1>1, <1>2 DEF S!Ausente, S!TabelaVazia, S!Versoes, S!SimplesAssumption

(* The rows that one that is replaced, and one that is promoted, become.   *)
LEMMA LinhaRetificada ==
  ASSUME SInv, NEW v \in S!Versoes
  PROVE  /\ S!Retificada(v) \in S!Apuracao /\ S!Retificada(v).status = "RETIFICADO"
         /\ S!Retificada(v).corrente = FALSE /\ S!Retificada(v).devida = apuracoes[v].devida
         /\ S!Retificada(v).fech = apuracoes[v].fech
         /\ S!Retificada(v).guia = apuracoes[v].guia
BY CamposDoSimples DEF S!Retificada, S!Apuracao

LEMMA LinhaPromovida ==
  ASSUME SInv, NEW p \in Procs, req[p].alvo \in S!Versoes
  PROVE  /\ S!Promovida(p) \in S!Apuracao /\ S!Promovida(p).status = "FECHADO"
         /\ S!Promovida(p).corrente = TRUE
         /\ S!Promovida(p).devida = apuracoes[req[p].alvo].devida
         /\ S!Promovida(p).fech = req[p].fech /\ S!Promovida(p).guia = req[p].guia
<1>1. /\ apuracoes[req[p].alvo] \in S!Apuracao /\ req[p].fech \in 0 .. MaxFech
      /\ req[p].guia \in BOOLEAN
  BY CamposDoSimples DEF S!Requisicao
<1> QED
  BY <1>1 DEF S!Promovida, S!Apuracao

(* What a step of the request p makes of its own state. *)
MudaDoSimples(p, ponto, r, a, t) ==
  /\ pcSimples' = [pcSimples EXCEPT ![p] = ponto]
  /\ req' = [req EXCEPT ![p] = r]
  /\ areaSimples' = [areaSimples EXCEPT ![p] = a]
  /\ tocadasSimples' = [tocadasSimples EXCEPT ![p] = t]

LEMMA PassoDoSimples ==
  ASSUME SInv, NEW p \in Procs, NEW ponto \in S!Pontos, NEW r \in S!Requisicao,
         NEW a \in [S!Versoes -> S!Apuracao], NEW t \in SUBSET S!Versoes,
         MudaDoSimples(p, ponto, r, a, t)
  PROVE  /\ pcSimples' \in [Procs -> S!Pontos] /\ req' \in [Procs -> S!Requisicao]
         /\ areaSimples' \in [Procs -> [S!Versoes -> S!Apuracao]]
         /\ tocadasSimples' \in [Procs -> SUBSET S!Versoes]
         /\ pcSimples'[p] = ponto /\ req'[p] = r /\ areaSimples'[p] = a
         /\ tocadasSimples'[p] = t
         /\ \A q \in Procs \ {p} : /\ pcSimples'[q] = pcSimples[q] /\ req'[q] = req[q]
                                   /\ areaSimples'[q] = areaSimples[q]
                                   /\ tocadasSimples'[q] = tocadasSimples[q]
BY CamposDoSimples DEF MudaDoSimples

LEMMA MudaSo ==
  ASSUME SInv, NEW p \in Procs, NEW ponto, S!Ir(p, ponto),
         UNCHANGED <<areaSimples, tocadasSimples>>
  PROVE  /\ \A r : req' = [req EXCEPT ![p] = r]
               => MudaDoSimples(p, ponto, r, areaSimples[p], tocadasSimples[p])
         /\ req' = req => MudaDoSimples(p, ponto, req[p], areaSimples[p], tocadasSimples[p])
<1>1. /\ req = [req EXCEPT ![p] = req[p]]
      /\ areaSimples = [areaSimples EXCEPT ![p] = areaSimples[p]]
      /\ tocadasSimples = [tocadasSimples EXCEPT ![p] = tocadasSimples[p]]
  BY CamposDoSimples
<1> QED
  BY <1>1 DEF S!Ir, MudaDoSimples

(* The closing history and the guias only grow.                            *)
Cresce ==
  /\ historico' \in Seq(S!H!Versao) /\ guias' \in [S!Versoes -> 0 .. MaxFech]
  /\ \A f \in S!H!Indices : f \in S!H!Indices'
        /\ historico'[f].entradas = historico[f].entradas
  /\ S!H!Fechadas \subseteq S!H!Fechadas'
  /\ \A v \in S!Versoes : guias[v] # 0 => guias'[v] = guias[v]

LEMMA Crescimento ==
  ASSUME SInv, Cresce
  PROVE  \A f, v : Selado(f, v) => f \in S!H!Fechadas' /\ historico'[f].entradas = v
BY DEF Cresce, Selado, S!H!Fechadas

(* What the other requests rely on: rows do not disappear nor change their *)
(* values, none becomes a draft again, and those they hold stay.           *)
Estavel(p) ==
  /\ Cresce
  /\ S!Existentes(apuracoes) \subseteq S!Existentes(apuracoes')
  /\ \A v \in S!Existentes(apuracoes) :
       /\ apuracoes'[v].devida = apuracoes[v].devida
       /\ apuracoes'[v].status = "RASCUNHO" => apuracoes[v].status = "RASCUNHO"
  /\ \A q \in Procs \ {p} :
       /\ \A v \in tocadasSimples[q] : apuracoes'[v] = apuracoes[v]
       /\ pcSimples[q] = "confirmarApurar"
             => S!Rascunhos(apuracoes') \subseteq S!Rascunhos(apuracoes)
       /\ pcSimples[q] = "confirmar"
             => S!Correntes(apuracoes') \subseteq S!Correntes(apuracoes)
       /\ lockSimples = q => lockSimples' = q

LEMMA Outros ==
  ASSUME S!SimplesAssumption, SInv, NEW p \in Procs, Estavel(p), NEW q \in Procs \ {p},
         pcSimples'[q] = pcSimples[q], req'[q] = req[q], areaSimples'[q] = areaSimples[q],
         tocadasSimples'[q] = tocadasSimples[q]
  PROVE  ApurarOK(q)' /\ FecharOK(q)'
<1>0. /\ ApurarOK(q) /\ FecharOK(q) /\ tocadasSimples[q] \subseteq S!Versoes
      /\ req[q] \in S!Requisicao
      /\ \A v \in S!Versoes : S!Retificada(v)' = [apuracoes'[v] EXCEPT !.status
          = "RETIFICADO", !.corrente = FALSE]
  BY CamposDoSimples DEF SInv, S!Retificada
<1>1. ApurarOK(q)'
  <2>1. pcSimples[q] \in {"gravar", "confirmarApurar"} => lockSimples' = q
    BY <1>0 DEF ApurarOK, Estavel
  <2>2. pcSimples[q] \in {"lock", "gravar"} =>
          /\ Prefixo(req[q].visto)
          /\ \A v \in S!Existentes(req[q].visto) :
               /\ v \in S!Existentes(apuracoes')
               /\ v \in S!Rascunhos(apuracoes') => v \in S!Rascunhos(req[q].visto)
    BY <1>0 DEF ApurarOK, Estavel, S!Rascunhos
  <2>3. ASSUME pcSimples[q] = "confirmarApurar"
        PROVE  \E n \in tocadasSimples[q], d \in BOOLEAN :
                 /\ n \notin S!Existentes(apuracoes')
                 /\ \A w \in S!Versoes : w < n => w \in S!Existentes(apuracoes')
                 /\ areaSimples[q][n] = [S!Ausente EXCEPT !.status = "RASCUNHO", !.devida
                     = d]
                 /\ \A v \in tocadasSimples[q] \ {n} :
                      v \in S!Rascunhos(apuracoes') /\ areaSimples[q][v] = S!Retificada(v)'
                 /\ S!Rascunhos(apuracoes') \subseteq tocadasSimples[q]
    <3>1. PICK n \in tocadasSimples[q], d \in BOOLEAN :
            /\ n \notin S!Existentes(apuracoes)
            /\ \A w \in S!Versoes : w < n => w \in S!Existentes(apuracoes)
            /\ areaSimples[q][n] = [S!Ausente EXCEPT !.status = "RASCUNHO", !.devida = d]
            /\ \A v \in tocadasSimples[q] \ {n} : v \in S!Rascunhos(apuracoes)
                  /\ areaSimples[q][v] = S!Retificada(v)
            /\ S!Rascunhos(apuracoes) \subseteq tocadasSimples[q]
      BY <1>0, <2>3 DEF ApurarOK
    <3>2. \A v \in tocadasSimples[q] : apuracoes'[v] = apuracoes[v] /\ v \in S!Versoes
      BY <1>0 DEF Estavel
    <3>3. n \notin S!Existentes(apuracoes')
      BY <3>1, <3>2 DEF S!Existentes
    <3>4. \A v \in tocadasSimples[q] \ {n} :
            v \in S!Rascunhos(apuracoes') /\ areaSimples[q][v] = S!Retificada(v)'
      BY <1>0, <3>1, <3>2 DEF S!Rascunhos, S!Retificada
    <3>5. S!Rascunhos(apuracoes') \subseteq tocadasSimples[q]
      BY <2>3, <3>1 DEF Estavel
    <3> QED BY <3>1, <3>3, <3>4, <3>5 DEF Estavel
  <2> QED
    BY <2>1, <2>2, <2>3 DEF ApurarOK
<1>2. FecharOK(q)'
  <2> DEFINE a == req[q].alvo
             f == req[q].fech
  <2>1. pcSimples[q] \in S!PontosFechar =>
          /\ a \in S!Existentes(apuracoes) /\ a \in S!Existentes(apuracoes')
          /\ a \in S!Versoes /\ apuracoes'[a].devida = apuracoes[a].devida
    BY <1>0 DEF FecharOK, Estavel, S!Existentes
  <2>2. pcSimples[q] \in {"pendente", "revisado", "fecharVersao"} =>
           f \in S!H!Indices' /\ historico'[f].entradas = a
    BY <1>0 DEF FecharOK, Estavel, Cresce
  <2>3. pcSimples[q]
       \in {"vincular", "guia", "ler", "desmarcar", "promover", "confirmar"} =>
           f # 0 /\ Selado(f, a)'
    <3>1. ASSUME pcSimples[q] \in {"vincular", "guia", "ler", "desmarcar", "promover",
                 "confirmar"}
          PROVE  f # 0 /\ f \in S!H!Fechadas' /\ historico'[f].entradas = a
      <4>1. f # 0 /\ Selado(f, a)
        BY <1>0, <3>1 DEF FecharOK
      <4> QED BY <4>1, Crescimento DEF Estavel
    <3> QED BY <3>1 DEF Selado
  <2>4. pcSimples[q] \in {"ler", "desmarcar", "promover", "confirmar"} =>
           /\ req[q].guia = apuracoes'[a].devida
           /\ req[q].guia => guias'[a] # 0
    BY <1>0, <2>1 DEF FecharOK, Estavel, Cresce, S!PontosFechar
  <2>5. \A v \in tocadasSimples[q] : v \in S!Correntes(apuracoes)
           /\ areaSimples[q][v] = S!Retificada(v) =>
          v \in S!Correntes(apuracoes') /\ areaSimples[q][v] = S!Retificada(v)'
    BY <1>0 DEF Estavel, S!Correntes, S!Retificada
  <2>6. pcSimples[q] = "confirmar" => /\ a \in tocadasSimples[q]
           /\ areaSimples[q][a] = S!Promovida(q)'
                                      /\ S!Correntes(apuracoes') \subseteq tocadasSimples[q]
    <3>1. pcSimples[q] = "confirmar" => a \in tocadasSimples[q]
             /\ apuracoes'[a] = apuracoes[a]
      BY <1>0 DEF FecharOK, Estavel
    <3>2. pcSimples[q] = "confirmar" => S!Promovida(q)' = S!Promovida(q)
      BY <3>1 DEF S!Promovida
    <3> QED BY <1>0, <3>1, <3>2 DEF FecharOK, Estavel
  <2> QED
    BY <1>0, <2>1, <2>2, <2>3, <2>4, <2>5, <2>6 DEF FecharOK
<1> QED BY <1>1, <1>2

(* What is left to show of a step. *)
LEMMA JuntarS ==
  ASSUME S!SimplesAssumption, SInv, NEW p \in Procs, NEW ponto \in S!Pontos,
         NEW r \in S!Requisicao, NEW a \in [S!Versoes -> S!Apuracao],
         NEW t \in SUBSET S!Versoes,
         MudaDoSimples(p, ponto, r, a, t), Estavel(p),
         apuracoes' \in [S!Versoes -> S!Apuracao], lockSimples' \in Procs \cup {Nada},
         \A v \in S!Versoes : LinhaOK(v)', TabelaOK',
         t # {} => ponto \in {"confirmarApurar", "promover", "confirmar"},
         \A q \in Procs \ {p} : /\ tocadasSimples[q] \cap t = {}
                                /\ ~(ponto = "confirmar" /\ pcSimples[q] = "confirmar"),
         ApurarOK(p)', FecharOK(p)'
  PROVE  SInv'
<1>0. /\ pcSimples' \in [Procs -> S!Pontos] /\ req' \in [Procs -> S!Requisicao]
      /\ areaSimples' \in [Procs -> [S!Versoes -> S!Apuracao]]
      /\ tocadasSimples' \in [Procs -> SUBSET S!Versoes]
      /\ pcSimples'[p] = ponto /\ req'[p] = r /\ areaSimples'[p] = a
      /\ tocadasSimples'[p] = t
      /\ \A q \in Procs \ {p} : /\ pcSimples'[q] = pcSimples[q] /\ req'[q] = req[q]
                                /\ areaSimples'[q] = areaSimples[q]
                                /\ tocadasSimples'[q] = tocadasSimples[q]
  BY PassoDoSimples
<1>1. S!TypeOK'
  BY <1>0 DEF S!TypeOK, Estavel, Cresce
<1>2. TravasOK'
  <2>1. ASSUME NEW q \in Procs, tocadasSimples'[q] # {}
        PROVE  pcSimples'[q] \in {"confirmarApurar", "promover", "confirmar"}
    <3>1. CASE q = p
      BY <2>1, <3>1, <1>0
    <3>2. CASE q # p
      BY <2>1, <3>2, <1>0 DEF SInv, TravasOK
    <3> QED BY <3>1, <3>2
  <2>2. ASSUME NEW q \in Procs, NEW s \in Procs, q # s
        PROVE  /\ tocadasSimples'[q] \cap tocadasSimples'[s] = {}
               /\ ~(pcSimples'[q] = "confirmar" /\ pcSimples'[s] = "confirmar")
    <3>1. CASE q = p
      BY <2>2, <3>1, <1>0
    <3>2. CASE s = p
      BY <2>2, <3>2, <1>0
    <3>3. CASE q # p /\ s # p
      BY <2>2, <3>3, <1>0 DEF SInv, TravasOK
    <3> QED BY <3>1, <3>2, <3>3
  <2> QED BY <2>1, <2>2 DEF TravasOK
<1>3. ASSUME NEW q \in Procs PROVE ApurarOK(q)' /\ FecharOK(q)'
  <2>1. CASE q = p
    BY <2>1
  <2>2. CASE q # p
    BY <2>2, Outros, <1>0
  <2> QED BY <2>1, <2>2
<1> QED
  BY <1>1, <1>2, <1>3 DEF SInv

(* A step that leaves the rows alone. *)
LEMMA MesmaTabela ==
  ASSUME S!SimplesAssumption, SInv, NEW p \in Procs, Cresce, apuracoes' = apuracoes,
         \A v \in S!Versoes : guias[v] = 0 /\ guias'[v] # 0 => Selado(guias[v], v)',
         \A q \in Procs \ {p} : lockSimples = q => lockSimples' = q
  PROVE  /\ Estavel(p) /\ \A v \in S!Versoes : LinhaOK(v)'
         /\ TabelaOK' /\ apuracoes' \in [S!Versoes -> S!Apuracao]
<1>1. Estavel(p)
  BY DEF Estavel
<1>2. ASSUME NEW v \in S!Versoes PROVE LinhaOK(v)'
  <2>1. /\ LinhaOK(v) /\ (guias[v] # 0 => guias'[v] = guias[v])
        /\ \A f, w : Selado(f, w) => f \in S!H!Fechadas' /\ historico'[f].entradas = w
    BY Crescimento DEF SInv, Cresce
  <2>2. guias'[v] # 0 => Selado(guias[v], v)'
    <3>1. CASE guias[v] = 0
      BY <3>1
    <3>2. CASE guias[v] # 0
      BY <2>1, <3>2 DEF LinhaOK, Selado
    <3> QED BY <3>1, <3>2
  <2>3. apuracoes'[v].fech # 0 => Selado(apuracoes[v].fech, v)'
    BY <2>1 DEF LinhaOK, Selado
  <2>4. guias[v] # 0 => guias'[v] # 0
    BY <2>1
  <2> QED
    BY <2>1, <2>2, <2>3, <2>4 DEF LinhaOK
<1>3. TabelaOK'
  BY DEF SInv, TabelaOK, S!UmRascunho
<1> QED
  BY <1>1, <1>2, <1>3, CamposDoSimples

(* Nothing of the closing nor of the guias changes. *)
LEMMA SemFiscal ==
  ASSUME SInv, UNCHANGED S!fiscal
  PROVE  Cresce /\ \A v \in S!Versoes : guias'[v] = guias[v]
BY CamposDoSimples DEF S!fiscal, Cresce, S!H!Indices, S!H!Fechadas

-----------------------------------------------------------------------------
(* The closing of the month. *)

LEMMA AbrirHistoria ==
  ASSUME SInv, NEW e \in S!Versoes, S!H!AbreCom(e), UNCHANGED guias
  PROVE  /\ Cresce
         /\ Len(historico) + 1 \in S!H!Indices'
         /\ historico'[Len(historico) + 1].entradas = e
<1>1. /\ S!H!Rascunho(e, 0) \in S!H!Versao /\ S!H!Rascunho(e, 0).entradas = e
      /\ historico \in Seq(S!H!Versao) /\ Len(historico) \in Nat
  BY CamposDoSimples DEF S!H!Rascunho, S!H!Versao, S!H!Estados
<1>2. historico' = Append(historico, S!H!Rascunho(e, 0))
  BY DEF S!H!AbreCom
<1>3. /\ historico' \in Seq(S!H!Versao) /\ Len(historico') = Len(historico) + 1
      /\ \A i \in 1 .. Len(historico) : historico'[i] = historico[i]
      /\ historico'[Len(historico) + 1] = S!H!Rascunho(e, 0)
  BY <1>1, <1>2
<1> QED
  BY <1>1, <1>3, CamposDoSimples DEF Cresce, S!H!Indices, S!H!Fechadas

LEMMA AvancarHistoria ==
  ASSUME SInv, NEW f \in S!H!Indices, S!H!AvancaVersao(f), UNCHANGED guias
  PROVE  Cresce
<1> DEFINE linha == [historico[f] EXCEPT !.estado = S!H!Sucessor[@]]
<1>1. /\ historico \in Seq(S!H!Versao) /\ f \in 1 .. Len(historico)
      /\ historico[f] \in S!H!Versao /\ historico[f].estado \in {"RASCUNHO", "PENDENTE"}
  BY CamposDoSimples DEF S!H!Indices, S!H!AvancaVersao, S!H!Sucessor
<1>2. S!H!Sucessor[historico[f].estado] \in {"PENDENTE", "REVISADO"}
  BY <1>1 DEF S!H!Sucessor
<1>3. linha \in S!H!Versao /\ linha.entradas = historico[f].entradas
  BY <1>1, <1>2 DEF S!H!Versao, S!H!Estados
<1>4. historico' = [historico EXCEPT ![f] = linha]
  BY <1>1 DEF S!H!AvancaVersao
<1> HIDE DEF linha
<1>5. /\ historico' \in Seq(S!H!Versao) /\ Len(historico') = Len(historico)
      /\ \A i \in 1 .. Len(historico) : historico'[i] = IF i = f THEN linha
            ELSE historico[i]
  BY <1>1, <1>3, <1>4
<1> QED
  BY <1>1, <1>3, <1>5, CamposDoSimples DEF Cresce, S!H!Indices, S!H!Fechadas

LEMMA FecharHistoria ==
  ASSUME SInv, NEW f \in S!H!Indices, S!H!FechaVersao(f), UNCHANGED guias
  PROVE  Cresce /\ f \in S!H!Fechadas'
<1>1. /\ historico \in Seq(S!H!Versao) /\ Len(historico) \in Nat
      /\ \A i \in 1 .. Len(historico) : historico[i] \in S!H!Versao
  BY CamposDoSimples
<1> DEFINE nova(w) == IF w = f
                      THEN [historico[w] EXCEPT !.estado = "FECHADO", !.corrente = TRUE]
                      ELSE [historico[w] EXCEPT !.corrente = FALSE]
<1>2. \A w \in 1 .. Len(historico) :
        /\ nova(w) \in S!H!Versao /\ nova(w).entradas = historico[w].entradas
        /\ nova(w).estado = IF w = f THEN "FECHADO" ELSE historico[w].estado
  BY <1>1 DEF S!H!Versao, S!H!Estados
<1>3. historico' = [w \in 1 .. Len(historico) |-> nova(w)]
  BY DEF S!H!FechaVersao, S!H!Indices
<1> HIDE DEF nova
<1>4. /\ historico' \in Seq(S!H!Versao) /\ Len(historico') = Len(historico)
      /\ \A w \in 1 .. Len(historico) : historico'[w] = nova(w)
  BY <1>1, <1>2, <1>3
<1> QED
  BY <1>2, <1>4, CamposDoSimples DEF Cresce, S!H!Indices, S!H!Fechadas

-----------------------------------------------------------------------------
(* The steps that leave the rows as they are. *)

(* A request outside its transactions holds no row. *)
LEMMA SemLinhas ==
  ASSUME SInv, NEW p \in Procs
  PROVE  /\ pcSimples[p] \notin {"confirmarApurar", "promover", "confirmar"}
               => tocadasSimples[p] = {}
         /\ ApurarOK(p) /\ FecharOK(p) /\ req[p] \in S!Requisicao
         /\ req[p].alvo \in {0} \cup S!Versoes /\ req[p].fech \in 0 .. MaxFech
         /\ areaSimples[p] \in [S!Versoes -> S!Apuracao]
         /\ tocadasSimples[p] \in SUBSET S!Versoes
         /\ \A q \in Procs \ {p} : tocadasSimples[q] \cap tocadasSimples[p] = {}
BY CamposDoSimples DEF SInv, TravasOK, S!Requisicao

LEMMA TerminarS ==
  ASSUME S!SimplesAssumption, SInv, NEW p \in Procs, S!Terminar(p), Estavel(p),
         apuracoes' \in [S!Versoes -> S!Apuracao], \A v \in S!Versoes : LinhaOK(v)',
         TabelaOK'
  PROVE  SInv'
<1>1. MudaDoSimples(p, "ocioso", S!Livre, S!TabelaVazia, {})
  BY DEF S!Terminar, S!Ir, MudaDoSimples
<1>2. /\ S!Livre \in S!Requisicao /\ S!TabelaVazia \in [S!Versoes -> S!Apuracao]
      /\ {} \in SUBSET S!Versoes /\ "ocioso" \in S!Pontos /\ lockSimples' \in Procs
            \cup {Nada}
  BY Vazios, CamposDoSimples DEF S!Pontos, S!Terminar
<1>3. pcSimples'[p] = "ocioso"
  BY <1>1, <1>2, PassoDoSimples
<1>4. ApurarOK(p)' /\ FecharOK(p)'
  BY <1>3 DEF ApurarOK, FecharOK, S!PontosFechar
<1> QED
  BY <1>1, <1>2, <1>4, JuntarS

LEMMA CairS ==
  ASSUME S!SimplesAssumption, SInv, NEW p \in Procs,
         S!GravarConflito(p) \/ S!PromoverConflito(p) \/ S!Cair(p)
  PROVE  SInv' /\ apuracoes' = apuracoes
<1>1. S!Terminar(p) /\ UNCHANGED S!fiscal /\ apuracoes' = apuracoes
  BY DEF S!GravarConflito, S!PromoverConflito, S!Cair
<1>2. \A q \in Procs \ {p} : lockSimples = q => lockSimples' = q
  BY <1>1 DEF S!Terminar
<1>3. Cresce /\ \A v \in S!Versoes : guias'[v] = guias[v]
  BY <1>1, SemFiscal
<1>4. /\ Estavel(p) /\ \A v \in S!Versoes : LinhaOK(v)'
      /\ TabelaOK' /\ apuracoes' \in [S!Versoes -> S!Apuracao]
  BY <1>1, <1>2, <1>3, MesmaTabela
<1> QED
  BY <1>1, <1>4, TerminarS

(* The same, when the request goes on. *)
LEMMA SeguirS ==
  ASSUME S!SimplesAssumption, SInv, NEW p \in Procs, NEW ponto \in S!Pontos,
         NEW r \in S!Requisicao, S!Ir(p, ponto), req' = [req EXCEPT ![p] = r],
         UNCHANGED <<areaSimples, tocadasSimples>>, apuracoes' = apuracoes,
                     tocadasSimples[p] = {},
         ponto # "confirmar", Cresce,
         \A v \in S!Versoes : guias[v] = 0 /\ guias'[v] # 0 => Selado(guias[v], v)',
         lockSimples' \in Procs \cup {Nada}, \A q \in Procs \ {p} : lockSimples = q
            => lockSimples' = q,
         pcSimples'[p] = ponto /\ req'[p] = r => ApurarOK(p)' /\ FecharOK(p)'
  PROVE  SInv'
<1>1. MudaDoSimples(p, ponto, r, areaSimples[p], {})
  BY MudaSo
<1>2. areaSimples[p] \in [S!Versoes -> S!Apuracao] /\ {} \in SUBSET S!Versoes
  BY SemLinhas
<1>3. pcSimples'[p] = ponto /\ req'[p] = r
  BY <1>1, <1>2, PassoDoSimples
<1>4. /\ Estavel(p) /\ \A v \in S!Versoes : LinhaOK(v)'
      /\ TabelaOK' /\ apuracoes' \in [S!Versoes -> S!Apuracao]
  BY MesmaTabela
<1>5. ApurarOK(p)' /\ FecharOK(p)'
  BY <1>3
<1> QED
  BY <1>1, <1>2, <1>4, <1>5, JuntarS

LEMMA PedirLockS ==
  ASSUME S!SimplesAssumption, SInv, NEW p \in Procs, S!PedirLock(p)
  PROVE  SInv'
<1> DEFINE r == [req[p] EXCEPT !.visto = apuracoes]
<1>1. /\ pcSimples[p] = "ocioso" /\ S!Ir(p, "lock")
      /\ req' = [req EXCEPT ![p].visto = apuracoes]
      /\ UNCHANGED S!fiscal /\ UNCHANGED <<areaSimples, tocadasSimples>>
      /\ apuracoes' = apuracoes /\ lockSimples' = lockSimples
  BY DEF S!PedirLock
<1>2. req' = [req EXCEPT ![p] = r]
  BY <1>1
<1>3. r \in S!Requisicao /\ r.visto = apuracoes
  BY CamposDoSimples DEF S!Requisicao
<1>4. /\ tocadasSimples[p] = {} /\ "lock" \in S!Pontos /\ lockSimples' \in Procs \cup {Nada}
      /\ Cresce /\ \A v \in S!Versoes : guias'[v] = guias[v]
  BY <1>1, SemLinhas, SemFiscal, CamposDoSimples DEF S!Pontos, S!PontosApurar
<1> HIDE DEF r
<1>5. ASSUME pcSimples'[p] = "lock", req'[p] = r PROVE ApurarOK(p)' /\ FecharOK(p)'
  <2>1. req'[p].visto = apuracoes /\ apuracoes' = apuracoes /\ Prefixo(apuracoes)
    BY <1>1, <1>3, <1>5 DEF SInv, TabelaOK
  <2>2. Prefixo(req'[p].visto)
    BY <2>1
  <2>3. \A v \in S!Existentes(req'[p].visto) :
          /\ v \in S!Existentes(apuracoes')
          /\ v \in S!Rascunhos(apuracoes') => v \in S!Rascunhos(req'[p].visto)
    BY <2>1
  <2> QED
    BY <1>5, <2>2, <2>3 DEF ApurarOK, FecharOK, S!PontosFechar
<1> QED
  BY <1>1, <1>2, <1>3, <1>4, <1>5, SeguirS

LEMMA ObterLockS ==
  ASSUME S!SimplesAssumption, SInv, NEW p \in Procs, S!ObterLock(p)
  PROVE  SInv'
<1>1. /\ pcSimples[p] = "lock" /\ S!Ir(p, "gravar") /\ req' = req /\ lockSimples = Nada
      /\ lockSimples' = p
      /\ UNCHANGED S!fiscal /\ UNCHANGED <<areaSimples, tocadasSimples>>
      /\ apuracoes' = apuracoes
  BY DEF S!ObterLock
<1>2. req' = [req EXCEPT ![p] = req[p]] /\ req[p] \in S!Requisicao
  BY <1>1, CamposDoSimples
<1>3. /\ tocadasSimples[p] = {} /\ "gravar" \in S!Pontos /\ lockSimples' \in Procs
            \cup {Nada}
      /\ Cresce /\ \A v \in S!Versoes : guias'[v] = guias[v]
      /\ \A q \in Procs \ {p} : lockSimples = q => lockSimples' = q
  BY <1>1, SemLinhas, SemFiscal DEF S!Pontos, S!PontosApurar, S!SimplesAssumption
<1>4. ASSUME pcSimples'[p] = "gravar", req'[p] = req[p] PROVE ApurarOK(p)' /\ FecharOK(p)'
  BY <1>1, <1>4, SemLinhas
     DEF ApurarOK, FecharOK, S!PontosFechar, Prefixo, S!Existentes, S!Rascunhos
<1> QED
  BY <1>1, <1>2, <1>3, <1>4, SeguirS

LEMMA LerApuracaoS ==
  ASSUME S!SimplesAssumption, SInv, NEW p \in Procs, S!LerApuracao(p)
  PROVE  SInv'
<1>1. PICK v \in S!Rascunhos(apuracoes) :
        /\ req' = [req EXCEPT ![p] =
             [S!Livre EXCEPT !.alvo = v, !.fech = apuracoes[v].fech, !.guia
                 = apuracoes[v].guia]]
        /\ S!Ir(p, IF apuracoes[v].fech = 0 THEN "abrir" ELSE "guia")
  BY DEF S!LerApuracao
<1> DEFINE r == [S!Livre EXCEPT !.alvo = v, !.fech = apuracoes[v].fech, !.guia
    = apuracoes[v].guia]
           ponto == IF apuracoes[v].fech = 0 THEN "abrir" ELSE "guia"
<1>2. /\ pcSimples[p] = "ocioso" /\ UNCHANGED S!fiscal
      /\ UNCHANGED <<areaSimples, tocadasSimples>>
      /\ apuracoes' = apuracoes /\ lockSimples' = lockSimples
  BY DEF S!LerApuracao
<1>3. /\ v \in S!Versoes /\ apuracoes[v].status = "RASCUNHO" /\ LinhaOK(v)
      /\ apuracoes[v] \in S!Apuracao
  BY CamposDoSimples DEF S!Rascunhos, SInv
<1>4. /\ r \in S!Requisicao /\ r.alvo = v /\ r.fech = apuracoes[v].fech
      /\ r.guia = apuracoes[v].guia
  BY <1>3, Vazios DEF S!Requisicao, S!Apuracao
<1>5. /\ tocadasSimples[p] = {} /\ ponto \in S!Pontos /\ lockSimples' \in Procs \cup {Nada}
      /\ Cresce /\ \A w \in S!Versoes : guias'[w] = guias[w]
  BY <1>2, SemLinhas, SemFiscal, CamposDoSimples DEF S!Pontos, S!PontosFechar
<1>6. /\ ponto \in {"abrir", "guia"} /\ (ponto = "guia" => r.fech # 0 /\ Selado(r.fech, v))
      /\ v \in S!Existentes(apuracoes) /\ ~r.guia
  BY <1>3, <1>4 DEF LinhaOK, S!Existentes
<1> HIDE DEF r, ponto
<1>7. ASSUME pcSimples'[p] = ponto, req'[p] = r PROVE ApurarOK(p)' /\ FecharOK(p)'
  <2>1. ponto = "guia" => r.fech \in S!H!Fechadas' /\ historico'[r.fech].entradas = v
    BY <1>5, <1>6, Crescimento
  <2> QED
    BY <1>2, <1>4, <1>6, <1>7, <2>1 DEF ApurarOK, FecharOK, S!PontosFechar, Selado
<1>8. S!Ir(p, ponto) /\ req' = [req EXCEPT ![p] = r]
  BY <1>1 DEF r, ponto
<1>9. ponto # "confirmar"
  BY <1>6
<1> QED
  BY <1>2, <1>4, <1>5, <1>7, <1>8, <1>9, SeguirS

LEMMA AbrirS ==
  ASSUME S!SimplesAssumption, SInv, NEW p \in Procs, S!Abrir(p)
  PROVE  SInv'
<1> DEFINE f == Len(historico) + 1
           r == [req[p] EXCEPT !.fech = f]
<1>1. /\ pcSimples[p] = "abrir" /\ S!Ir(p, "pendente") /\ req' = [req EXCEPT ![p].fech = f]
      /\ UNCHANGED <<areaSimples, tocadasSimples>> /\ apuracoes' = apuracoes
      /\ lockSimples' = lockSimples
      /\ guias' = guias /\ S!H!AbreCom(req[p].alvo) /\ Len(historico) < MaxFech
  BY DEF S!Abrir
<1>2. req' = [req EXCEPT ![p] = r]
  BY <1>1
<1>3. /\ tocadasSimples[p] = {} /\ "pendente" \in S!Pontos /\ lockSimples' \in Procs
            \cup {Nada}
      /\ req[p].alvo \in S!Existentes(apuracoes) /\ ~req[p].guia
      /\ req[p].alvo \in S!Versoes
  BY <1>1, SemLinhas, CamposDoSimples DEF S!Pontos, S!PontosFechar, FecharOK, S!Existentes
<1>4. Len(historico) \in Nat
  BY CamposDoSimples
<1>5. f \in 0 .. MaxFech
  BY <1>1, <1>4 DEF S!SimplesAssumption
<1>6. /\ r \in S!Requisicao /\ r.fech = f /\ r.alvo = req[p].alvo /\ r.guia = req[p].guia
  BY <1>5, SemLinhas DEF S!Requisicao
<1>7. Cresce /\ f \in S!H!Indices' /\ historico'[f].entradas = req[p].alvo
  BY <1>1, <1>3, AbrirHistoria
<1> HIDE DEF r, f
<1>8. ASSUME pcSimples'[p] = "pendente", req'[p] = r PROVE ApurarOK(p)' /\ FecharOK(p)'
  BY <1>1, <1>3, <1>6, <1>7, <1>8 DEF ApurarOK, FecharOK, S!PontosFechar
<1> QED
  BY <1>1, <1>2, <1>3, <1>6, <1>7, <1>8, SeguirS

LEMMA TransicionarS ==
  ASSUME S!SimplesAssumption, SInv, NEW p \in Procs, S!Transicionar(p) \/ S!FecharVersao(p)
  PROVE  SInv'
<1> DEFINE f == req[p].fech
           a == req[p].alvo
<1>1. PICK ponto \in {"revisado", "fecharVersao", "vincular"} :
        /\ S!Ir(p, ponto)
        /\ ponto = "vincular" => S!H!FechaVersao(f)
        /\ ponto # "vincular" => S!H!AvancaVersao(f)
  BY DEF S!Transicionar, S!FecharVersao
<1>2. /\ pcSimples[p] \in {"pendente", "revisado", "fecharVersao"} /\ req' = req
      /\ guias' = guias
      /\ UNCHANGED <<areaSimples, tocadasSimples>> /\ apuracoes' = apuracoes
      /\ lockSimples' = lockSimples
  BY DEF S!Transicionar, S!FecharVersao
<1>3. req' = [req EXCEPT ![p] = req[p]] /\ req[p] \in S!Requisicao
  BY <1>2, CamposDoSimples
<1>4. /\ tocadasSimples[p] = {} /\ ponto \in S!Pontos /\ lockSimples' \in Procs \cup {Nada}
      /\ a \in S!Existentes(apuracoes) /\ ~req[p].guia
      /\ f \in S!H!Indices /\ historico[f].entradas = a
  BY <1>2, SemLinhas, CamposDoSimples DEF S!Pontos, S!PontosFechar, FecharOK
<1>5. Cresce /\ (ponto = "vincular" => f \in S!H!Fechadas')
  BY <1>1, <1>2, <1>4, AvancarHistoria, FecharHistoria
<1>6. f # 0 /\ f \in S!H!Indices' /\ historico'[f].entradas = a
  BY <1>4, <1>5, CamposDoSimples DEF Cresce, S!H!Indices
<1>7. ASSUME pcSimples'[p] = ponto, req'[p] = req[p] PROVE ApurarOK(p)' /\ FecharOK(p)'
  BY <1>2, <1>4, <1>5, <1>6, <1>7 DEF ApurarOK, FecharOK, S!PontosFechar, Selado
<1>8. ponto # "confirmar"
  OBVIOUS
<1> QED
  BY <1>1, <1>2, <1>3, <1>4, <1>5, <1>7, <1>8, SeguirS

LEMMA VincularS ==
  ASSUME S!SimplesAssumption, SInv, NEW p \in Procs, S!Vincular(p)
  PROVE  SInv'
<1> DEFINE f == req[p].fech
           a == req[p].alvo
           linha == [apuracoes[a] EXCEPT !.fech = f]
<1>1. /\ pcSimples[p] = "vincular" /\ ~S!Travada(p, a) /\ S!Ir(p, "guia") /\ req' = req
      /\ apuracoes' = [apuracoes EXCEPT ![a].fech = f] /\ UNCHANGED S!fiscal
      /\ lockSimples' = lockSimples
      /\ UNCHANGED <<areaSimples, tocadasSimples>>
  BY DEF S!Vincular
<1>2. /\ tocadasSimples[p] = {} /\ "guia" \in S!Pontos /\ lockSimples' \in Procs \cup {Nada}
      /\ a \in S!Existentes(apuracoes) /\ a \in S!Versoes /\ ~req[p].guia
      /\ f # 0 /\ Selado(f, a) /\ f \in 0 .. MaxFech /\ req[p] \in S!Requisicao
      /\ areaSimples[p] \in [S!Versoes -> S!Apuracao] /\ {} \in SUBSET S!Versoes
  BY <1>1, SemLinhas, CamposDoSimples DEF S!Pontos, S!PontosFechar, FecharOK, S!Existentes
<1>3. /\ linha \in S!Apuracao /\ linha.fech = f /\ linha.status = apuracoes[a].status
      /\ linha.corrente = apuracoes[a].corrente /\ linha.devida = apuracoes[a].devida
      /\ linha.guia = apuracoes[a].guia
  <2>1. apuracoes[a] \in S!Apuracao
    BY <1>2, CamposDoSimples
  <2> QED
    BY <1>2, <2>1 DEF S!Apuracao
<1>4. apuracoes' = [apuracoes EXCEPT ![a] = linha]
  BY <1>1
<1> HIDE DEF linha
<1>5. /\ apuracoes' \in [S!Versoes -> S!Apuracao]
      /\ \A v \in S!Versoes : apuracoes'[v] = IF v = a THEN linha ELSE apuracoes[v]
  BY <1>2, <1>3, <1>4, CamposDoSimples
<1>6. \A v \in S!Versoes : /\ apuracoes'[v].status = apuracoes[v].status
                           /\ apuracoes'[v].corrente = apuracoes[v].corrente
                           /\ apuracoes'[v].devida = apuracoes[v].devida
                           /\ apuracoes'[v].guia = apuracoes[v].guia
                           /\ apuracoes'[v].fech = IF v = a THEN f ELSE apuracoes[v].fech
  BY <1>3, <1>5
<1>7. /\ S!Existentes(apuracoes') = S!Existentes(apuracoes)
      /\ S!Rascunhos(apuracoes') = S!Rascunhos(apuracoes)
      /\ S!Correntes(apuracoes') = S!Correntes(apuracoes)
  BY <1>6 DEF S!Existentes, S!Rascunhos, S!Correntes
<1>8. Cresce /\ \A v \in S!Versoes : guias'[v] = guias[v]
  BY <1>1, SemFiscal
<1>9. Estavel(p)
  <2>1. \A q \in Procs \ {p} : \A v \in tocadasSimples[q] : v # a /\ v \in S!Versoes
    BY <1>1, CamposDoSimples DEF S!Travada
  <2>2. \A q \in Procs \ {p} : \A v \in tocadasSimples[q] : apuracoes'[v] = apuracoes[v]
    BY <1>5, <2>1
  <2> QED
    BY <1>1, <1>6, <1>7, <1>8, <2>2 DEF Estavel, S!Existentes
<1>10. ASSUME NEW v \in S!Versoes PROVE LinhaOK(v)'
  <2>1. /\ LinhaOK(v)
        /\ \A g, w : Selado(g, w) => g \in S!H!Fechadas' /\ historico'[g].entradas = w
    BY <1>8, Crescimento DEF SInv
  <2>2. CASE v = a
    <3>1. apuracoes[v].status # "AUSENTE"
      BY <1>2, <2>2 DEF S!Existentes
    <3>2. f \in S!H!Fechadas' /\ historico'[f].entradas = v
      BY <1>2, <2>1, <2>2
    <3>3. guias[v] # 0 => guias[v] \in S!H!Fechadas' /\ historico'[guias[v]].entradas = v
      BY <2>1 DEF LinhaOK
    <3> QED
      BY <1>2, <1>6, <1>8, <2>1, <2>2, <3>1, <3>2, <3>3 DEF LinhaOK, Selado
  <2>3. CASE v # a
    <3>1. guias[v] # 0 => guias[v] \in S!H!Fechadas' /\ historico'[guias[v]].entradas = v
      BY <2>1 DEF LinhaOK
    <3>2. apuracoes[v].fech # 0 =>
            apuracoes[v].fech \in S!H!Fechadas'
               /\ historico'[apuracoes[v].fech].entradas = v
      BY <2>1 DEF LinhaOK
    <3>3. apuracoes'[v] = apuracoes[v] /\ guias'[v] = guias[v]
      BY <1>5, <1>8, <2>3
    <3> QED
      BY <2>1, <3>1, <3>2, <3>3 DEF LinhaOK, Selado
  <2> QED BY <2>2, <2>3
<1>11. TabelaOK'
  BY <1>7 DEF SInv, TabelaOK, Prefixo, S!UmRascunho
<1>12. MudaDoSimples(p, "guia", req[p], areaSimples[p], {})
  BY <1>1, <1>2, MudaSo
<1>13. pcSimples'[p] = "guia" /\ req'[p] = req[p]
  BY <1>2, <1>12, PassoDoSimples
<1>14. ApurarOK(p)' /\ FecharOK(p)'
  <2>1. f \in S!H!Fechadas' /\ historico'[f].entradas = a
    BY <1>2, <1>8, Crescimento
  <2> QED
    BY <1>2, <1>7, <1>13, <2>1 DEF ApurarOK, FecharOK, S!PontosFechar, Selado
<1>15. \A q \in Procs \ {p} : tocadasSimples[q] \cap {} = {} /\ ~("guia" = "confirmar"
          /\ pcSimples[q] = "confirmar")
  OBVIOUS
<1> QED
  BY <1>2, <1>5, <1>9, <1>10, <1>11, <1>12, <1>14, <1>15, JuntarS

LEMMA CriarGuiaS ==
  ASSUME S!SimplesAssumption, SInv, NEW p \in Procs, S!CriarGuia(p)
  PROVE  SInv'
<1> DEFINE f == req[p].fech
           a == req[p].alvo
<1>1. /\ pcSimples[p] = "guia" /\ S!Ir(p, "ler") /\ historico' = historico
      /\ UNCHANGED <<areaSimples, tocadasSimples>> /\ apuracoes' = apuracoes
      /\ lockSimples' = lockSimples
  BY DEF S!CriarGuia
<1>2. /\ tocadasSimples[p] = {} /\ "ler" \in S!Pontos /\ lockSimples' \in Procs \cup {Nada}
      /\ a \in S!Existentes(apuracoes) /\ a \in S!Versoes /\ req[p].guia = FALSE
      /\ f # 0 /\ Selado(f, a) /\ f \in 0 .. MaxFech /\ req[p] \in S!Requisicao
  BY <1>1, SemLinhas, CamposDoSimples
     DEF S!Pontos, S!PontosFechar, FecharOK, S!Existentes, S!Requisicao
<1>3. PICK r \in S!Requisicao :
        /\ req' = [req EXCEPT ![p] = r] /\ r.alvo = a /\ r.fech = f
        /\ r.guia = apuracoes[a].devida
        /\ guias' \in [S!Versoes -> 0 .. MaxFech]
        /\ \A v \in S!Versoes : guias[v] # 0 => guias'[v] = guias[v]
        /\ \A v \in S!Versoes : guias[v] = 0 /\ guias'[v] # 0 => v = a /\ guias'[v] = f
        /\ r.guia => guias'[a] # 0
  <2>1. CASE apuracoes[a].devida
    <3> DEFINE r == [req[p] EXCEPT !.guia = TRUE]
    <3>1. /\ r \in S!Requisicao /\ r.alvo = a /\ r.fech = f /\ r.guia = TRUE
      BY <1>2 DEF S!Requisicao
    <3>2. /\ guias' = [guias EXCEPT ![a] = IF @ = 0 THEN f ELSE @]
          /\ req' = [req EXCEPT ![p].guia = TRUE]
      BY <1>2, <2>1 DEF S!CriarGuia
    <3>3. req' = [req EXCEPT ![p] = r]
      BY <3>2
    <3>4. /\ guias' \in [S!Versoes -> 0 .. MaxFech]
          /\ \A v \in S!Versoes : guias'[v] = IF v = a /\ guias[v] = 0 THEN f ELSE guias[v]
      BY <1>2, <3>2, CamposDoSimples
    <3>5. apuracoes[a].devida = TRUE
      BY <1>2, <2>1, CamposDoSimples DEF S!Apuracao
    <3> HIDE DEF r
    <3> QED BY <1>2, <3>1, <3>3, <3>4, <3>5
  <2>2. CASE ~apuracoes[a].devida
    <3>1. UNCHANGED <<guias, req>>
      BY <1>2, <2>2 DEF S!CriarGuia
    <3>2. req' = [req EXCEPT ![p] = req[p]]
      BY <3>1, CamposDoSimples
    <3>3. apuracoes[a].devida = FALSE
      BY <1>2, <2>2, CamposDoSimples DEF S!Apuracao
    <3> QED BY <1>2, <3>1, <3>2, <3>3, CamposDoSimples
  <2> QED BY <2>1, <2>2
<1>4. Cresce
  BY <1>1, <1>3, CamposDoSimples DEF Cresce, S!H!Indices, S!H!Fechadas
<1>5. f \in S!H!Fechadas' /\ historico'[f].entradas = a
  BY <1>2, <1>4, Crescimento
<1>6. \A v \in S!Versoes : guias[v] = 0 /\ guias'[v] # 0 => Selado(guias[v], v)'
  BY <1>3, <1>5 DEF Selado
<1>7. ASSUME pcSimples'[p] = "ler", req'[p] = r PROVE ApurarOK(p)' /\ FecharOK(p)'
  BY <1>1, <1>2, <1>3, <1>5, <1>7 DEF ApurarOK, FecharOK, S!PontosFechar, Selado
<1> QED
  BY <1>1, <1>2, <1>3, <1>4, <1>6, <1>7, SeguirS

LEMMA LerS ==
  ASSUME S!SimplesAssumption, SInv, NEW p \in Procs, S!Ler(p)
  PROVE  SInv'
<1> DEFINE r == [req[p] EXCEPT !.visto = apuracoes]
<1>1. /\ pcSimples[p] = "ler" /\ S!Ir(p, "desmarcar")
      /\ req' = [req EXCEPT ![p].visto = apuracoes]
      /\ UNCHANGED S!fiscal /\ UNCHANGED <<areaSimples, tocadasSimples>>
      /\ apuracoes' = apuracoes /\ lockSimples' = lockSimples
  BY DEF S!Ler
<1>2. req' = [req EXCEPT ![p] = r]
  BY <1>1
<1>3. /\ r \in S!Requisicao /\ r.alvo = req[p].alvo /\ r.fech = req[p].fech
      /\ r.guia = req[p].guia
  BY CamposDoSimples DEF S!Requisicao
<1>4. /\ tocadasSimples[p] = {} /\ "desmarcar" \in S!Pontos /\ lockSimples' \in Procs
            \cup {Nada}
      /\ Cresce /\ \A v \in S!Versoes : guias'[v] = guias[v] /\ FecharOK(p)
      /\ req[p].alvo \in S!Versoes
  BY <1>1, SemLinhas, SemFiscal, CamposDoSimples
     DEF S!Pontos, S!PontosFechar, FecharOK, S!Existentes
<1> HIDE DEF r
<1>5. ASSUME pcSimples'[p] = "desmarcar", req'[p] = r PROVE ApurarOK(p)' /\ FecharOK(p)'
  <2>1. r.fech # 0 /\ Selado(r.fech, r.alvo)
    BY <1>1, <1>3, <1>4, SemLinhas DEF FecharOK
  <2>2. r.fech \in S!H!Fechadas' /\ historico'[r.fech].entradas = r.alvo
    BY <1>4, <2>1, Crescimento
  <2>3. /\ r.alvo \in S!Existentes(apuracoes) /\ r.guia = apuracoes[r.alvo].devida
        /\ r.guia => guias'[r.alvo] # 0
    BY <1>1, <1>3, <1>4 DEF FecharOK, S!PontosFechar
  <2> QED
    BY <1>1, <1>3, <1>4, <1>5, <2>1, <2>2, <2>3
       DEF ApurarOK, FecharOK, S!PontosFechar, Selado
<1> QED
  BY <1>1, <1>2, <1>3, <1>4, <1>5, SeguirS

-----------------------------------------------------------------------------
(* The transactions. *)

(* The version of a new apuracao: the first one the snapshot does not have. *)
LEMMA ProximaVersaoDoSimples ==
  ASSUME S!SimplesAssumption, SInv, NEW p \in Procs, Prefixo(req[p].visto)
  PROVE  LET n == S!Proxima(p)
         IN  /\ n \in 1 .. MaxVersaoSimples + 1 /\ n \notin S!Existentes(req[p].visto)
             /\ \A w \in S!Versoes : w < n => w \in S!Existentes(req[p].visto)
<1> DEFINE E == S!Existentes(req[p].visto)
           Livres == {v \in 1 .. MaxVersaoSimples + 1 : v \notin E}
<1>1. MaxVersaoSimples \in Nat /\ S!Versoes = 1 .. MaxVersaoSimples /\ E \subseteq S!Versoes
  BY DEF S!SimplesAssumption, S!Versoes, S!Existentes
<1>2. \A v \in E : \A w \in S!Versoes : w < v => w \in E
  BY DEF Prefixo
<1> HIDE DEF E
<1>3. MaxVersaoSimples + 1 \in Livres /\ Livres \subseteq Nat /\ Livres # {}
  BY <1>1
<1>4. PICK n \in Livres : \A m \in Livres : n <= m
  <2> HIDE DEF Livres
  <2> QED BY <1>3, MenorNumero
<1>5. \A w \in S!Versoes : w < n => w \in E
  BY <1>1, <1>4
<1>6. /\ n \in 1 .. MaxVersaoSimples + 1
      /\ n = 1 \/ n - 1 \in E
      /\ \A w \in E : w < n
  <2>1. n = 1 \/ n - 1 \in E
    BY <1>1, <1>4, <1>5
  <2>2. ASSUME NEW w \in E PROVE w < n
    BY <1>1, <1>2, <1>4, <2>2
  <2> QED BY <1>4, <2>1, <2>2
<1>7. /\ S!Proxima(p) \in 1 .. MaxVersaoSimples + 1
      /\ S!Proxima(p) = 1 \/ S!Proxima(p) - 1 \in E
      /\ \A w \in E : w < S!Proxima(p)
  BY <1>6 DEF S!Proxima, E
<1>8. S!Proxima(p) \notin E
  BY <1>1, <1>7
<1>9. ASSUME NEW w \in S!Versoes, w < S!Proxima(p) PROVE w \in E
  <2>1. CASE S!Proxima(p) = 1
    BY <1>1, <1>9, <2>1
  <2>2. CASE S!Proxima(p) - 1 \in E
    BY <1>1, <1>2, <1>7, <1>9, <2>2
  <2> QED BY <1>7, <2>1, <2>2
<1> QED
  BY <1>7, <1>8, <1>9 DEF E

LEMMA GravarS ==
  ASSUME S!SimplesAssumption, SInv, NEW p \in Procs, S!Gravar(p)
  PROVE  SInv'
<1> DEFINE n == S!Proxima(p)
           velhos == S!Superadas(p)
<1>1. /\ pcSimples[p] = "gravar" /\ ~S!Conflito(p) /\ n \in S!Versoes
      /\ \A v \in velhos : ~S!Travada(p, v)
      /\ S!Ir(p, "confirmarApurar") /\ UNCHANGED S!fiscal /\ apuracoes' = apuracoes
      /\ lockSimples' = lockSimples /\ req' = req
      /\ tocadasSimples' = [tocadasSimples EXCEPT ![p] = velhos \cup {n}]
  BY DEF S!Gravar
<1>2. /\ lockSimples = p /\ Prefixo(req[p].visto) /\ req[p] \in S!Requisicao
      /\ \A v \in S!Existentes(req[p].visto) :
           /\ v \in S!Existentes(apuracoes)
           /\ v \in S!Rascunhos(apuracoes) => v \in S!Rascunhos(req[p].visto)
  BY <1>1, SemLinhas DEF ApurarOK
<1>3. /\ n \notin S!Existentes(apuracoes)
      /\ \A w \in S!Versoes : w < n => w \in S!Existentes(apuracoes)
  BY <1>1, <1>2, ProximaVersaoDoSimples DEF S!Conflito
<1>4. S!Rascunhos(apuracoes) \subseteq velhos
  <2>1. ASSUME NEW v \in S!Rascunhos(apuracoes) PROVE v \in velhos
    <3>1. v \in S!Versoes /\ v \in S!Existentes(apuracoes) /\ v \in Nat /\ n \in Nat
      BY <1>1 DEF S!Rascunhos, S!Existentes, S!Versoes, S!SimplesAssumption
    <3>2. v < n
      <4>1. CASE n < v
        BY <1>1, <1>3, <3>1, <4>1 DEF SInv, TabelaOK, Prefixo
      <4>2. CASE n = v
        BY <1>3, <3>1, <4>2
      <4> QED BY <3>1, <4>1, <4>2
    <3>3. v \in S!Existentes(req[p].visto)
      BY <1>2, <3>1, <3>2, ProximaVersaoDoSimples
    <3> QED BY <1>2, <3>3 DEF S!Superadas
  <2> QED BY <2>1
<1>5. \A v \in velhos : v \in S!Versoes /\ v \in S!Rascunhos(apuracoes) /\ v # n
  <2>1. ASSUME NEW v \in velhos
        PROVE v \in S!Versoes /\ v \in S!Rascunhos(apuracoes) /\ v # n
    <3>1. v \in S!Versoes /\ req[p].visto[v].status = "RASCUNHO"
             /\ apuracoes[v] = req[p].visto[v]
      BY <1>1 DEF S!Superadas, S!Rascunhos, S!Conflito
    <3> QED BY <1>3, <3>1 DEF S!Rascunhos, S!Existentes
  <2> QED BY <2>1
<1>6. PICK d \in BOOLEAN : areaSimples' = [areaSimples EXCEPT ![p] =
        [v \in S!Versoes |->
           IF v = n THEN [S!Ausente EXCEPT !.status = "RASCUNHO", !.devida = d]
           ELSE IF v \in velhos THEN S!Retificada(v) ELSE S!Ausente]]
  BY DEF S!Gravar
<1> DEFINE nova == [S!Ausente EXCEPT !.status = "RASCUNHO", !.devida = d]
           a == [v \in S!Versoes |->
                   IF v = n THEN nova ELSE IF v \in velhos THEN S!Retificada(v)
                      ELSE S!Ausente]
<1>7. nova \in S!Apuracao
  BY Vazios DEF S!Apuracao
<1>8. /\ a \in [S!Versoes -> S!Apuracao] /\ a[n] = nova
      /\ \A v \in velhos : a[v] = S!Retificada(v)
  <2> HIDE DEF nova
  <2> QED BY <1>1, <1>5, <1>7, LinhaRetificada, Vazios
<1>9. /\ Cresce /\ \A v \in S!Versoes : guias'[v] = guias[v]
      /\ velhos \cup {n} \in SUBSET S!Versoes /\ "confirmarApurar" \in S!Pontos
      /\ lockSimples' \in Procs \cup {Nada}
  BY <1>1, <1>5, SemFiscal, CamposDoSimples DEF S!Pontos, S!PontosApurar
<1>10. /\ Estavel(p) /\ \A v \in S!Versoes : LinhaOK(v)'
       /\ TabelaOK' /\ apuracoes' \in [S!Versoes -> S!Apuracao]
  BY <1>1, <1>9, MesmaTabela
<1>11. MudaDoSimples(p, "confirmarApurar", req[p], a, velhos \cup {n})
  <2>1. req' = [req EXCEPT ![p] = req[p]]
    BY <1>1, CamposDoSimples
  <2> QED
    BY <1>1, <1>6, <2>1 DEF MudaDoSimples, S!Ir
<1>12. ASSUME NEW q \in Procs \ {p}
       PROVE  tocadasSimples[q] \cap (velhos \cup {n}) = {}
  <2>1. \A v \in velhos : v \notin tocadasSimples[q]
    BY <1>1 DEF S!Travada
  <2>2. pcSimples[q] # "confirmarApurar"
    BY <1>2, SemLinhas DEF ApurarOK
  <2>3. \A v \in tocadasSimples[q] : v \in S!Existentes(apuracoes)
    <3>1. ASSUME NEW v \in tocadasSimples[q] PROVE v \in S!Existentes(apuracoes)
      <4>1. v \in S!Versoes /\ pcSimples[q] \in {"promover", "confirmar"}
        BY <2>2, <3>1, SemLinhas
      <4>2. v = req[q].alvo \/ v \in S!Correntes(apuracoes)
        BY <4>1, SemLinhas DEF FecharOK
      <4>3. req[q].alvo \in S!Existentes(apuracoes)
        BY <4>1, SemLinhas DEF FecharOK, S!PontosFechar
      <4>4. v \in S!Correntes(apuracoes) => v \in S!Existentes(apuracoes)
        BY <4>1 DEF SInv, LinhaOK, S!Correntes, S!Existentes
      <4> QED BY <4>2, <4>3, <4>4
    <3> QED BY <3>1
  <2> QED BY <1>3, <2>1, <2>3
<1> HIDE DEF a
<1>13. /\ pcSimples'[p] = "confirmarApurar" /\ req'[p] = req[p] /\ areaSimples'[p] = a
       /\ tocadasSimples'[p] = velhos \cup {n}
  BY <1>2, <1>8, <1>9, <1>11, PassoDoSimples
<1>14. ApurarOK(p)' /\ FecharOK(p)'
  <2>1. \A v \in (velhos \cup {n}) \ {n} :
          v \in S!Rascunhos(apuracoes') /\ areaSimples'[p][v] = S!Retificada(v)'
    BY <1>1, <1>5, <1>8, <1>13 DEF S!Retificada
  <2>2. /\ n \in tocadasSimples'[p] /\ n \notin S!Existentes(apuracoes')
        /\ \A w \in S!Versoes : w < n => w \in S!Existentes(apuracoes')
        /\ areaSimples'[p][n] = [S!Ausente EXCEPT !.status = "RASCUNHO", !.devida = d]
        /\ S!Rascunhos(apuracoes') \subseteq tocadasSimples'[p]
    BY <1>1, <1>3, <1>4, <1>8, <1>13
  <2>3. lockSimples' = p
    BY <1>1, <1>2
  <2> HIDE DEF n, velhos
  <2>4. \E m \in tocadasSimples'[p], e \in BOOLEAN :
         /\ m \notin S!Existentes(apuracoes')
         /\ \A w \in S!Versoes : w < m => w \in S!Existentes(apuracoes')
         /\ areaSimples'[p][m] = [S!Ausente EXCEPT !.status = "RASCUNHO", !.devida = e]
         /\ \A v \in tocadasSimples'[p] \ {m} : v \in S!Rascunhos(apuracoes')
               /\ areaSimples'[p][v] = S!Retificada(v)'
         /\ S!Rascunhos(apuracoes') \subseteq tocadasSimples'[p]
    BY <1>13, <2>1, <2>2
  <2> QED
    BY <1>13, <2>3, <2>4 DEF ApurarOK, FecharOK, S!PontosFechar
<1> QED
  BY <1>2, <1>8, <1>9, <1>10, <1>11, <1>12, <1>14, JuntarS

LEMMA DesmarcarS ==
  ASSUME S!SimplesAssumption, SInv, NEW p \in Procs, S!Desmarcar(p)
  PROVE  SInv'
<1> DEFINE V == S!Correntes(req[p].visto)
           t == V \cap S!Correntes(apuracoes)
           a == [v \in S!Versoes |-> IF v \in t THEN S!Retificada(v) ELSE S!Ausente]
<1>1. /\ pcSimples[p] = "desmarcar" /\ \A v \in V : ~S!Travada(p, v)
      /\ tocadasSimples' = [tocadasSimples EXCEPT ![p] = t] /\ S!Ir(p, "promover")
      /\ UNCHANGED S!fiscal /\ apuracoes' = apuracoes /\ lockSimples' = lockSimples
      /\ req' = req
      /\ areaSimples' = [areaSimples EXCEPT ![p] =
           [v \in S!Versoes |-> IF v \in tocadasSimples'[p] THEN S!Retificada(v)
              ELSE S!Ausente]]
  BY DEF S!Desmarcar
<1>2. /\ tocadasSimples'[p] = t /\ t \in SUBSET S!Versoes /\ "promover" \in S!Pontos
      /\ req[p] \in S!Requisicao /\ lockSimples' \in Procs \cup {Nada}
      /\ req' = [req EXCEPT ![p] = req[p]]
  BY <1>1, CamposDoSimples DEF S!Correntes, S!Pontos, S!PontosFechar
<1>3. a \in [S!Versoes -> S!Apuracao] /\ \A v \in t : a[v] = S!Retificada(v)
  <2> HIDE DEF t
  <2> QED BY <1>2, LinhaRetificada, Vazios
<1>4. MudaDoSimples(p, "promover", req[p], a, t)
  BY <1>1, <1>2 DEF MudaDoSimples, S!Ir
<1>5. Cresce /\ \A v \in S!Versoes : guias'[v] = guias[v]
  BY <1>1, SemFiscal
<1>6. /\ Estavel(p) /\ \A v \in S!Versoes : LinhaOK(v)'
      /\ TabelaOK' /\ apuracoes' \in [S!Versoes -> S!Apuracao]
  BY <1>1, <1>5, MesmaTabela
<1>7. \A q \in Procs \ {p} : tocadasSimples[q] \cap t = {}
  BY <1>1 DEF S!Travada
<1>8. \A v \in t : v \in S!Correntes(apuracoes)
  OBVIOUS
<1> HIDE DEF a, t
<1>9. pcSimples'[p] = "promover" /\ req'[p] = req[p] /\ areaSimples'[p] = a
         /\ tocadasSimples'[p] = t
  BY <1>2, <1>3, <1>4, PassoDoSimples
<1>10. ApurarOK(p)' /\ FecharOK(p)'
  <2>1. /\ req[p].fech # 0 /\ Selado(req[p].fech, req[p].alvo)
        /\ req[p].alvo \in S!Existentes(apuracoes) /\ req[p].alvo \in S!Versoes
        /\ req[p].guia = apuracoes[req[p].alvo].devida
        /\ req[p].guia => guias[req[p].alvo] # 0
    BY <1>1, SemLinhas DEF FecharOK, S!PontosFechar, S!Existentes
  <2>2. req[p].fech \in S!H!Fechadas' /\ historico'[req[p].fech].entradas = req[p].alvo
    BY <1>5, <2>1, Crescimento
  <2>3. \A v \in tocadasSimples'[p] : v \in S!Correntes(apuracoes')
           /\ areaSimples'[p][v] = S!Retificada(v)'
    BY <1>1, <1>2, <1>3, <1>8, <1>9 DEF S!Retificada
  <2>4. FecharOK(p)'
    BY <1>1, <1>5, <1>9, <2>1, <2>2, <2>3 DEF FecharOK, S!PontosFechar, Selado
  <2> QED
    BY <1>9, <2>4 DEF ApurarOK
<1> QED
  BY <1>2, <1>3, <1>4, <1>6, <1>7, <1>10, JuntarS

LEMMA PromoverS ==
  ASSUME S!SimplesAssumption, SInv, NEW p \in Procs, S!Promover(p)
  PROVE  SInv'
<1> DEFINE v == req[p].alvo
           a == [areaSimples[p] EXCEPT ![v] = S!Promovida(p)]
           t == tocadasSimples[p] \cup {v}
<1>1. /\ pcSimples[p] = "promover" /\ ~S!Travada(p, v) /\ ~S!EsperaIndice(p) /\ ~S!Colide(p)
      /\ S!Ir(p, "confirmar") /\ UNCHANGED S!fiscal /\ apuracoes' = apuracoes
      /\ lockSimples' = lockSimples
      /\ req' = req
      /\ areaSimples' = [areaSimples EXCEPT ![p][v] = S!Promovida(p)]
      /\ tocadasSimples' = [tocadasSimples EXCEPT ![p] = @ \cup {v}]
  BY DEF S!Promover
<1>2. /\ req[p].fech # 0 /\ Selado(req[p].fech, v)
      /\ v \in S!Existentes(apuracoes) /\ v \in S!Versoes
      /\ req[p].guia = apuracoes[v].devida
      /\ req[p].guia => guias[v] # 0
      /\ \A w \in tocadasSimples[p] : w \in S!Correntes(apuracoes)
            /\ areaSimples[p][w] = S!Retificada(w)
  BY <1>1, SemLinhas DEF FecharOK, S!PontosFechar, S!Existentes
<1>3. /\ t \in SUBSET S!Versoes /\ "confirmar" \in S!Pontos /\ req[p] \in S!Requisicao
      /\ lockSimples' \in Procs \cup {Nada} /\ req' = [req EXCEPT ![p] = req[p]]
  BY <1>1, <1>2, CamposDoSimples DEF S!Pontos, S!PontosFechar
<1>4. /\ a \in [S!Versoes -> S!Apuracao] /\ a[v] = S!Promovida(p)
      /\ \A w \in tocadasSimples[p] \ {v} : a[w] = S!Retificada(w)
  BY <1>2, LinhaPromovida, CamposDoSimples
<1>5. MudaDoSimples(p, "confirmar", req[p], a, t)
  <2>1. /\ areaSimples' = [areaSimples EXCEPT ![p] = a]
        /\ tocadasSimples' = [tocadasSimples EXCEPT ![p] = t]
    BY <1>1
  <2> QED BY <1>1, <1>3, <2>1 DEF MudaDoSimples, S!Ir
<1>6. Cresce /\ \A w \in S!Versoes : guias'[w] = guias[w]
  BY <1>1, SemFiscal
<1>7. /\ Estavel(p) /\ \A w \in S!Versoes : LinhaOK(w)'
      /\ TabelaOK' /\ apuracoes' \in [S!Versoes -> S!Apuracao]
  BY <1>1, <1>6, MesmaTabela
<1>8. ASSUME NEW q \in Procs \ {p}
      PROVE  tocadasSimples[q] \cap t = {} /\ pcSimples[q] # "confirmar"
  <2>1. tocadasSimples[q] \cap t = {}
    BY <1>1, SemLinhas DEF S!Travada
  <2>2. ASSUME pcSimples[q] = "confirmar" PROVE FALSE
    <3>1. /\ req[q].alvo \in tocadasSimples[q]
          /\ areaSimples[q][req[q].alvo] = S!Promovida(q)
          /\ req[q].alvo \in S!Versoes
      BY <2>2, SemLinhas DEF FecharOK
    <3>2. areaSimples[q][req[q].alvo].corrente
      BY <3>1, LinhaPromovida
    <3> QED BY <1>1, <3>1, <3>2 DEF S!EsperaIndice
  <2> QED BY <2>1, <2>2
<1>9. S!Correntes(apuracoes) \subseteq t
  BY <1>1 DEF S!Colide
<1> HIDE DEF a
<1>10. pcSimples'[p] = "confirmar" /\ req'[p] = req[p] /\ areaSimples'[p] = a
          /\ tocadasSimples'[p] = t
  <2> HIDE DEF t
  <2> QED BY <1>3, <1>4, <1>5, PassoDoSimples
<1>11. ApurarOK(p)' /\ FecharOK(p)'
  <2>1. req[p].fech \in S!H!Fechadas' /\ historico'[req[p].fech].entradas = v
    BY <1>2, <1>6, Crescimento
  <2>2. S!Promovida(p)' = S!Promovida(p) /\ \A w : S!Retificada(w)' = S!Retificada(w)
    BY <1>1, <1>10 DEF S!Promovida, S!Retificada
  <2>3. /\ v \in tocadasSimples'[p] /\ areaSimples'[p][v] = S!Promovida(p)'
        /\ \A w \in tocadasSimples'[p] \ {v} : w \in S!Correntes(apuracoes')
              /\ areaSimples'[p][w] = S!Retificada(w)'
        /\ S!Correntes(apuracoes') \subseteq tocadasSimples'[p]
    BY <1>1, <1>2, <1>4, <1>9, <1>10, <2>2
  <2>4. req[p].guia = apuracoes'[v].devida /\ (req[p].guia => guias'[v] # 0)
        /\ v \in S!Existentes(apuracoes')
    BY <1>1, <1>2, <1>6
  <2>5. FecharOK(p)'
    BY <1>2, <1>10, <2>1, <2>3, <2>4 DEF FecharOK, S!PontosFechar, Selado
  <2> QED
    BY <1>10, <2>5 DEF ApurarOK
<1> QED
  BY <1>3, <1>4, <1>5, <1>7, <1>8, <1>11, JuntarS

(* COMMIT: the rows written replace those of before. *)
LEMMA Publicado ==
  ASSUME SInv, NEW p \in Procs, S!Publicar(p)
  PROVE  /\ apuracoes' \in [S!Versoes -> S!Apuracao]
         /\ \A v \in S!Versoes :
              apuracoes'[v] = IF v \in tocadasSimples[p] THEN areaSimples[p][v]
                 ELSE apuracoes[v]
BY CamposDoSimples DEF S!Publicar

(* What a commit keeps of a row that it does not write. *)
LEMMA LinhaIntacta ==
  ASSUME SInv, Cresce, NEW v \in S!Versoes, apuracoes'[v] = apuracoes[v],
         guias'[v] = guias[v]
  PROVE  LinhaOK(v)'
<1>1. LinhaOK(v)
  BY DEF SInv
<1>2. guias[v] # 0 => guias[v] \in S!H!Fechadas' /\ historico'[guias[v]].entradas = v
  BY <1>1, Crescimento DEF LinhaOK
<1>3. apuracoes[v].fech # 0 =>
        apuracoes[v].fech \in S!H!Fechadas' /\ historico'[apuracoes[v].fech].entradas = v
  BY <1>1, Crescimento DEF LinhaOK
<1> QED
  BY <1>1, <1>2, <1>3 DEF LinhaOK, Selado

(* And of one that it replaces. *)
LEMMA LinhaSubstituida ==
  ASSUME SInv, Cresce, NEW v \in S!Versoes, apuracoes'[v] = S!Retificada(v),
         guias'[v] = guias[v]
  PROVE  LinhaOK(v)'
<1>1. LinhaOK(v)
  BY DEF SInv
<1>2. guias[v] # 0 => guias[v] \in S!H!Fechadas' /\ historico'[guias[v]].entradas = v
  BY <1>1, Crescimento DEF LinhaOK
<1>3. apuracoes[v].fech # 0 =>
        apuracoes[v].fech \in S!H!Fechadas' /\ historico'[apuracoes[v].fech].entradas = v
  BY <1>1, Crescimento DEF LinhaOK
<1>4. /\ apuracoes'[v].status = "RETIFICADO" /\ apuracoes'[v].corrente = FALSE
      /\ apuracoes'[v].fech = apuracoes[v].fech
  BY LinhaRetificada
<1> QED
  BY <1>1, <1>2, <1>3, <1>4 DEF LinhaOK, Selado

LEMMA ConfirmarApurarS ==
  ASSUME S!SimplesAssumption, SInv, NEW p \in Procs, S!ConfirmarApurar(p)
  PROVE  SInv'
<1> DEFINE t == tocadasSimples[p]
<1>1. pcSimples[p] = "confirmarApurar" /\ S!Publicar(p) /\ S!Terminar(p)
         /\ UNCHANGED S!fiscal
  BY DEF S!ConfirmarApurar
<1>2. PICK n \in t, d \in BOOLEAN :
        /\ n \notin S!Existentes(apuracoes)
        /\ \A w \in S!Versoes : w < n => w \in S!Existentes(apuracoes)
        /\ areaSimples[p][n] = [S!Ausente EXCEPT !.status = "RASCUNHO", !.devida = d]
        /\ \A v \in t \ {n} : v \in S!Rascunhos(apuracoes)
              /\ areaSimples[p][v] = S!Retificada(v)
        /\ S!Rascunhos(apuracoes) \subseteq t
  BY <1>1, SemLinhas DEF ApurarOK
<1>3. /\ lockSimples = p /\ t \subseteq S!Versoes /\ n \in S!Versoes
      /\ \A q \in Procs \ {p} : tocadasSimples[q] \cap t = {}
            /\ tocadasSimples[q] \subseteq S!Versoes
  BY <1>1, <1>2, SemLinhas, CamposDoSimples DEF ApurarOK
<1>4. /\ apuracoes' \in [S!Versoes -> S!Apuracao]
      /\ \A v \in S!Versoes :
           apuracoes'[v] = IF v \in t THEN areaSimples[p][v] ELSE apuracoes[v]
  BY <1>1, Publicado
<1>5. Cresce /\ \A v \in S!Versoes : guias'[v] = guias[v]
  BY <1>1, SemFiscal
<1>6. /\ apuracoes'[n].status = "RASCUNHO" /\ apuracoes'[n].corrente = FALSE
      /\ apuracoes'[n].guia = FALSE /\ apuracoes'[n].fech = 0
  BY <1>2, <1>3, <1>4 DEF S!Ausente
<1>7. \A v \in t \ {n} : /\ apuracoes'[v] = S!Retificada(v) /\ v \in S!Versoes
                         /\ apuracoes'[v].status = "RETIFICADO"
                         /\ apuracoes'[v].corrente = FALSE
                         /\ apuracoes'[v].devida = apuracoes[v].devida
  <2>1. ASSUME NEW v \in t \ {n} PROVE v \in S!Versoes /\ apuracoes'[v] = S!Retificada(v)
    <3>1. v \in S!Versoes /\ v \in t /\ areaSimples[p][v] = S!Retificada(v)
      BY <1>2, <1>3
    <3> QED BY <1>4, <3>1
  <2>2. ASSUME NEW v \in t \ {n}
        PROVE  /\ apuracoes'[v].status = "RETIFICADO" /\ apuracoes'[v].corrente = FALSE
               /\ apuracoes'[v].devida = apuracoes[v].devida
    BY <2>1, LinhaRetificada
  <2> QED BY <2>1, <2>2
<1>8. \A v \in S!Versoes \ t : apuracoes'[v] = apuracoes[v]
  BY <1>4
<1>9. /\ S!Existentes(apuracoes') = S!Existentes(apuracoes) \cup {n}
      /\ S!Rascunhos(apuracoes') = {n}
      /\ S!Correntes(apuracoes') \subseteq S!Correntes(apuracoes)
  <2>1. \A v \in t \ {n} : v \in S!Existentes(apuracoes)
    BY <1>2, <1>7 DEF S!Rascunhos, S!Existentes
  <2>2. S!Existentes(apuracoes') = S!Existentes(apuracoes) \cup {n}
    BY <1>3, <1>6, <1>7, <1>8, <2>1 DEF S!Existentes
  <2>3. S!Rascunhos(apuracoes') = {n}
    BY <1>2, <1>3, <1>6, <1>7, <1>8 DEF S!Rascunhos
  <2>4. S!Correntes(apuracoes') \subseteq S!Correntes(apuracoes)
    BY <1>3, <1>6, <1>7, <1>8 DEF S!Correntes
  <2> QED BY <2>2, <2>3, <2>4
<1>10. Estavel(p)
  <2>1. ASSUME NEW v \in S!Existentes(apuracoes)
        PROVE  /\ apuracoes'[v].devida = apuracoes[v].devida
               /\ apuracoes'[v].status = "RASCUNHO" => apuracoes[v].status = "RASCUNHO"
    BY <1>2, <1>7, <1>8 DEF S!Existentes
  <2>2. ASSUME NEW q \in Procs \ {p}
        PROVE  /\ \A v \in tocadasSimples[q] : apuracoes'[v] = apuracoes[v]
               /\ pcSimples[q] # "confirmarApurar"
               /\ lockSimples # q
    BY <1>3, <1>8, SemLinhas DEF ApurarOK
  <2> QED
    BY <1>5, <1>9, <2>1, <2>2 DEF Estavel
<1>11. ASSUME NEW v \in S!Versoes PROVE LinhaOK(v)'
  <2>1. CASE v = n
    <3>1. LinhaOK(v)
      BY DEF SInv
    <3>2. guias[v] # 0 => guias[v] \in S!H!Fechadas' /\ historico'[guias[v]].entradas = v
      BY <1>5, <3>1, Crescimento DEF LinhaOK
    <3> QED
      BY <1>5, <1>6, <2>1, <3>2 DEF LinhaOK, Selado
  <2>2. CASE v \in t \ {n}
    BY <1>5, <1>7, <2>2, LinhaSubstituida
  <2>3. CASE v \notin t
    BY <1>5, <1>8, <2>3, LinhaIntacta
  <2> QED BY <2>1, <2>2, <2>3
<1>12. TabelaOK'
  <2>1. Prefixo(apuracoes')
    BY <1>2, <1>9 DEF SInv, TabelaOK, Prefixo
  <2>2. \A v, w \in S!Correntes(apuracoes') : v = w
    BY <1>9 DEF SInv, TabelaOK
  <2> QED BY <1>9, <2>1, <2>2 DEF TabelaOK, S!UmRascunho
<1> QED
  BY <1>1, <1>4, <1>10, <1>11, <1>12, TerminarS

LEMMA ConfirmarS ==
  ASSUME S!SimplesAssumption, SInv, NEW p \in Procs, S!Confirmar(p)
  PROVE  SInv'
<1> DEFINE t == tocadasSimples[p]
           a == req[p].alvo
<1>1. pcSimples[p] = "confirmar" /\ S!Publicar(p) /\ S!Terminar(p) /\ UNCHANGED S!fiscal
  BY DEF S!Confirmar
<1>2. /\ a \in t /\ areaSimples[p][a] = S!Promovida(p)
      /\ \A v \in t \ {a} : v \in S!Correntes(apuracoes)
            /\ areaSimples[p][v] = S!Retificada(v)
      /\ S!Correntes(apuracoes) \subseteq t
      /\ a \in S!Existentes(apuracoes)
      /\ req[p].fech # 0 /\ Selado(req[p].fech, a)
      /\ req[p].guia = apuracoes[a].devida
      /\ req[p].guia => guias[a] # 0
  BY <1>1, SemLinhas DEF FecharOK, S!PontosFechar
<1>3. /\ t \subseteq S!Versoes /\ a \in S!Versoes
      /\ \A q \in Procs \ {p} : /\ tocadasSimples[q] \cap t = {}
            /\ tocadasSimples[q] \subseteq S!Versoes
                                /\ pcSimples[q] # "confirmar"
  BY <1>1, <1>2, SemLinhas, CamposDoSimples DEF SInv, TravasOK
<1>4. /\ apuracoes' \in [S!Versoes -> S!Apuracao]
      /\ \A v \in S!Versoes :
           apuracoes'[v] = IF v \in t THEN areaSimples[p][v] ELSE apuracoes[v]
  BY <1>1, Publicado
<1>5. Cresce /\ \A v \in S!Versoes : guias'[v] = guias[v]
  BY <1>1, SemFiscal
<1>6. /\ apuracoes'[a].status = "FECHADO" /\ apuracoes'[a].corrente = TRUE
      /\ apuracoes'[a].guia = req[p].guia /\ apuracoes'[a].fech = req[p].fech
      /\ apuracoes'[a].devida = apuracoes[a].devida
  <2>1. apuracoes'[a] = S!Promovida(p)
    BY <1>2, <1>3, <1>4
  <2> QED BY <1>3, <2>1, LinhaPromovida
<1>7. \A v \in t \ {a} : /\ apuracoes'[v] = S!Retificada(v) /\ v \in S!Versoes
                         /\ apuracoes'[v].status = "RETIFICADO"
                         /\ apuracoes'[v].corrente = FALSE
                         /\ apuracoes'[v].devida = apuracoes[v].devida
  <2>1. ASSUME NEW v \in t \ {a} PROVE v \in S!Versoes /\ apuracoes'[v] = S!Retificada(v)
    <3>1. v \in S!Versoes /\ v \in t /\ areaSimples[p][v] = S!Retificada(v)
      BY <1>2, <1>3
    <3> QED BY <1>4, <3>1
  <2>2. ASSUME NEW v \in t \ {a}
        PROVE  /\ apuracoes'[v].status = "RETIFICADO" /\ apuracoes'[v].corrente = FALSE
               /\ apuracoes'[v].devida = apuracoes[v].devida
    BY <2>1, LinhaRetificada
  <2> QED BY <2>1, <2>2
<1>8. \A v \in S!Versoes \ t : apuracoes'[v] = apuracoes[v]
  BY <1>4
<1>9. /\ S!Existentes(apuracoes') = S!Existentes(apuracoes)
      /\ S!Rascunhos(apuracoes') \subseteq S!Rascunhos(apuracoes)
      /\ S!Correntes(apuracoes') = {a}
  <2>1. \A v \in t : v \in S!Existentes(apuracoes)
    BY <1>2, <1>7 DEF S!Existentes, S!Correntes, SInv, LinhaOK
  <2>2. S!Existentes(apuracoes') = S!Existentes(apuracoes)
    BY <1>3, <1>6, <1>7, <1>8, <2>1 DEF S!Existentes
  <2>3. S!Rascunhos(apuracoes') \subseteq S!Rascunhos(apuracoes)
    BY <1>3, <1>6, <1>7, <1>8 DEF S!Rascunhos
  <2>4. S!Correntes(apuracoes') = {a}
    BY <1>2, <1>3, <1>6, <1>7, <1>8 DEF S!Correntes
  <2> QED BY <2>2, <2>3, <2>4
<1>10. Estavel(p)
  <2>1. ASSUME NEW v \in S!Existentes(apuracoes)
        PROVE  /\ apuracoes'[v].devida = apuracoes[v].devida
               /\ apuracoes'[v].status = "RASCUNHO" => apuracoes[v].status = "RASCUNHO"
    BY <1>6, <1>7, <1>8 DEF S!Existentes
  <2>2. ASSUME NEW q \in Procs \ {p}
        PROVE  /\ \A v \in tocadasSimples[q] : apuracoes'[v] = apuracoes[v]
               /\ lockSimples = q => lockSimples' = q
    BY <1>1, <1>3, <1>8 DEF S!Terminar
  <2> QED
    BY <1>3, <1>5, <1>9, <2>1, <2>2 DEF Estavel
<1>11. ASSUME NEW v \in S!Versoes PROVE LinhaOK(v)'
  <2>1. CASE v = a
    <3>1. LinhaOK(v)
      BY DEF SInv
    <3>2. guias[v] # 0 => guias[v] \in S!H!Fechadas' /\ historico'[guias[v]].entradas = v
      BY <1>5, <3>1, Crescimento DEF LinhaOK
    <3>3. req[p].fech \in S!H!Fechadas' /\ historico'[req[p].fech].entradas = v
      BY <1>2, <1>5, <2>1, Crescimento
    <3> QED
      BY <1>2, <1>5, <1>6, <2>1, <3>2, <3>3 DEF LinhaOK, Selado
  <2>2. CASE v \in t \ {a}
    BY <1>5, <1>7, <2>2, LinhaSubstituida
  <2>3. CASE v \notin t
    BY <1>5, <1>8, <2>3, LinhaIntacta
  <2> QED BY <2>1, <2>2, <2>3
<1>12. TabelaOK'
  <2>1. Prefixo(apuracoes')
    BY <1>9 DEF SInv, TabelaOK, Prefixo
  <2>2. \A v, w \in S!Rascunhos(apuracoes') : v = w
    BY <1>9 DEF SInv, TabelaOK, S!UmRascunho
  <2> QED BY <1>9, <2>1, <2>2 DEF TabelaOK, S!UmRascunho
<1> QED
  BY <1>1, <1>4, <1>10, <1>11, <1>12, TerminarS

LEMMA InicioS ==
  ASSUME S!SimplesAssumption, S!Init
  PROVE  SInv
<1>1. /\ \A v \in S!Versoes : apuracoes[v] = S!Ausente /\ guias[v] = 0
      /\ \A p \in Procs : pcSimples[p] = "ocioso" /\ tocadasSimples[p] = {}
  BY DEF S!Init, S!TabelaVazia
<1>2. S!TypeOK
  BY Vazios DEF S!Init, S!TypeOK, S!H!HInit, S!Pontos, S!SimplesAssumption
<1>3. \A v \in S!Versoes : LinhaOK(v)
  BY <1>1, Vazios DEF LinhaOK
<1>4. S!Existentes(apuracoes) = {} /\ S!Rascunhos(apuracoes) = {}
         /\ S!Correntes(apuracoes) = {}
  BY <1>1, Vazios DEF S!Existentes, S!Rascunhos, S!Correntes
<1>5. TabelaOK
  BY <1>4 DEF TabelaOK, Prefixo, S!UmRascunho
<1>6. TravasOK /\ \A p \in Procs : ApurarOK(p) /\ FecharOK(p)
  BY <1>1 DEF TravasOK, ApurarOK, FecharOK, S!PontosFechar
<1> QED
  BY <1>2, <1>3, <1>5, <1>6 DEF SInv

LEMMA PassoS ==
  ASSUME S!SimplesAssumption, SInv, [S!Next]_(S!vars)
  PROVE  SInv'
<1>1. CASE UNCHANGED S!vars
  <2>1. UNCHANGED <<apuracoes, lockSimples, guias, historico, pcSimples, req, areaSimples,
                    tocadasSimples>>
    BY <1>1 DEF S!vars, S!fiscal
  <2>2. S!TypeOK'
    BY <2>1 DEF SInv, S!TypeOK
  <2>3. \A v \in S!Versoes : LinhaOK(v)'
    BY <2>1 DEF SInv, LinhaOK, Selado, S!H!Fechadas, S!H!Indices
  <2>4. TabelaOK' /\ TravasOK'
    BY <2>1 DEF SInv, TabelaOK, TravasOK, S!UmRascunho
  <2>5. \A p \in Procs : ApurarOK(p)'
    BY <2>1 DEF SInv, ApurarOK, S!Retificada
  <2>6. \A p \in Procs : FecharOK(p)'
    BY <2>1 DEF SInv, FecharOK, Selado, S!Retificada, S!Promovida, S!H!Fechadas, S!H!Indices
  <2> QED BY <2>2, <2>3, <2>4, <2>5, <2>6 DEF SInv
<1>2. ASSUME NEW p \in Procs, S!PedirLock(p) \/ S!LerApuracao(p) \/ S!Prosseguir(p)
         \/ S!Cair(p)
      PROVE  SInv'
  BY <1>2, PedirLockS, LerApuracaoS, ObterLockS, GravarS, CairS, ConfirmarApurarS, AbrirS,
     TransicionarS, VincularS, CriarGuiaS, LerS, DesmarcarS, PromoverS, ConfirmarS
     DEF S!Prosseguir
<1> QED
  BY <1>1, <1>2 DEF S!Next

LEMMA Fechada ==
  ASSUME SInv
  PROVE  S!UmaFechada /\ S!FechadaSelada /\ S!UmRascunho
<1>1. S!UmaFechada
  BY DEF SInv, LinhaOK, TabelaOK, S!UmaFechada, S!Correntes
<1>2. S!FechadaSelada
  BY CamposDoSimples DEF SInv, LinhaOK, S!FechadaSelada, Selado, S!Correntes
<1> QED
  BY <1>1, <1>2 DEF SInv, TabelaOK

-----------------------------------------------------------------------------
(* The parts share no variable, and a behaviour is about one of them: a    *)
(* behaviour of MCFechamentos is one of each module. *)

(* A step of the whole, as the module of the Simples sees it. *)
LEMMA ParteDoSimples == [FechamentosNext]_todas => [S!Next]_(S!vars)
<1>1. ASSUME FechamentosNext PROVE S!Next \/ UNCHANGED doSimples
  BY <1>1
     DEF FechamentosNext, PassoTrilha, PassoFolhas, FimDasGuias, FimDasFolhas, NoEscopo,
         NoSimples, NasGuias, NaTrilha, NasFolhas, todas, S!Next
<1>2. UNCHANGED todas => UNCHANGED doSimples
  BY DEF todas
<1> QED
  BY <1>1, <1>2 DEF doSimples, S!vars

(* As the module of the guias sees it. *)
LEMMA ParteDasGuias == [FechamentosNext]_todas => [G!Next]_(G!vars)
<1>1. ASSUME FechamentosNext PROVE G!Next \/ UNCHANGED dasGuias
  BY <1>1
     DEF FechamentosNext, PassoTrilha, PassoFolhas, FimDasGuias, FimDasFolhas, NoEscopo,
         NoSimples, NasGuias, NaTrilha, NasFolhas, todas, G!Next
<1>2. UNCHANGED todas => UNCHANGED dasGuias
  BY DEF todas
<1> QED
  BY <1>1, <1>2 DEF dasGuias, G!vars, G!filaVars, G!dados

(* As the module of the payments sees it. *)
LEMMA ParteDaTrilha == [FechamentosNext]_todas => [T!Next]_(T!vars)
<1>1. ASSUME FechamentosNext PROVE T!Next \/ UNCHANGED daTrilha
  BY <1>1
     DEF FechamentosNext, PassoTrilha, PassoFolhas, FimDasGuias, FimDasFolhas, NoEscopo,
         NoSimples, NasGuias, NaTrilha, NasFolhas, todas, T!Next
<1>2. UNCHANGED todas => UNCHANGED daTrilha
  BY DEF todas
<1> QED
  BY <1>1, <1>2 DEF daTrilha, T!vars, T!dados

(* As the module of the payrolls sees it. *)
LEMMA ParteDasFolhas == [FechamentosNext]_todas => [R!Next]_(R!vars)
<1>1. ASSUME FechamentosNext PROVE R!Next \/ UNCHANGED dasFolhas
  BY <1>1
     DEF FechamentosNext, PassoTrilha, PassoFolhas, FimDasGuias, FimDasFolhas, NoEscopo,
         NoSimples, NasGuias, NaTrilha, NasFolhas, todas, R!Next
<1>2. UNCHANGED todas => UNCHANGED dasFolhas
  BY DEF todas
<1> QED
  BY <1>1, <1>2 DEF dasFolhas, R!vars, R!filaVars, R!dados

(* As the module of the closing sees it. *)
LEMMA ParteDoEscopo == [FechamentosNext]_todas => [Next]_vars
<1>1. ASSUME FechamentosNext PROVE Next \/ UNCHANGED vars
  BY <1>1
     DEF FechamentosNext, PassoTrilha, PassoFolhas, FimDasGuias, FimDasFolhas, NoEscopo,
         NoSimples, NasGuias, NaTrilha, NasFolhas, todas, Next
<1>2. UNCHANGED todas => UNCHANGED vars
  BY DEF todas
<1> QED
  BY <1>1, <1>2

(* A behaviour of the whole is one of each module. *)
LEMMA CincoPartes ==
  FechamentosSpec => /\ Init /\ [][Next]_vars
                     /\ S!Init /\ [][S!Next]_(S!vars)
                     /\ G!Init /\ [][G!Next]_(G!vars)
                     /\ T!Init /\ [][T!Next]_(T!vars)
                     /\ R!Init /\ [][R!Next]_(R!vars)
<1>1. FechamentosInit => Init /\ S!Init /\ G!Init /\ T!Init /\ R!Init
  BY DEF FechamentosInit
<1> QED
  BY <1>1, ParteDoSimples, ParteDasGuias, ParteDaTrilha, ParteDasFolhas, ParteDoEscopo,
     PTL
     DEF FechamentosSpec

(* The limits that MCFechamentos assumes. *)
LEMMA Limites ==
  /\ S!SimplesAssumption /\ G!GuiasAssumption
  /\ T!PagamentosAssumption /\ R!FolhasAssumption
BY FechamentosAssumption DEF FechamentosAssumption

-----------------------------------------------------------------------------
(* The invariants of the parts, in every behaviour of the whole. *)

(* The Simples. *)
LEMMA SimplesInvariante == FechamentosSpec => []SInv
<1>1. S!Init => SInv
  BY Limites, InicioS
<1>2. SInv /\ [S!Next]_(S!vars) => SInv'
  BY Limites, PassoS
<1> QED
  BY <1>1, <1>2, CincoPartes, PTL

(* The guias. *)
LEMMA GuiasInvariante == FechamentosSpec => []GInv
<1>1. G!Init => GInv
  BY Limites, InicioG
<1>2. GInv /\ [G!Next]_(G!vars) => GInv'
  BY Limites, PassoG
<1> QED
  BY <1>1, <1>2, CincoPartes, PTL

(* The payments. *)
LEMMA TrilhaInvariante == FechamentosSpec => []TInv
<1>1. T!Init => TInv
  BY Limites, InicioT
<1>2. TInv /\ [T!Next]_(T!vars) => TInv'
  BY Limites, PassoT
<1> QED
  BY <1>1, <1>2, CincoPartes, PTL

(* The payrolls. *)
LEMMA FolhasInvariante == FechamentosSpec => []RInv
<1>1. R!Init => RInv
  BY Limites, InicioR
<1>2. RInv /\ [R!Next]_(R!vars) => RInv'
  BY Limites, PassoR
<1> QED
  BY <1>1, <1>2, CincoPartes, PTL

(* SimplesNacionalService.apurar and fechar: however the requests of a     *)
(* month overlap and wherever they die, one apuração is closed, and it is  *)
(* sealed with its closing and its guia. *)
THEOREM UmaApuracaoFechada == FechamentosSpec => []ApuracaoFechada
<1>1. SInv => ApuracaoFechada
  BY Fechada DEF ApuracaoFechada
<1> QED
  BY <1>1, SimplesInvariante, PTL

(* The requests that write a guia, a receipt or a payroll and those that   *)
(* delete it or its client: whatever fails in between, no row names an     *)
(* object that is gone or about to go. *)
THEOREM ArquivosSempreCoerentes == FechamentosSpec => []ArquivosCoerentes
<1>1. GInv /\ RInv => ArquivosCoerentes
  BY DEF GInv, RInv, ArquivosCoerentes
<1> QED
  BY <1>1, GuiasInvariante, FolhasInvariante, PTL

(* registrarEventoPagamento, confirmPayment: a payment confirmed adds one  *)
(* event, and a guia is PAGO only with the payments of its total behind it.*)
THEOREM PagamentosSempreRespaldados == FechamentosSpec => []PagamentosRespaldados
<1>1. GInv /\ TInv => PagamentosRespaldados
  BY DEF GInv, TInv, PagamentosRespaldados
<1> QED
  BY <1>1, GuiasInvariante, TrilhaInvariante, PTL

(* FiscalGuiasService.criar, RhProcessor.process: a request sent again, or *)
(* one that races its copy, writes no second guia of the key and no second *)
(* monthly payroll. *)
THEOREM RepeticaoNuncaDuplica == FechamentosSpec => []RepeticaoNaoDuplica
<1>1. TInv /\ RInv => RepeticaoNaoDuplica
  BY DEF TInv, RInv, RepeticaoNaoDuplica
<1> QED
  BY <1>1, TrilhaInvariante, FolhasInvariante, PTL

(* confirmPayment: the receipt of a guia is written once, and no request   *)
(* that read the guia before replaces it. *)
THEOREM ComprovanteSempreEstavel == FechamentosSpec => ComprovanteEstavel
<1> DEFINE Fica == \A g \in Guias : guiasCliente[g].comprovante # Nada /\ G!Existe(g)' =>
                     guiasCliente'[g].comprovante = guiasCliente[g].comprovante
<1>1. GInv /\ [G!Next]_(G!vars) => [Fica]_(G!vars)
  BY Limites, PassoG
<1> QED
  BY <1>1, GuiasInvariante, CincoPartes, PTL DEF ComprovanteEstavel, G!ComprovanteEstavel

(* GuiasService.remove: the row of a guia never goes without the removal   *)
(* of its files, the receipt that a payment added meanwhile included. *)
THEOREM ExclusaoSempreAgenda == FechamentosSpec => ExclusaoDeGuiaAgenda
<1> DEFINE Agenda == cliente' => \A g \in Guias :
                       G!Existe(g) /\ ~G!Existe(g)' =>
                         \A k \in G!ChavesDe(g) : fila'[k] # "fora"
<1>1. GInv /\ [G!Next]_(G!vars) => [Agenda]_(G!vars)
  BY Limites, PassoG
<1> QED
  BY <1>1, GuiasInvariante, CincoPartes, PTL
     DEF ExclusaoDeGuiaAgenda, G!ExclusaoDeGuiaAgenda

(* registrarEventoPagamento against cancelar: a reconciliation read the    *)
(* guia under the lock it writes under, so none reaches a cancelled guia.  *)
THEOREM ConciliacaoSempreEmVigor == FechamentosSpec => ConciliacaoRespeitaCancelamento
<1>1. TInv /\ [T!Next]_(T!vars) => [EmVigor]_(T!vars)
  BY Limites, PassoT
<1>2. T!ConciliacaoRespeitaCancelamento <=> [][EmVigor]_(T!vars)
  BY PTL DEF T!ConciliacaoRespeitaCancelamento, EmVigor
<1> QED
  BY <1>1, <1>2, TrilhaInvariante, CincoPartes, PTL DEF ConciliacaoRespeitaCancelamento

(* Every variable of every part stays in its set. *)
THEOREM TiposDosFechamentos == FechamentosSpec => []FechamentosTypeOK
<1>1. SInv /\ GInv /\ TInv /\ RInv => FechamentosTypeOK
  <2> SUFFICES ASSUME S!TypeOK, G!TypeOK, T!TypeOK, R!TypeOK
               PROVE  FechamentosTypeOK
    BY DEF SInv, GInv, TInv, RInv
  <2>1. CASE parte = "simples"
    BY <2>1 DEF FechamentosTypeOK
  <2>2. CASE parte = "guias"
    BY <2>2 DEF FechamentosTypeOK
  <2>3. CASE parte = "trilha"
    BY <2>3 DEF FechamentosTypeOK
  <2>4. CASE parte = "folhas"
    BY <2>4 DEF FechamentosTypeOK
  <2>5. CASE parte \notin {"simples", "guias", "trilha", "folhas"}
    BY <2>5 DEF FechamentosTypeOK
  <2> QED
    BY <2>1, <2>2, <2>3, <2>4, <2>5
<1> QED
  BY <1>1, SimplesInvariante, GuiasInvariante, TrilhaInvariante, FolhasInvariante, PTL
=============================================================================
