--------------------------- MODULE GuiaDocumentos ----------------------------
(***************************************************************************)
(* The files of a client's guias: GuiasService (uploadGuia, deleteGuia,    *)
(* confirmPayment, attachReceiptToPaidGuia) and ClientesService            *)
(* .deleteClient, over the cleanup queue as FilaLimpeza promises it.       *)
(*                                                                         *)
(* A file is stored in R2 before the row that names it is committed, and   *)
(* discarded by the same request when the commit fails. A guia g names the *)
(* key g; every upload and every receipt takes a key never used before     *)
(* (crypto.randomUUID).  Transactions run under READ COMMITTED: each       *)
(* statement sees what is committed when it starts, and a row written by   *)
(* an open transaction makes the next writer of it wait.                   *)
(***************************************************************************)
EXTENDS FiniteSets, Naturals

CONSTANTS
  Guias,      \* guias (their ids and the keys of their documents)
  Recibos,    \* keys of payment receipts
  Processos,  \* requests
  Nada        \* no guia, no key

GuiasAssumption ==
  /\ Guias \cap Recibos = {}
  /\ Nada \notin Guias \cup Recibos

Chaves == Guias \cup Recibos

VARIABLES
  objetos, fila,   \* see FilaLimpeza
  cliente,    \* whether the client's row exists
  guias,      \* committed rows of guias
  vinculo,    \* guia_upload_id of the client's fiscal guia
  eventos,    \* events in the fiscal guia's payment trail, by the guia paid
  usadas,     \* keys generated so far
  pc,         \* next statement of each request
  req,        \* what each request works on
  perdidas,   \* history: keys committed without the request knowing it
  orfas       \* history: keys whose request failed or died owning them

filaVars == <<objetos, fila>>
dados == <<cliente, guias, vinculo, eventos>>
vars == <<filaVars, dados, usadas, pc, req, perdidas, orfas>>

F == INSTANCE FilaLimpeza

SemGuia == [status |-> "AUSENTE", comprovante |-> Nada]

Existe(g) == guias[g].status # "AUSENTE"

(* The keys the row of g names; a guia without a row names none. *)
ChavesDe(g) == IF Existe(g) THEN {g, guias[g].comprovante} \ {Nada} ELSE {}

Referenciadas == UNION {ChavesDe(g) : g \in Guias}

Pontos == {"ocioso", "enviarGuia", "inserirGuia", "confirmarGuia",
           "enviarRecibo", "pagar", "confirmarPagamento",
           "enviarAnexo", "anexar", "descartar", "excluirGuia", "excluirCliente"}

Ocioso == [guia |-> Nada, chave |-> Nada, ligar |-> FALSE, visto |-> {}]

Iniciar(p, ponto, r) ==
  /\ pc[p] = "ocioso"
  /\ pc' = [pc EXCEPT ![p] = ponto]
  /\ req' = [req EXCEPT ![p] = r]

Ir(p, ponto) == pc' = [pc EXCEPT ![p] = ponto] /\ req' = req

Encerrar(p) ==
  /\ pc' = [pc EXCEPT ![p] = "ocioso"]
  /\ req' = [req EXCEPT ![p] = Ocioso]

(* The request ends here, or first discards the file it stored. *)
Desistir(p) == IF req[p].chave = Nada THEN Encerrar(p) ELSE Ir(p, "descartar")

(* Open transactions and the rows they hold. *)
InsercaoAberta == \E p \in Processos : pc[p] = "confirmarGuia"

VinculoTravado == \E p \in Processos : pc[p] = "confirmarGuia" /\ req[p].ligar

Travada(g) == \E p \in Processos : pc[p] = "confirmarPagamento" /\ req[p].guia = g

-----------------------------------------------------------------------------
(* R2: PutObject and DeleteObject.                                         *)

Depois == [enviarGuia |-> "inserirGuia", enviarRecibo |-> "pagar", enviarAnexo |-> "anexar"]

Enviar(p) ==
  /\ pc[p] \in DOMAIN Depois
  /\ F!Depositar(req[p].chave)
  /\ Ir(p, Depois[pc[p]])
  /\ UNCHANGED <<dados, usadas, perdidas, orfas>>

(* STORAGE_FAILED: the object may be there, nobody discards it. *)
EnviarErro(p) ==
  /\ pc[p] \in DOMAIN Depois
  /\ F!Depositar(req[p].chave) \/ UNCHANGED filaVars
  /\ orfas' = orfas \cup {req[p].chave}
  /\ Encerrar(p)
  /\ UNCHANGED <<dados, usadas, perdidas>>

Descartar(p) ==
  /\ pc[p] = "descartar"
  /\ F!Descartar(req[p].chave)
  /\ Encerrar(p)
  /\ UNCHANGED <<dados, usadas, perdidas, orfas>>

(* The error of the discard is swallowed: catch(() => {}). *)
DescartarErro(p) ==
  /\ pc[p] = "descartar"
  /\ orfas' = orfas \cup {req[p].chave}
  /\ Encerrar(p)
  /\ UNCHANGED <<filaVars, dados, usadas, perdidas>>

-----------------------------------------------------------------------------
(* uploadGuia.                                                             *)

(* The client was read before; a DAS whose value and due date match the    *)
(* fiscal guia is linked to it if that one has no upload yet. *)
ReceberGuia(p) ==
  /\ cliente
  /\ \E g \in Guias \ usadas, ligar \in BOOLEAN :
       /\ ligar => vinculo = Nada
       /\ Iniciar(p, "enviarGuia", [Ocioso EXCEPT !.guia = g, !.chave = g, !.ligar = ligar])
       /\ usadas' = usadas \cup {g}
  /\ UNCHANGED <<filaVars, dados, perdidas, orfas>>

(* INSERT of the row (which locks the client's row against deletion) and   *)
(* the conditional UPDATE of the link, not yet committed. *)
InserirGuia(p) ==
  /\ pc[p] = "inserirGuia"
  /\ cliente
  /\ req[p].ligar => vinculo = Nada /\ ~VinculoTravado
  /\ Ir(p, "confirmarGuia")
  /\ UNCHANGED <<filaVars, dados, usadas, perdidas, orfas>>

(* The client is gone, the identity is taken, the fiscal guia was linked   *)
(* by another upload, or the connection fails: DUPLICATE, DATABASE_FAILED. *)
InserirGuiaErro(p) ==
  /\ pc[p] \in {"inserirGuia", "confirmarGuia"}
  /\ Ir(p, "descartar")
  /\ UNCHANGED <<filaVars, dados, usadas, perdidas, orfas>>

GravarGuia(p) ==
  /\ guias' = [guias EXCEPT ![req[p].guia].status = "PENDENTE"]
  /\ vinculo' = IF req[p].ligar THEN req[p].guia ELSE vinculo
  /\ UNCHANGED <<cliente, eventos>>

ConfirmarGuia(p) ==
  /\ pc[p] = "confirmarGuia"
  /\ GravarGuia(p)
  /\ Encerrar(p)
  /\ UNCHANGED <<filaVars, usadas, perdidas, orfas>>

(* COMMIT succeeds but its answer is lost: the catch discards the file. *)
ConfirmarGuiaSemResposta(p) ==
  /\ pc[p] = "confirmarGuia"
  /\ GravarGuia(p)
  /\ perdidas' = perdidas \cup {req[p].chave}
  /\ Ir(p, "descartar")
  /\ UNCHANGED <<filaVars, usadas, orfas>>

-----------------------------------------------------------------------------
(* confirmPayment, with or without a receipt, and attachReceiptToPaidGuia. *)

ReceberPagamento(p) ==
  /\ \E g \in Guias :
       \/ /\ Iniciar(p, "pagar", [Ocioso EXCEPT !.guia = g])
          /\ Existe(g)
          /\ usadas' = usadas
       \/ \E r \in Recibos \ usadas, ponto \in {"enviarRecibo", "enviarAnexo"} :
            /\ Existe(g)
            /\ Iniciar(p, ponto, [Ocioso EXCEPT !.guia = g, !.chave = r])
            /\ usadas' = usadas \cup {r}
  /\ UNCHANGED <<filaVars, dados, perdidas, orfas>>

Pagavel(g) == guias[g].status = "PENDENTE"

(* UPDATE ... WHERE status <> 'PAGO': holds the row until the commit. *)
Pagar(p) ==
  /\ pc[p] = "pagar"
  /\ ~Travada(req[p].guia)
  /\ Pagavel(req[p].guia)
  /\ Ir(p, "confirmarPagamento")
  /\ UNCHANGED <<filaVars, dados, usadas, perdidas, orfas>>

(* Variant for mutation: the receipt of a refused payment stays. *)
PagamentoRecusadoSemDescarte(p) ==
  /\ pc[p] = "pagar"
  /\ ~Travada(req[p].guia)
  /\ ~Pagavel(req[p].guia)
  /\ Encerrar(p)
  /\ UNCHANGED <<filaVars, dados, usadas, perdidas, orfas>>

(* ALREADY_PAID, or the guia is gone. *)
PagamentoRecusado(p) ==
  /\ pc[p] = "pagar"
  /\ ~Travada(req[p].guia)
  /\ ~Pagavel(req[p].guia)
  /\ Desistir(p)
  /\ UNCHANGED <<filaVars, dados, usadas, perdidas, orfas>>

(* The fiscal guia is already settled, or a statement or the commit fails. *)
PagamentoErro(p) ==
  /\ pc[p] \in {"pagar", "confirmarPagamento"}
  /\ Desistir(p)
  /\ UNCHANGED <<filaVars, dados, usadas, perdidas, orfas>>

(* The paid guia and, if it is linked to a fiscal guia that was not        *)
(* cancelled, one event in the payment trail. *)
GravarPagamento(p) ==
  LET g == req[p].guia
  IN  /\ guias' = [guias EXCEPT ![g].status = "PAGO", ![g].comprovante = req[p].chave]
      /\ eventos' \in {eventos} \cup
           IF vinculo = g THEN {[eventos EXCEPT ![g] = @ + 1]} ELSE {}
      /\ UNCHANGED <<cliente, vinculo>>

ConfirmarPagamento(p) ==
  /\ pc[p] = "confirmarPagamento"
  /\ GravarPagamento(p)
  /\ Encerrar(p)
  /\ UNCHANGED <<filaVars, usadas, perdidas, orfas>>

ConfirmarPagamentoSemResposta(p) ==
  /\ pc[p] = "confirmarPagamento"
  /\ GravarPagamento(p)
  /\ perdidas' = perdidas \cup ({req[p].chave} \ {Nada})
  /\ Desistir(p)
  /\ UNCHANGED <<filaVars, usadas, orfas>>

(* Variant for mutation: a second receipt replaces the first. *)
AnexavelSempre(g) == guias[g].status = "PAGO"

Anexavel(g) == guias[g].status = "PAGO" /\ guias[g].comprovante = Nada

(* One statement; its answer may be lost. *)
Anexar(p) ==
  /\ pc[p] = "anexar"
  /\ ~Travada(req[p].guia)
  /\ Anexavel(req[p].guia)
  /\ guias' = [guias EXCEPT ![req[p].guia].comprovante = req[p].chave]
  /\ \/ Encerrar(p) /\ perdidas' = perdidas
     \/ Ir(p, "descartar") /\ perdidas' = perdidas \cup {req[p].chave}
  /\ UNCHANGED <<filaVars, cliente, vinculo, eventos, usadas, orfas>>

(* NOT_ELIGIBLE, or the statement fails. *)
AnexoRecusado(p) ==
  /\ pc[p] = "anexar"
  /\ Ir(p, "descartar")
  /\ UNCHANGED <<filaVars, dados, usadas, perdidas, orfas>>

-----------------------------------------------------------------------------
(* deleteGuia and deleteClient.                                            *)

(* deleteGuia is refused while a fiscal guia names the upload. *)
PedirExclusaoGuia(p) ==
  /\ \E g \in Guias :
       /\ Existe(g) /\ vinculo # g
       /\ Iniciar(p, "excluirGuia", [Ocioso EXCEPT !.guia = g])
  /\ UNCHANGED <<filaVars, dados, usadas, perdidas, orfas>>

(* Variant for mutation: the receipt is not scheduled. *)
ExcluirGuiaSemComprovante(p) ==
  /\ pc[p] = "excluirGuia"
  /\ ~Travada(req[p].guia)
  /\ guias' = [guias EXCEPT ![req[p].guia] = SemGuia]
  /\ F!Agendar(ChavesDe(req[p].guia) \cap Guias)
  /\ Encerrar(p)
  /\ UNCHANGED <<cliente, vinculo, eventos, usadas, perdidas, orfas>>

(* One statement: DELETE ... RETURNING reads the row as it is once its     *)
(* lock is granted, and schedules the keys it names. *)
ExcluirGuia(p) ==
  /\ pc[p] = "excluirGuia"
  /\ ~Travada(req[p].guia)
  /\ guias' = [guias EXCEPT ![req[p].guia] = SemGuia]
  /\ F!Agendar(ChavesDe(req[p].guia))
  /\ Encerrar(p)
  /\ UNCHANGED <<cliente, vinculo, eventos, usadas, perdidas, orfas>>

(* deleteClient starts: what target_files will see is fixed here. *)
PedirExclusaoCliente(p) ==
  /\ cliente
  /\ Iniciar(p, "excluirCliente", [Ocioso EXCEPT !.visto = Referenciadas])
  /\ UNCHANGED <<filaVars, dados, usadas, perdidas, orfas>>

(* It goes on when FOR UPDATE and the cascade get their locks: the guias   *)
(* go by cascade as they are NOW, the keys scheduled are those seen THEN.  *)
ExcluirCliente(p) ==
  /\ pc[p] = "excluirCliente"
  /\ ~InsercaoAberta
  /\ \A g \in Guias : ~Travada(g)
  /\ IF cliente
     THEN /\ cliente' = FALSE
          /\ guias' = [g \in Guias |-> SemGuia]
          /\ vinculo' = Nada
          /\ eventos' = [g \in Guias |-> 0]
          /\ F!Agendar(req[p].visto)
     ELSE UNCHANGED <<filaVars, dados>>
  /\ Encerrar(p)
  /\ UNCHANGED <<usadas, perdidas, orfas>>

(* A deletion fails (a restricting foreign key, the connection). *)
ExclusaoErro(p) ==
  /\ pc[p] \in {"excluirGuia", "excluirCliente"}
  /\ Encerrar(p)
  /\ UNCHANGED <<filaVars, dados, usadas, perdidas, orfas>>

-----------------------------------------------------------------------------
(* The process of a request dies; its open transaction rolls back. *)
Cair(p) ==
  /\ pc[p] # "ocioso"
  /\ orfas' = orfas \cup ({req[p].chave} \ {Nada})
  /\ Encerrar(p)
  /\ UNCHANGED <<filaVars, dados, usadas, perdidas>>

LimparFila ==
  /\ \E k \in Chaves : F!Limpar(k)
  /\ UNCHANGED <<dados, usadas, pc, req, perdidas, orfas>>

Init ==
  /\ F!FInit
  /\ cliente = TRUE
  /\ guias = [g \in Guias |-> SemGuia]
  /\ vinculo = Nada
  /\ eventos = [g \in Guias |-> 0]
  /\ usadas = {}
  /\ pc = [p \in Processos |-> "ocioso"]
  /\ req = [p \in Processos |-> Ocioso]
  /\ perdidas = {}
  /\ orfas = {}

Receber(p) ==
  \/ ReceberGuia(p) \/ ReceberPagamento(p)
  \/ PedirExclusaoGuia(p) \/ PedirExclusaoCliente(p)

Armazenar(p) ==
  \/ Enviar(p) \/ EnviarErro(p) \/ Descartar(p) \/ DescartarErro(p)

Gravar(p) ==
  \/ InserirGuia(p) \/ InserirGuiaErro(p)
  \/ ConfirmarGuia(p) \/ ConfirmarGuiaSemResposta(p)
  \/ Pagar(p) \/ PagamentoRecusado(p) \/ PagamentoErro(p)
  \/ ConfirmarPagamento(p) \/ ConfirmarPagamentoSemResposta(p)
  \/ Anexar(p) \/ AnexoRecusado(p)
  \/ ExcluirGuia(p) \/ ExcluirCliente(p) \/ ExclusaoErro(p)

Next ==
  \/ \E p \in Processos : Receber(p) \/ Armazenar(p) \/ Gravar(p) \/ Cair(p)
  \/ LimparFila

Spec == Init /\ [][Next]_vars

-----------------------------------------------------------------------------
(* Properties.                                                             *)

(* Every variable stays in its set. *)
TypeOK ==
  /\ objetos \subseteq Chaves
  /\ fila \in [Chaves -> F!Etapas]
  /\ cliente \in BOOLEAN
  /\ guias \in [Guias -> [status : {"AUSENTE", "PENDENTE", "PAGO"},
                          comprovante : Recibos \cup {Nada}]]
  /\ vinculo \in Guias \cup {Nada}
  /\ eventos \in [Guias -> Nat]
  /\ usadas \subseteq Chaves
  /\ pc \in [Processos -> Pontos]
  /\ req \in [Processos -> [guia : Guias \cup {Nada}, chave : Chaves \cup {Nada},
                            ligar : BOOLEAN, visto : SUBSET Chaves]]
  /\ perdidas \subseteq Chaves
  /\ orfas \subseteq Chaves

(* A file that a committed guia names (its document, its receipt) is in    *)
(* the bucket, unless the commit that named it was taken for a failure.    *)
ReferenciaArmazenada == Referenciadas \ perdidas \subseteq objetos

(* The queue never holds a key a guia still names: objects are removed     *)
(* only after the database confirmed the deletion.                         *)
FilaSemReferencia == \A k \in Referenciadas : fila[k] = "fora"

(* While the client exists, a stored file that no guia names belongs to a  *)
(* request in course or to the queue, or one of the failures that the code *)
(* does not compensate explains it. *)
SemOrfas ==
  cliente =>
    \A k \in objetos \ Referenciadas :
      \/ fila[k] # "fora"
      \/ k \in orfas
      \/ \E p \in Processos : req[p].chave = k

(* The rows, the bucket and the queue of removals agree. *)
ArquivosCoerentes == ReferenciaArmazenada /\ FilaSemReferencia /\ SemOrfas

(* A payment confirmed twice, by a retry or by two requests at once, adds  *)
(* one event to the fiscal payment trail.                                  *)
UmEventoPorPagamento ==
  \A g \in Guias : eventos[g] <= 1 /\ (eventos[g] = 1 => guias[g].status = "PAGO")

(* A receipt, once recorded, stays until its guia is deleted: no later     *)
(* payment or attachment replaces it.                                      *)
ComprovanteEstavel ==
  [][\A g \in Guias :
       guias[g].comprovante # Nada /\ Existe(g)' =>
         guias'[g].comprovante = guias[g].comprovante]_vars

(* storage-lifecycle.md: deleting a guia or a client and scheduling the    *)
(* removal of its files is one atomic operation.                           *)
ExclusaoAgenda ==
  [][\A g \in Guias :
       Existe(g) /\ ~Existe(g)' => \A k \in ChavesDe(g) : fila'[k] # "fora"]_vars

(* The same for the guias that deleteGuia removes.                         *)
ExclusaoDeGuiaAgenda ==
  [][cliente' => \A g \in Guias :
       Existe(g) /\ ~Existe(g)' => \A k \in ChavesDe(g) : fila'[k] # "fora"]_vars
=============================================================================
