---------------------------- MODULE ConsultaSefaz ----------------------------
(***************************************************************************)
(* SefazConsultaControlService and its callers: the slots and the block    *)
(* that app_rate_limits keeps for one CNPJ, shared by every process of the *)
(* API, the lots of access keys of ImportacaoChavesFiscalService.executar  *)
(* and the consultations by NSU of the synchronisation.                    *)
(*                                                                         *)
(* A reservation is one transaction under an advisory lock; the call to    *)
(* SEFAZ runs outside it, and the block that a 656 leaves is written after *)
(* the answer, without the lock. In a process the calls of a client form a *)
(* chain of promises kept in a Map (queueByClient).                        *)
(***************************************************************************)
EXTENDS Naturals, FiniteSets, FiniteSetsExt

CONSTANTS
  Lotes,       \* lots of keys being imported
  Processos,   \* Node processes
  MaxChaves,   \* keys of a lot
  Limite,      \* LIMITE_CHAVES
  Hora,        \* HORA_MS, in ticks of the clock
  MaxTempo,    \* bound: last instant
  MaxQuedas,   \* bound: processes that die
  Nenhum       \* no lot

ConsultaAssumption ==
  /\ Processos # {}
  /\ MaxChaves \in Nat \ {0}
  /\ Limite \in Nat \ {0}
  /\ Hora \in Nat \ {0}
  /\ MaxTempo \in Nat
  /\ MaxQuedas \in Nat
  /\ Nenhum \notin Lotes

VARIABLES
  agora,      \* Date.now()
  slots,      \* resetAt of the rows <scope>:chave:0 .. Limite - 1; 0: no row
  bloqueio,   \* resetAt of the row <scope>:bloqueio; 0: no row
  legado,     \* end of a 656 that an earlier version left in controle_nsu
  reservas,   \* for the properties: the slots taken, each with its instant
  registrado, \* for the properties: the longest suspension recorded so far
  lote,       \* each lot
  cauda,      \* queueByClient of each process: the call at its end
  sinc,       \* the consultation by NSU of the synchronisation
  quedas      \* processes that died so far

vars == <<agora, slots, bloqueio, legado, reservas, registrado, lote, cauda,
          sinc, quedas>>

Instantes == 0 .. MaxTempo

Prazos == 0 .. MaxTempo + Hora

Pontos == {"ocioso", "chave", "fila", "reservar", "chamada", "bloquear", "fim"}

(* "fase": the call in course for the key, its first consultation, the     *)
(* event of Ciencia or the consultation of the XML that follows it.        *)
(* "anterior": the call whose end the lot awaits. "retry": retryAt.        *)
(* "feitas": the keys that have their result. "freio": consumoIndevido,    *)
(* adiamento, certificadoIndisponivel or falhaConsulta is set, and decides *)
(* the status of the keys that remain. "recusa", for the properties: the   *)
(* lot was told to stop, by SEFAZ, by the control or by a failure; it is   *)
(* lost when SEFAZ said so and the block could not be written. *)
LoteDeChaves ==
        [passo : Pontos, processo : Processos, fase : {"consulta", "evento", "xml"},
         anterior : Lotes \cup {Nenhum}, freio : BOOLEAN,
         retry : Prazos, feitas : 0 .. MaxChaves,
         recusa : {"nenhuma", "dita", "perdida"}]

Novo == [passo |-> "ocioso", processo |-> CHOOSE n \in Processos : TRUE,
         fase |-> "consulta", anterior |-> Nenhum, freio |-> FALSE,
         retry |-> 0, feitas |-> 0, recusa |-> "nenhuma"]

(* The results were returned, or lost with the process. *)
Encerrado == [Novo EXCEPT !.passo = "fim"]

Sinc == [passo : {"ocioso", "chamada", "bloquear"}, retry : Prazos]

Maior(a, b) == IF a >= b THEN a ELSE b

Init ==
  /\ agora = 0
  /\ slots = [i \in 1 .. Limite |-> 0]
  /\ bloqueio = 0
  /\ legado \in {0, 1}
  /\ reservas = {}
  /\ registrado = 0
  /\ lote = [l \in Lotes |-> Novo]
  /\ cauda = [n \in Processos |-> Nenhum]
  /\ sinc = [passo |-> "ocioso", retry |-> 0]
  /\ quedas = 0

-----------------------------------------------------------------------------
(* The control of the consultations.                                       *)

(* reservar: the suspensions that hold now. *)
Suspenso == Maior(bloqueio, legado) > agora

(* Variant for mutation: a slot is free one tick too early. *)
LivresCedo == {i \in 1 .. Limite : slots[i] <= agora + 1}

Livres == {i \in 1 .. Limite : slots[i] <= agora}

(* The first free slot is taken for an hour. *)
Tomar ==
  /\ slots' = [slots EXCEPT ![Min(Livres)] = agora + Hora]
  /\ reservas' = reservas \cup {<<agora, Min(Livres)>>}

(* Variant for mutation: the row takes the last value written. *)
EstenderSemGreatest(retry) ==
  /\ bloqueio' = retry
  /\ registrado' = Maior(registrado, retry)

(* The upsert of the block keeps the later of the two ends. *)
Estender(retry) ==
  /\ bloqueio' = Maior(bloqueio, retry)
  /\ registrado' = Maior(registrado, retry)

Passar ==
  /\ agora < MaxTempo
  /\ agora' = agora + 1
  /\ UNCHANGED <<slots, bloqueio, legado, reservas, registrado, lote, cauda,
                 sinc, quedas>>

-----------------------------------------------------------------------------
(* A lot of keys.                                                          *)

SoLote == UNCHANGED <<agora, slots, bloqueio, legado, reservas, registrado,
                      sinc, quedas>>

(* withSefazRateLimit: the call joins the chain of its process. *)
Enfileirar(l, fase) ==
  LET n == lote[l].processo
  IN  /\ cauda' = [cauda EXCEPT ![n] = l]
      /\ lote' = [lote EXCEPT ![l].passo = "fila", ![l].fase = fase,
                              ![l].anterior = cauda[n]]

(* Variant for mutation: the entry of the Map is deleted whoever is last. *)
CaudaApagada(l) == [cauda EXCEPT ![lote[l].processo] = Nenhum]

(* The entry is deleted by the last call only. *)
CaudaLiberada(l) ==
  [cauda EXCEPT ![lote[l].processo] = IF @ = l THEN Nenhum ELSE @]

(* finally: the promise of the call is resolved and the lot goes on.       *)
Liberar(l, seguinte) ==
  /\ cauda' = CaudaLiberada(l)
  /\ lote' = [m \in Lotes |->
                IF m = l THEN seguinte
                ELSE IF lote[m].anterior = l THEN [lote[m] EXCEPT !.anterior = Nenhum]
                ELSE lote[m]]

(* The key has its result; the next one. *)
Anotado(l) ==
  [lote[l] EXCEPT !.passo = "chave", !.fase = "consulta", !.feitas = @ + 1, !.retry = 0]

Interrompido(l) == [Anotado(l) EXCEPT !.freio = TRUE]

Avisado(registro) == [registro EXCEPT !.recusa = "dita"]

(* Variant for mutation: what the search of the XML throws is only logged. *)
AdiadoSemFreio(l) == IF lote[l].fase = "xml" THEN Anotado(l) ELSE Interrompido(l)

(* What a refusal of the control leaves: the lot stops in both phases that *)
(* meet it, although the key of the second keeps RESUMO_COM_CIENCIA. *)
Adiado(l) == Interrompido(l)

(* executar starts; the certificate and the UF were found. *)
Iniciar(l) ==
  /\ lote[l].passo = "ocioso"
  /\ \E n \in Processos :
       lote' = [lote EXCEPT ![l].passo = "chave", ![l].processo = n]
  /\ UNCHANGED cauda
  /\ SoLote

(* The results INVALIDA, NAO_SUPORTADO, JA_EXISTENTE and                   *)
(* RECUPERACAO_PORTAL_NECESSARIA are given before the flags are looked at. *)
ProximaChave(l) ==
  /\ lote[l].passo = "chave"
  /\ lote[l].fase = "consulta"
  /\ \/ /\ lote[l].feitas = MaxChaves
        /\ lote' = [lote EXCEPT ![l] = Encerrado]
        /\ UNCHANGED cauda
     \/ /\ lote[l].feitas < MaxChaves
        /\ lote' = [lote EXCEPT ![l] = Anotado(l)]
        /\ UNCHANGED cauda
     \/ /\ lote[l].feitas < MaxChaves
        /\ ~lote[l].freio
        /\ Enfileirar(l, "consulta")
  /\ SoLote

(* await previous. The event of Ciencia needs no slot. *)
Entrar(l) ==
  /\ lote[l].passo = "fila"
  /\ lote[l].anterior = Nenhum
  /\ lote' = [lote EXCEPT ![l].passo =
                IF lote[l].fase = "evento" THEN "chamada" ELSE "reservar"]
  /\ UNCHANGED cauda
  /\ SoLote

(* reservar with porChave. *)
Reservar(l) ==
  /\ lote[l].passo = "reservar"
  /\ ~Suspenso
  /\ Livres # {}
  /\ Tomar
  /\ lote' = [lote EXCEPT ![l].passo = "chamada"]
  /\ UNCHANGED <<agora, bloqueio, legado, registrado, cauda, sinc, quedas>>

(* CONSUMO_INDEVIDO or LIMITE_LOCAL. *)
RecusarReserva(l) ==
  /\ lote[l].passo = "reservar"
  /\ Suspenso \/ Livres = {}
  /\ Liberar(l, Avisado(Adiado(l)))
  /\ SoLote

(* SEFAZ answers: the XML, a summary, or nothing about the key; or the     *)
(* event is accepted and, later, the XML is looked for. The summary calls  *)
(* for Ciencia when the request asked for it. *)
Responder(l) ==
  /\ lote[l].passo = "chamada"
  /\ \/ /\ lote[l].fase # "evento"
        /\ Liberar(l, Anotado(l))
     \/ /\ lote[l].fase # "xml"
        /\ Liberar(l, [lote[l] EXCEPT
             !.passo = "chave", !.fase = IF @ = "evento" THEN "xml" ELSE "evento"])
  /\ SoLote

(* The two later calls of a key whose summary came back. *)
Continuar(l) ==
  /\ lote[l].passo = "chave"
  /\ lote[l].fase # "consulta"
  /\ Enfileirar(l, lote[l].fase)
  /\ SoLote

(* 656 to a consultation: the end of the suspension is computed before it  *)
(* is written. *)
Responder656(l) ==
  /\ lote[l].passo = "chamada"
  /\ lote[l].fase # "evento"
  /\ lote' = [lote EXCEPT ![l] = Avisado([@ EXCEPT !.passo = "bloquear",
                                                   !.retry = agora + Hora])]
  /\ UNCHANGED cauda
  /\ SoLote

GravarBloqueio(l) ==
  /\ lote[l].passo = "bloquear"
  /\ Estender(lote[l].retry)
  /\ Liberar(l, Adiado(l))
  /\ UNCHANGED <<agora, slots, legado, reservas, sinc, quedas>>

(* The call, the reservation, the storage of the document or the write of  *)
(* the block fails. In the phase of the XML the failure is only logged,    *)
(* that of the write of a block included; a 656 to the event stops the lot *)
(* and is recorded nowhere. *)
Falhar(l) ==
  /\ lote[l].passo \in {"reservar", "chamada", "bloquear"}
  /\ Liberar(l, IF lote[l].fase # "xml" THEN Avisado(Interrompido(l))
                ELSE IF lote[l].passo = "bloquear"
                THEN [Anotado(l) EXCEPT !.recusa = "perdida"]
                ELSE Anotado(l))
  /\ SoLote

(* A process dies: its lots and its queue are lost, the rows stay. *)
Queda(n) ==
  /\ quedas < MaxQuedas
  /\ quedas' = quedas + 1
  /\ cauda' = [cauda EXCEPT ![n] = Nenhum]
  /\ lote' = [l \in Lotes |->
                IF lote[l].processo = n /\ lote[l].passo # "ocioso"
                THEN Encerrado ELSE lote[l]]
  /\ UNCHANGED <<agora, slots, bloqueio, legado, reservas, registrado, sinc>>

-----------------------------------------------------------------------------
(* The synchronisation, which takes no slot: only the suspensions hold it. *)

SincReservar ==
  /\ sinc.passo = "ocioso"
  /\ ~Suspenso
  /\ sinc' = [sinc EXCEPT !.passo = "chamada"]
  /\ UNCHANGED <<agora, slots, bloqueio, legado, reservas, registrado, lote,
                 cauda, quedas>>

(* Whatever the answer, the row of controle_nsu gets a new status or an    *)
(* end that is not after that of the block. *)
SincResponder ==
  /\ sinc.passo = "chamada"
  /\ \/ sinc' = [passo |-> "ocioso", retry |-> 0]
     \/ sinc' = [passo |-> "bloquear", retry |-> agora + Hora]
  /\ legado' = 0
  /\ UNCHANGED <<agora, slots, bloqueio, reservas, registrado, lote, cauda, quedas>>

SincBloquear ==
  /\ sinc.passo = "bloquear"
  /\ Estender(sinc.retry)
  /\ sinc' = [passo |-> "ocioso", retry |-> 0]
  /\ UNCHANGED <<agora, slots, legado, reservas, lote, cauda, quedas>>

Passo(l) ==
  \/ ProximaChave(l) \/ Continuar(l) \/ Entrar(l)
  \/ Reservar(l) \/ RecusarReserva(l)
  \/ Responder(l) \/ Responder656(l) \/ GravarBloqueio(l) \/ Falhar(l)

Next ==
  \/ Passar
  \/ \E l \in Lotes : Iniciar(l) \/ Passo(l)
  \/ \E n \in Processos : Queda(n)
  \/ SincReservar \/ SincResponder \/ SincBloquear

Spec == Init /\ [][Next]_vars

-----------------------------------------------------------------------------
(* Properties.                                                             *)

TypeOK ==
  /\ agora \in Instantes
  /\ slots \in [1 .. Limite -> Prazos]
  /\ bloqueio \in Prazos /\ legado \in Prazos /\ registrado \in Prazos
  /\ reservas \subseteq Instantes \X (1 .. Limite)
  /\ lote \in [Lotes -> LoteDeChaves]
  /\ cauda \in [Processos -> Lotes \cup {Nenhum}]
  /\ sinc \in Sinc
  /\ quedas \in 0 .. MaxQuedas

(* Whatever the processes and their deaths, no window of one hour holds    *)
(* more than Limite reservations by key (docs/fiscal-sync.md:156-160). *)
JanelaRespeitada ==
  \A t \in Instantes :
    Cardinality({r \in reservas : t <= r[1] /\ r[1] < t + Hora}) <= Limite

(* No consultation, by key or by NSU, is let through before the end of the *)
(* longest suspension recorded: a 656 whose write comes late, or another   *)
(* that ends sooner, never shortens it. *)
SuspensaoRespeitada ==
  [][(reservas' # reservas \/ (sinc.passo = "ocioso" /\ sinc'.passo = "chamada"))
        => agora >= registrado]_vars

(* In one process the calls of a client are made one at a time, however    *)
(* the lots interleave in the chain of promises of withSefazRateLimit. *)
UmaChamadaPorProcesso ==
  \A l, m \in Lotes :
    /\ lote[l].passo \in {"reservar", "chamada", "bloquear"}
    /\ lote[m].passo \in {"reservar", "chamada", "bloquear"}
    /\ lote[l].processo = lote[m].processo
    => l = m

(* The lot is making no call and waits for none. *)
Parado(registro) == registro.passo \in {"bloquear", "chave", "fim"}

(* A lot told to stop, in whatever phase of a key, makes no other call for *)
(* the keys it still has. Not claimed of a 656 whose block could not be    *)
(* written after Ciencia (RecusaInterrompe). *)
InterrupcaoDefinitiva ==
  [][\A l \in Lotes : lote[l].recusa = "dita" => Parado(lote'[l])]_vars

(* docs/fiscal-sync.md:161 and 170, importacao-chaves-fiscal.service.ts:276*)
(* - 278: a 656, or an unexpected failure, stops the rest of the lot, also *)
(* when the write of the block fails. *)
RecusaInterrompe ==
  [][\A l \in Lotes : lote[l].recusa # "nenhuma" => Parado(lote'[l])]_vars

(* A call waits for one of its own process that is still waiting or in     *)
(* course, so that no lot is left behind a promise nobody resolves, after  *)
(* failures and deaths as well. *)
EsperaViva ==
  \A l \in Lotes :
    lote[l].anterior # Nenhum
    => LET m == lote[l].anterior
       IN  /\ m # l
           /\ lote[m].passo \in {"fila", "reservar", "chamada", "bloquear"}
           /\ lote[m].processo = lote[l].processo
=============================================================================
