# Formal model of the Kontabb API

TLA+ modules, TLC configurations and TLAPS proofs for the NestJS API under `src/src`.
The API serves an accounting office: fiscal documents are fetched from SEFAZ, classified,
booked, closed by month, declared and delivered; guias (payment slips) are uploaded, paid and
deleted. State lives in PostgreSQL (Drizzle), files in Cloudflare R2. The process is serverless:
several instances serve requests at once, a cron calls HTTP endpoints, and an instance may die
at any await.

Names of operators follow the source, so they are Portuguese; paths below are relative to `src/src`.

## 1. Inventory

| Component | State | Operations | Talks to |
|---|---|---|---|
| fiscal-closing | `fiscal_fechamentos` (versions of a scope), an advisory lock per scope | abrir, transicionar, fechar, retificar, withEscopoLock, sinalizarRevisaoPosFechamento | called inside the transactions of importacao-xml, ciap, regras-fiscais, simples |
| storage-cleanup | `storage_cleanup_jobs` (status, attempt, claim time) | processJobs(ids?), retry, list | R2; cron, admin endpoints, every service that deletes a file |
| fiscal-entregas | `fiscal_entregas` (sealed snapshot, file key, status) | registrarEntrega, registrarEntregaComUpload, retentarUpload, retificarEntrega | R2, storage-cleanup, fiscal-closing |
| guias | `guias`, payment events of the fiscal guia | uploadGuia, confirmPayment, attachReceiptToPaidGuia, deleteGuia | R2, storage-cleanup, fiscal-guias, mail |
| fiscal-guias | obligations, append-only payment trail | criarGuia, marcarPagamento, cancelarGuia, registrarEventoPagamento, projected balance | guias |
| clientes | `clientes` and everything that cascades from it | create, update, suspend, deleteClient, logo | R2, storage-cleanup |
| rh | `folhas_pagamento`, employees | upload of payroll, advance, vacation; deleteFolha | R2, storage-cleanup |
| simples-nacional | `simples_apuracoes` | apurar, fechar, calcular | fiscal-closing, fiscal-guias |
| distribuicao-dfe | `controle_nsu` (cursor, claim, waiting time), `documentos_fiscais` | sincronizarCliente, manifestation, recovery by key | SEFAZ through nfewizard; cron |
| importacao-xml, importacao-chaves | documents, XML in R2, a lot of access keys | import, reprocess, query by key, finalizarDocumento | fiscal-closing, SEFAZ |
| sefaz-consulta-control | slots and block in `app_rate_limits`, chains of promises in memory | reservar, bloquear, consultar in series per client | around every SEFAZ call by key |
| regras-fiscais, items, CFOP | rules, classification of an item | resolve, editarCfop, confirmarCfop | documents |
| cte | `fiscal_cte` rows | persistirEscrituracao, reprocess | documents, importacao-xml |
| ciap | assets, appropriations, E111 adjustments | register, dispose, apropriar, corrigir | closing, sped |
| sped | generations, catalogues, inventories | preview, gerar, edit inventory | documents, ciap, R2 |
| books, ISS, DANFE/DACTE, PIS/COFINS, ST, DIFAL, reports | none or a balance | computations over one read | database |
| auth, sessions, rate limit, users, crm, mail, certificado | rows, counters | one row at a time | database, SMTP, R2 |

`PROJECT.json` lists every component with what of it is and is not modelled.

What is hard in this code, and what it has to guarantee:

* **Closing**: the advisory lock is awaited inside a REPEATABLE READ transaction, so the snapshot
  may be older than the lock. At most one current version; a delivered one is immutable; a later
  write leaves one open revision; nobody waits for ever.
* **Cleanup**: a claim is a lease of 15 minutes; the work is outside the transaction. One owner per
  attempt, a late answer records nothing, a finished job has no object, every job finishes.
* **Files**: PostgreSQL and R2 share no transaction. The order is: store, commit, and discard when
  the commit fails; or commit, schedule and remove. A named file is stored, an unnamed one is somebody's.
* **SEFAZ**: the cursor is read before the claim and written without fencing; calls are limited per
  hour over all processes, and in a process they are a chain of promises. The cursor never passes
  a document that was not kept; the window is never exceeded; no call waits on a dead one.
* **Payments**: two confirmations, a receipt, a cancellation and a deletion race over one row.
* **Books**: a booking writes what it computed from rows it read before. A cancelled document stays
  cancelled, a decision of the user survives, a document and its substitution do not count twice.
* **CIAP and EFD**: ledger, status of the asset, adjustment of the month and blocks of the file are
  computed apart and have to agree.

## 2. Modules

```
HistoricoFechamento <--implemented by-- FiscalClosing      FilaLimpeza <--implemented by-- StorageCleanup

MCProgresso   EXTENDS DistribuicaoDfe, INSTANCE StorageCleanup, FiscalClosing       (with fairness)
MCFechamentos EXTENDS FiscalClosing, INSTANCE SimplesFechamento (over HistoricoFechamento),
              GuiaDocumentos and FolhasRh (over FilaLimpeza), PagamentosGuia
MCOperacoes   EXTENDS Ciap, INSTANCE DocumentoFiscal, ConsultaSefaz, CteEscrituracao,
              FiscalEntregas (over StorageCleanup)
Sped          EXTENDS EfdGeracao, INSTANCE EfdDocumentos, EfdApuracao       (MCSped: its months and documents)
```

Four composites hold the components. In each, `parte` says which component a behaviour is about
and the state of the others stays initial: the components share no variable, and what one sees of
another it sees through an abstract module or through the detailed one it instantiates
(`FiscalEntregas` runs the real queue). The small `MC*` modules beside them hold the instances of
the runs that expect a violation.

* **HistoricoFechamento** - abstract: an append-only sequence of versions; a step appends a draft
  (opening, rectification, revision), advances one, or closes one and makes it the only current one.
* **FiscalClosing** - `fiscal/services/fiscal-closing.service.ts` for one scope. `linhas` is the committed
  table; each request is a transaction with `pc`, `snap` (its snapshot), `area` (rows it wrote) and
  `tocadas` (rows it holds). One action per SQL statement; `Erro` is what the database raises
  (serialization, unique index), `Falhar` and `Cair` any other failure. The first statement takes the
  snapshot under REPEATABLE READ even when it is the one that waits. Scopes share nothing, so one is enough.
* **FilaLimpeza** - abstract: what the queue promises (a key only goes if scheduled, done means
  gone, done is final).
* **StorageCleanup** - `storage/storage-cleanup.service.ts`: `Reivindicar` (the claiming UPDATE),
  `IniciarFatia` (slices under `Promise.all`), `Apagar`/`ApagarErro`, `Concluir`/`ConcluirErro`,
  `RegistrarFalha`/`RegistrarFalhaErro`, `Cair`, and `Vencer` (15 minutes). "Erro" also covers an
  effect that took place and whose answer was lost.
* **FiscalEntregas** - `fiscal/services/fiscal-entregas.service.ts` over the *detailed* queue: its processes
  alternate between requests and calls of processJobs on the same rows and bucket. Every statement commits
  by itself. The promise of the compensation is stated of the first failure of a delivery
  (`PrimeiraFalhaCompensada`): a later one may find its job concluded, and a second rectification of the same
  original may be inserted (section 4).
* **GuiaDocumentos** - `guias/guias.service.ts` and deleteClient of `clientes/clientes.service.ts` over the
  *abstract* queue. Row locks, the foreign key lock of an INSERT and the READ COMMITTED snapshot of a
  statement that waits are explicit (`Travada`, `InsercaoAberta`, `visto`). `perdidas` and `orfas` are
  history variables that name the failures the code cannot compensate; only properties read them.
* **FolhasRh** - the uploads of `rh/` (payroll, advance of the 13th, vacation): duplicate check, file, one
  statement, and the discarded file when it fails.
* **PagamentosGuia** - `fiscal/services/fiscal-guias.service.ts` and `fiscal-pagamentos-trilha.ts`: creation by
  idempotency key, marking, cancellation, events of the trail, and the reconciliation of an uploaded guia.
  A trail is a sequence of signed values; what it sums to is a fold.
* **SimplesFechamento** - `apurar` and `fechar` of `fiscal/services/simples-nacional.service.ts` for one client
  and month, over the abstract closing and `criarGuia`. `apurar` is `PedirLock` (snapshot), `ObterLock`,
  `Gravar`, `ConfirmarApurar`; `fechar` is `LerApuracao`, `Abrir`, `Transicionar` twice, `FecharVersao`,
  `Vincular`, `CriarGuia` and the last transaction `Ler`, `Desmarcar`, `Promover`, `Confirmar`. `Cair` at any
  of them, and `fechar` may be called again.
* **DistribuicaoDfe** - `sincronizarCliente` of `fiscal/services/distribuicao-dfe.service.ts` for one row of
  `controle_nsu`: `Ler` (before the claim), `Reivindicar`, one answer of SEFAZ per `Consultar*`, one document
  per `Tratar`/`TratarErro`, `GravarCursor`, `Adiar`, `Finalizar`, the TTL (`Vencer`) and the waiting time
  (`Passar`). `Omissao` says which documents a batch may lack when the parser reads it.
* **DocumentoFiscal** - one document and its XML: distribution, import, manifestation with its automatic
  Ciência, reprocessing and edition of a CFOP, and the deletion of the client's rows and objects.
* **ConsultaSefaz** - `sefaz-consulta-control.service.ts` with the lots that query by key and the
  synchronisation: slots of an hour, the suspension after 656, and the chain of promises of each process. A key
  goes through up to three calls (consultation, Ciência, search of the XML), each of which may fail. `freio`
  is the code's four flags; `recusa` is a history variable, set where SEFAZ, the control or a failure says
  stop, whether or not a flag records it.
* **CteEscrituracao** - booking of a CT-e and of the annulment or substitution that refers to it.
* **Ciap** - `ciap.service.ts`: registration, appropriation of a month under its lock, disposal, correction,
  and the E111 adjustment rewritten by each, beside the save of the assessment context
  (`sped-apuracao-contexto.service.ts`), which replaces every adjustment under no lock. The transactions are READ
  COMMITTED and no unique index keeps two rows of a code apart, so each is two actions: the DELETE (`ApagarE111`,
  `ApagarParaCorrigir`, `ApagarAjustes`), which notes in `vistos` the committed rows it removes, and the INSERT
  with the commit (`Apropriar`, `Corrigir`, `AtualizarContexto`). `e111` keeps the committed rows by the request
  that inserted them. A DELETE that meets a row another is deleting waits for that transaction and then skips
  the row, without seeing what was inserted: the wait only decides which commits first, and the model has both orders. `fonte` and `cruzado` are history variables: what the
  adjustment of the month comes from, and whether a save was committed during the regravação. Values are
  integers at a stated scale, rounded as the code does.
* **EfdDocumentos**, **EfdGeracao**, **EfdApuracao** - the EFD ICMS/IPI: which documents enter a file and
  what its catalogues declare; concurrent generations beside the edition of inventories; the taxes of
  block E and the checks that stop a file.

A name commented "Variant for mutation" is a plausible bug; it is used nowhere, and is put in place of
the definition beside it to see that a property fails.

## 3. Runs

| Run | Parts and instance | Shows |
|---|---|---|
| closing | MCFechamentos: escopo (2 transactions, 3 versions, both isolation levels), simples (2 requests, 2 versions, 2 closings), guias (2 guias, 2 receipts, 3 keys used, 2 requests), trilha (2 guias, total 2, payments of 1, 2 events a trail), folhas (2 keys, 2 requests) | the safety of the closing, of the Simples, of the files, of the payments and of the payrolls |
| progresso | MCProgresso: limpeza (2 keys, 2 workers, batch 2, slices of 1, 2 failures), dfe (2 synchronisations, 3 documents, batches of 2, 2 failures), fechamento (2 transactions, 2 versions); fairness | both refinements and all liveness: `AgendadoConclui`, `NotaChega`, `TransacaoTermina` |
| operacoes | MCOperacoes: documento, consulta (2 lots of 2 keys, 2 processes, 2 slots in an hour of 2 ticks), entrega (3 deliveries, 2 failures), ciap (2 assets of 2 instalments, a month), cte (2 documents); 2 requests | the books, the windows of SEFAZ and the lots told to stop, the deliveries, the ledger and its adjustment |
| sped | MCSped: preparo (months of 1 or 2 documents, every deviation), geracao (2 generations, 2 edits), apuracao (months of 1 or 2 sales with a purchase, a transport, an adjustment, obligations exact or 2 or 3 cents away) | block 0 declares what the others refer to; every authorised document is in the file, except an NF-e or CT-e whose other party is the client itself; the taxes close |
| closing_rr, entregas_integra, entregas_recompensa, guias_exclusao, dfe_omissao, simples_rascunho, ciap_baixa, ciap_e111 | one component each | **violated**: one finding each (section 4) |

One omission is silent in the code, and `NadaSeOmite` excludes it by name: `resolveParticipant`
(`fiscal/sped/efd-icms-ipi.service.ts:1340`) gives no participant when the other party of a document is the
client; an authorised NF-e or CT-e of that kind is dropped without any finding, only counted among the excluded.

The sizes are about 635 000 distinct states for `closing` and 1 070 000 for `operacoes`. Every action fires in some run, and every property
of a run fails under a mutant of the code.

*Bounds.* Two requests are enough for each pair of operations to interleave: the guards relate a
request to one other (the holder of a lock, of a row, of a slot). `MaxVersao = 3` gives delivery,
rectification and a revision over the rectification; two versions suffice for liveness and the refinement,
which compare one step at a time. Two failures are an error whose own record fails, or a slow worker and
the error of the one that took over; a bound on failures limits how many occur, never where. Three
deliveries make the batch limit of 2 bite. Three documents make a full and a short batch. A lot of two keys
is the least in which something is left to do after one tells it to stop, for `InterrupcaoDefinitiva`. In `consulta` an
hour of 2 ticks with 2 slots is the least in which a window straddles two counts. A trail of two payments
of 1 for a total of 2 is the least in which one payment does not settle the guia. Two assets with two
instalments reach the last instalment and the end of the credit. Every bound is a CONSTANT with its
comment in the module that declares it.

*Symmetry* is used on sets of ids, in runs without liveness only. *Deadlock* is not examined in
`guias_exclusao`, where ids are used once, so that the system ends when they are spent, nor in `sped`,
where a preparation ends; elsewhere the places where a part may stop are explicit (`FimDasGuias`, `FimDoTempo`, ...).

*Fairness.* Only in `progresso`. Strong fairness of each open transaction's next statement, because
PostgreSQL queues the waiters of an advisory lock and of a row, so that a waiter that is enabled again
and again is served. Weak fairness of the daily cron, of each running call (an awaited promise settles),
and of time. No fairness makes a user, SEFAZ or a service do anything, and failures are never required;
they are finitely many.

## 4. Findings

1. `closing_rr`: the comments of `fiscal-closing.service.ts` (626-630, 904-906) say a writer under the scope lock
   reads consistently with it. Under REPEATABLE READ the snapshot is taken by the statement that waits for
   the lock: a writer that waits for `fechar` does not see the delivery and opens no revision.
2. `entregas_integra`: after a failed upload and a good retry of the same key, the cleanup job of the
   failure removes the file of a delivery that is whole.
3. `guias_exclusao`: `deleteClient` is one statement; a guia committed while it waits for the row of the
   client is deleted by the cascade and its file is never scheduled (`docs/storage-lifecycle.md:7-8`).
4. `dfe_omissao`: a docZip missing in the middle of a batch does not make it incomplete, though the
   comment at `distribuicao-dfe.service.ts:419-420` says the batch is taken again.
5. `simples_rascunho`: `fechar` refuses a version that is not a draft only when it starts; one that `apurar`
   supersedes meanwhile is promoted all the same, over the newer one (`simples-nacional.service.ts:401-405`, 513-538).
6. `ciap_baixa`: an appropriation that read an asset before its disposal writes it back to ATIVO; the two
   take different advisory locks (`ciap.service.ts:548`).
7. `ciap_e111`: the save of the assessment context and the regravação of the E111 are each a DELETE and an
   INSERT, READ COMMITTED, under no common lock and no unique index: neither DELETE sees what the other has not
   committed, and two rows of the code stay in the month (`ciap.service.ts:697-721`, against 613-614 and
   649-650), one of them what a screen had read. The next regravação or save repairs it.
8. `entregas_recompensa`: a retry that fails after the job of the first failure was concluded inserts nothing (ON
   CONFLICT DO NOTHING, `fiscal-entregas.service.ts:584`), although 487-488 says it compensates again: the partial
   object stays with nobody to remove it.

Four more configurations, beside the runs of `PROJECT.json`, each end in a counterexample to what the code or a
doc says; the modules they instantiate are those of the passing runs.

* `MCDocumentoFiscal_manifestacao.cfg` (`RecusaBloqueia`): a note whose recipient refused it is booked again by the
  next reprocessing or edition of an item, which look at the situation only (`regras-fiscais.service.ts:321`).
* `MCCteEscrituracao_credito.cfg` (`EstornoConfere`): original, annulment, substitution, in that order, leave the books
  one credit short (`fiscal-cte.service.ts:388`).
* `MCConsultaSefaz_recusa.cfg` (`RecusaInterrompe`): a 656 to the search of the XML after Ciência whose block cannot be
  written arrives as an error of the database, which that phase only logs: the lot queries its next key and no
  suspension is recorded (`importacao-chaves-fiscal.service.ts:457`, against `docs/fiscal-sync.md:161` and 170).
* `MCFiscalEntregas_retificacao.cfg` (`RetificacaoUnica`): whether a delivery was rectified is read before the
  insertion, without a unique index: two requests rectify it (`fiscal-entregas.service.ts:323`, against 293-294).

Also met while modelling, and described by the models as they are, without a property that contradicts a doc:
an ESTORNO leaves a guia PAGO, and may refer to another ESTORNO; `registrarEventoPagamento` may write the
trail of a cancelled guia; advances and vacations of rh are duplicable by a race; a lost answer of a commit
makes the compensation delete an object that a committed row names (`perdidas`); a second concurrent
generation of the EFD fails with 40001, and the PROCESSANDO row of one that died is never taken up; a closed
inventory whose item changed its unit blocks the EFD; ICMS-ST of a sale to a party without UF is in no E210;
obligations of a UF outside the computation are not examined; two concurrent `calcular` of the Simples read
outside the transaction of `apurar`.

## 5. Proofs

For every value of the constants, from the assumptions the modules name. The safety of a composite
is proved by parts: a lemma (`CincoPartes` and its like) shows that a behaviour of the composite is a
behaviour of each component, and the invariant of the component does the rest.

| Module | Theorems | Inductive invariant |
|---|---|---|
| FiscalClosing_proofs | `TipoCorreto`, `UmaCorrente`, `Imutabilidade`, `RetificacaoSempreAponta`, `EscritaSempreSinaliza`, `RevisaoSempreConverge`, `FechamentoImplementaHistorico` | `IInv`, `HInv` |
| Progresso_proofs | `TiposDoProgresso`, `PosseNoProgresso`, `FilaNoProgresso`, `HistoricoNoProgresso` | those of its parts |
| StorageCleanup_proofs | `PosseDaLimpeza`, `LimpezaImplementaFila` | `InvarianteDaLimpeza` |
| DistribuicaoDfe_proofs | `CursorNuncaPassa`, `ClaimProtegido`, `TipoCorretoDfe` | `IInv`, `Forma` |
| Fechamentos_proofs | `UmaApuracaoFechada`, `ArquivosSempreCoerentes`, `PagamentosSempreRespaldados`, `RepeticaoNuncaDuplica`, `ComprovanteSempreEstavel`, `ExclusaoSempreAgenda`, `ConciliacaoSempreEmVigor`, `TiposDosFechamentos` | `SInv`, `GInv`, `TInv`, `RInv` |
| Operacoes_proofs | `DocumentoCompleto`, `CancelamentoDefinitivo`, `DecisaoDoUsuario`, `JanelasRespeitadas`, `SuspensaoVale`, `InterrupcaoVale`, `CadeiaRespeitada`, `EntregasRespaldadas`, `SubstituicaoVale`, `TiposDasOperacoes` | `DInv`, `CInv`, `EInv`, `FInv`, `TInv` |
| Ciap_proofs | `RazaoSempreConsistente`, `RazaoHistorica`, `AjusteSempreConfere`, `TiposDoCiap` | `IInv`, `AInv` |
| Sped_proofs | `CatalogoPreservado`, `GeracoesRastreadas`, `GeracoesNoSped`, `ReferenciasSempreFecham`, `NadaSempreSeOmite`, `ApuracaoSempreConfere` | `IInv`; `LInv`, `RInv`, `OInv`; `AInv` |

**Why the properties are not inductive.** Each speaks of committed rows and stored objects, and what
breaks it is a request half-way through: it holds what it read, wrote or uploaded and will commit.
Every inductive invariant therefore says, of each request at each point of its handler, what it knows and
still holds of the state *as it is committed now*, and that two requests do not hold the same thing.

* *Closing.* `IInv` has, per transaction, `Controle`, `ComLock`, `Leitura`, `Escrita` (every row it wrote is one
  permitted edit of the row as committed now) and `Fechamento` (one about to commit has promoted its version
  and holds every version committed as current); `Disjuntas` says that transactions write disjoint rows. The key
  step is the commit of `fechar`: the unique partial index and the serialization check make the promoted row
  the only current one. `HInv` adds that a rectification names a delivered version, and that the rows are a
  prefix of the versions, which the refinement needs: the committed table, read as a sequence, is the
  state of `HistoricoFechamento`, and every commit is one of its steps or leaves it as it was.
* *Cleanup.* A worker that believes it owns a job does, unless its lease ran out: then the attempt of the
  row moved past its own and nothing it does is recorded. The refinement maps a claimed job to a scheduled one.
* *Cursor.* The cursor a synchronisation carries, and the last document it treated, have nothing untreated behind
  them; what is left of its batch starts right after and has no gap. `CursorNuncaPassa` has the
  hypothesis `Omissao # "qualquer"`: run `dfe_omissao` refutes it without. `TipoCorretoDfe` has none.
* *Simples* (`SInv`): rows written and not committed are held by one transaction; at every point of `fechar` the
  closing it names is sealed with the values of the version it closes; what an `apurar` saw before the lock is
  a prefix of what is there. Two promotions exclude each other by the unique index.
* *Guias* (`GInv`): two requests hold neither one key nor one guia that either creates; the key of an upload is new
  until its row is written; what a request discards is named by no row.
* *Payments* (`TInv`): payments only grow, so a total read before still backs the PAGO written after; a guia
  whose row a reconciliation wrote stays uncancelled until it ends. The sum of a trail is the fold of the community
  modules, a CHOOSE fixpoint: that it exists, and that the order in which it takes the elements is
  immaterial, is shown once (`QualquerOrdem`) by a least counterexample on the cardinality of the subset.
* *Payrolls* (`RInv`): a key that no request used names nothing; the monthly payroll is kept unique by its index.
* *Documents, SEFAZ, deliveries, CT-e*: `DInv` says what a request read of the row that is still true when it writes;
  `CInv` that every reservation holds its slot (an injection of a window into the slots gives the limit) and that the
  calls of a process have an order in which each awaits the one before; `EInv` that a first upload is alone
  with its delivery; `FInv` that an attempt is counted before its removal is scheduled, and, of a delivery whose only
  counted attempt failed and which no retry is writing, that its removal is scheduled or about to be, and that
  once it is done the object is gone; `TInv` what a transaction that books one of a pair sees of the other.
* *CIAP*: `AInv` says that a month whose adjustment comes from the ledger has one row with the sum of the active
  rows, or none; and, of each transaction between its DELETE and its INSERT, that what it noted covers every
  committed row unless a context was saved meanwhile, which `cruzado` remembers. The sum is again a fold and a
  least counterexample. The theorem excludes the months `ciap_e111` is about, and no others.
* The theorems about what the code does not promise under every interleaving say so: `EntregasRespaldadas` is about
  the first failure, `InterrupcaoVale` excludes a 656 whose block was lost, `NadaSempreSeOmite` the self-party
  documents, and `ApuracaoSempreConfere` compares to two cents (`sped-decimal.ts:50`) and says nothing of IPI,
  whose computation has no obligation.
* *EFD, generations* (`IInv`): a snapshot is the catalogue of some earlier version of each row, and who committed
  moved the rows of purchases. `GeracoesNoSped` carries this to the composite.
* *EFD, preparation* (`InvarianteDoPreparo`): `LInv` says where the loop stands (what is left is a suffix of the
  month, the document opened is its head); `RInv` what the catalogues hold (a code determines what it stands for,
  a register written refers to codes already there); `OInv` what became of every document read. The property
  speaks of a finished preparation only; half-way, a note whose items are still being prepared is in no register yet.
* *EFD, taxes*: the computation is one step, so `AInv` is short and the work is in the sums. A sum of the library is a
  fold in the order of a CHOOSE; for natural numbers over a finite set it is shown to exist and to be
  independent of that order (`SomaDaBiblioteca`), then to be split over a partition (`SomaPorPartes`), renamed
  (`SomaRenomeia`) and rid of zeros (`SomaSemZeros`). So the debits, summed by item, are the analytic registers,
  summed by class (`DebitosDasNotas`), and the ICMS-ST by UF is that of the notes (`StDasUfs`).
  The assumption on the months (`CasoValido`) is that amounts are natural numbers and the sets finite.

**Found while proving.** The number of a new apuração was, in the model, the choice of *a* version above those
seen; the proof asked for the first one, as the source computes it (`(ultima?.versao ?? 0) + 1`,
`simples-nacional.service.ts:320`), and the definition now says so. A trail restricted to its payments, by a
filter of a sequence, is now a fold over the trail, as `projetarSaldoObrigacao` is.

Several expressions of the models read `UNION A \cup B` and `SUBSET A \ B`, which the model checker and the prover
group differently; they are parenthesised, so that both speak of the same set.

**Model-checked only.** Liveness (`AgendadoConclui`, `NotaChega`, `TransacaoTermina`) is out of the prover's reach,
as is ENABLED, and the runs of section 4 are counterexamples. Every other property of a passing run is the
conclusion of a theorem. `RazaoHistorica` (`RazaoSoCresce`: the rows of the ledger are only ever deactivated) is
proved and in no run: each write keeps it by itself.

## 6. Not modelled, and the plan

Left out on purpose: the contents of files and PDFs, parsing, tax tables, e-mail, registers edited one row at
a time, sessions. Hashes and audit trails (best effort in the code) are abstracted. `PROJECT.json` states, component by component,
which operations are missing; the largest are the listings and reports, the onboarding, and the computations
of PIS/COFINS, ST, DIFAL and the annex tables of the Simples.

Next: the tables of the Simples as functions compared with a reference definition; the credits of PIS/COFINS
and the DIFAL as pure operators; replacement of a certificate and of the logo on the pattern of `GuiaDocumentos`.

## 7. Running

    tlc -workers 2 -config MCFechamentos.cfg MCFechamentos
    tlc -workers 2 -config MCProgresso.cfg MCProgresso
    tlapm Fechamentos_proofs.tla

The passing runs take from one to three minutes each; the proofs of `Fechamentos_proofs` and `Operacoes_proofs`
take about fifteen minutes each, the others less.
