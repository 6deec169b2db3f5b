# Verification of the workshop service (ordem de serviço, orçamento, estoque)

TLA+ models, TLC configurations and TLAPS proofs for the backend under `src/src`: a NestJS
service that runs a car workshop. It registers customers and vehicles, takes service orders
from reception to delivery, has their budgets approved by the client, and moves the stock of
parts.

Identifiers keep the Portuguese of the code. Paths are relative to `src/src/modules` unless
they start with `src/`.

## 1. The system

### How it runs

One process is an event loop; `src/k8s/app/hpa.yaml` runs at least two of them on one
PostgreSQL database. A request is a chain of awaited calls. A use case reads rows, checks a
guard of the entity, writes, and emits a domain event through `EmissorEventos`
(`src/src/shared/infrastructure/emissor-eventos`). `emitAsync` awaits the handlers of the
event in the same process; a handler reads again, writes, and emits the next event. Three
facts shape everything below:

- **No transaction spans two calls** (a listing's `replaceAll` is the one transaction, inside
  a call). Other requests run at every `await`, in this process or in another replica.
- **Events are not durable** (`src/docs/adr/0009`): a process that dies takes the rest of its
  chains with it, and there is no outbox, retry or compensation.
- **A handler's exception is swallowed** by the listener wrapper of `@nestjs/event-emitter`:
  the chain stops, the request that began it answers success, and code awaiting `emitir`
  goes on.

### Components

| component | state | operations | in the models |
|---|---|---|---|
| `ordem-servico` | `OrdemServico` (status, dates), `Orcamento`, `OsPeca`, `OsServico`, status history | create, take over, PATCH, list services and parts, approve / refuse the budget, finish, deliver, delete, status webhook; fifteen event handlers | `CicloDeVida`, `StatusOS`, `OrdemServico`, `OrdemServicoProofs` |
| `pecas-insumos` | `Peca` (stock), `PedidoFornecedor`, `ReservaEstoque` | create / adjust / delete a part, order from a supplier, receive, check and debit stock on approval, release the backlog of waiting orders | `Almoxarifado`, `PecasInsumos`, `PecasInsumosProofs`, `PecasIsoladasProofs`, `AlmoxarifadoProofs` |
| `financeiro` | `Pagamento` | register a payment, which emits `PagamentoRegistrado` | an action of `OrdemServico` |
| `cadastro` | customers, vehicles, services | create, update, remove; looked up and created by the registration of an order | `Cadastro`, `CadastroProofs` |
| `src/src/auth` | users, tokens | start-up contract, registration, login, guards and roles | `Acesso`, `AcessoProofs` |
| `src/scripts/seed.ts` | the demonstration data, by stable identifiers | one transaction, run twice per deployment and on each retry of its job | `Carga`, `CargaProofs` |
| `shared` | none | event bus, pagination; filters, Prisma client, logging | the bus in how chains advance and break, `Consultas`, `ConsultasProofs` |
| `health`, `infra`, `k8s`, `docs` | none | probe, deployment, documents | not modelled |

### How they interact

```
Criar ──> [cadastro] customer, vehicle, services ──> OrdemServicoCriada ──> RECEIVED
Assumir ──> UNDER_DIAGNOSIS
Listar ──> ServicosEInsumosListados ──> budget PENDING ──> AWAITING_APPROVAL
Aprovar ──> OrcamentoAprovado ──┬─ no parts ──> IN_PROGRESS
                                └─ parts ──> [pecas-insumos] check ──┬─ debit ──> PecasReservadas ──> IN_PROGRESS
                                                                     └─ short ──> PecasIndisponiveis ──> AWAITING_PARTS
Recusar ──> CLOSED_WITHOUT_EXECUTION
Receber (supplier) ──> stock ──> backlog of AWAITING_PARTS ──> debit + reserve ──> PecasReservadas ──> IN_PROGRESS
Finalizar ──> FINISHED        Pagamento / Entrega ──> PagamentoRegistrado ──> DELIVERED
Webhook ──> any transition of its own table, no event
```

`ordem-servico` and `pecas-insumos` share only events and the backlog query
(`ordem-servico/infrastructure/adapters/ordem-servico-backlog.adapter.ts`). Every request of
every controller first passes the guards of `auth`, which read users and customers. The seed
writes the tables of all of them.

### What makes each part correct, and what makes it hard

- **Life of an order.** No milestone is skipped, nothing executes unless it was authorised,
  finished orders do not come back, an approved budget stays as the client approved it, the
  decision of the client takes effect, execution times are not negative. Hard because every
  guard is evaluated on a row read one `await` before the write, by a use case *and again* by
  each handler, while the PATCH, the webhook, a second listing or a deletion moves the order.
- **Stock.** Never negative; equal to the sum of its movements; debited all or nothing, once
  per order and by what the client approved; a delivery credited once; no order waiting for
  parts that are there. Hard because a movement is a read, a computation in memory and a write
  of the result, item by item, in loops that an exception or a crash leaves half done.
- **Register.** One row per person and plate, no order without its customer, vehicle and
  services. Hard because lookups compare the text of the request, rows hold the canonical
  form, and an update writes what a creation would refuse.
- **Access.** What the rows say now decides, not what the token says; nobody is refused
  without a reason. Hard because a token outlives rows, contracts and deployments, and because
  the guard runs twice on some routes.
- **Seed.** Running it again changes nothing but the hashes of its passwords, and what requests
  did in between does not stop it. Hard because it mixes natural keys and identifiers computed
  from them, and leaves some of the rows it finds alone while it writes over others.
- **Listings.** A reader of all pages misses nothing that stayed. Hard because pages are
  offsets into a listing that moves.

`PROJECT.json` lists each hazard at its line with the property aimed at it.

## 2. Modules

| module | what it is |
|---|---|
| `StatusOS` | the statuses, the entity's guards, the webhook's transition table |
| `CicloDeVida` | what an order's life is promised to be, one action per business event |
| `OrdemServico` | orders, budgets, payments, webhook: every use case and handler that writes; implements `CicloDeVida` |
| `OrdemServicoProofs` | `OrdemServico`: types, milestones and authorisations in every interleaving; without overlap, `CicloDeVida` implemented |
| `Almoxarifado` | what the stock is promised to be: an order's parts leave together, in the step in which it starts |
| `PecasInsumos` | stock, supplier orders, reservations, backlog, and the budgets and orders they depend on; implements `Almoxarifado` |
| `PecasInsumosProofs` | `PecasInsumos` in every interleaving: types, reservations, starts and receipts |
| `PecasIsoladasProofs` | `PecasInsumos` with one request at a time: stock, receipts, budgets, debits, waiting orders |
| `AlmoxarifadoProofs` | `PecasInsumos` with one request at a time and none cut short implements `Almoxarifado` |
| `Cadastro`, `CadastroProofs` | customers, vehicles, services, and the registration of an order; the theorems about them |
| `Acesso`, `AcessoProofs` | start-up contract, registration, login, guards, roles, tokens; the theorems about them |
| `Carga`, `CargaProofs` | the seed, run on a database that requests change; the theorems about it |
| `Consultas`, `ConsultasProofs` | the paginated listings and a reader of all their pages; the theorems about them |
| `MCOrdemServico`, `MCPecasInsumos`, `MCCadastro`, `MCAcesso`, `MCCarga`, `MCConsultas` | finite instances for TLC |

### Sessions

`OrdemServico`, `PecasInsumos`, `Cadastro` and `Acesso` have the same skeleton. A *session* `s`
is a request in flight, `pc[s]` names the database call it makes next, `dados[s]` is what it
holds in memory (`req[s]` is both in `Acesso`). One action is one call with the synchronous
code up to the next `await`; a use case or handler is a chain of them, named after its class
(`GerarOrcamentoHandler` is `GerarLer`, `GerarLerOrcamento`, then `GerarAtualizar` or
`GerarCriar`). A guard that throws before the first write ends the request and leaves no trace,
so the action is just not enabled; one that throws later is a step to `"livre"`. With several
sessions every interleaving of calls is explored, which is that of one event loop and of
several replicas alike.

`Interromper` ends a request between two calls: the process died or a call failed. It is
enabled when `ComFalhas` (always in `Cadastro`). `PecasInsumos` also lets it fail the release
of one order and go on with the next, as the swallowed exception does.

`Isolado` (in `OrdemServico`) admits no second request on an order that has one. In
`PecasInsumos` stock is shared by all orders, so isolation is one session. The properties
under isolation say what the guards are worth when timing is not the problem; section 5 says
what becomes of them without it.

### State and code

`OrdemServico`: `status`, `orc`, `pecas`, `datas`, `pagos` are the rows of an order, its
budget, its items, its dates and its payments. `datas` keeps only the order between
`iniciada_em` and `finalizada_em`, which is the order of their writes. `marcos` (milestones)
and `autorizado` are history variables. `Deletar` cascades as the schema does; a call on a
deleted order finds nothing and throws (`OrdemAusente`).

`PecasInsumos`: `cadastro`, `estoque`, `pedidos`, `reservas` are the rows of the module.
Service orders appear as `itens` (their rows of `OsPeca`), `orcado` (the parts their budget
charges), `aprovadas` and a status in six classes. `saldo`, `creditos`, `debitos`,
`porWebhook`, `ajustadas` are history variables: `saldo` is what the stock would be had each
movement been applied as a difference. A listing is two writes, as in the code: `ListarGravar`
replaces the items, `OrcarGravar` later writes the budget, unless an approved one is there.
The creation of an order with parts is treated as a creation without and a listing.

`Cadastro`: `clientes`, `veiculos`, `servicos`, `ordens` are the rows. A document, plate or
e-mail is its meaning and the way it is written: canonical, formatted, or something the DTO
accepts and the value object refuses. `Numeros`, `Enderecos` and `Letras` are the meanings a
row may hold, of which the requests of a run use some. `BuscarCliente`, `CriarCliente`, `BuscarVeiculo`,
`CriarVeiculo`, `LerServico`, `CriarOrdem`, `VincularServicos` are the calls of
`CriarOrdemServicoUseCase` in their order; its events follow in `OrdemServico`.

`Acesso`: `app` is the JWT contract of the running instance, `usuarios` and `ativos` the rows
the guards read, `cracha` the token each subject holds, `Rotas` the decorators of every
controller. `passes` counts how often `JwtAuthGuard` still has to run: `ordens-servico` and
`auth/register` name it although it is global, and there the bearer is read twice. `Ambientes` says what an
environment is (booleans, a validity or none) and that `PrazoMaximo` bounds the validity of
what starts.

`Carga`: of each row of the seed's tables, whether its natural key and its stable identifier
are taken; of each order of the seed its customer, status and budget. The other columns kept are
those a run writes over in rows it finds: `contas` is, for each seeded account, whether name and
role are the seed's (`perfil`), whether its password is the one of the environment (`senha`)
and which of two salts its stored hash has (`sal`: `seedUser` hashes again on every run, and only
that the hash is another matters); `inativos` are the customers with `ativo` false, and
`ComAtivo` those the seed sets back to true (the customer of `SEEDED_CPF`). Requests register
accounts under seeded e-mails with any name, role and password; none changes or removes an
account, and none writes `ativo`, which is changed from outside (`MudarAtivo`). `updated_at` is
left out. The templates are those of the code with their amounts. Vehicles are read in the order of their identifiers
(`orderBy id`, `take`): `Posicao(S, v)` is how many of the vehicles in `S` come before `v`, the
first `Take` of them are taken, and `Distribuicao(S)` is which template meets which vehicle.

`Consultas`: `leitor` is a client that asks for page after page; a page is two queries in
flight together, answered in any order, with rows of one `created_at` in any order.

### Refinements

`ImplementaCiclo`: the variables of `CicloDeVida` are `status`, the decision on the budget
(`Decisao`, which tells a pending budget worth nothing from one that can be approved) and
the orders whose execution the webhook started. Under isolation each write of a handler is one
business event and every read a stutter: for instance a refusal that dies between the budget
and the status is `Decidir` without `Encerrar`, and never `Encerrar` alone.

`ImplementaAlmoxarifado`: the stock of `Almoxarifado` is the stock plus what the debit under
way has already taken (`Retirados`). With one request at a time and none cut short, the loop of
reads and writes looks like one withdrawal in the step that starts the order.

### Abstractions, and why they are harmless

- Queries, notifications and gateway stubs write no row that is read back, so they are no
  actions; `AnalisarVeiculo` and `AprovarServicoPrestado` only read and emit events nobody
  handles with a write. `entregue_em`, descriptions, prices of items, the rows of
  `os_servicos` and of the status history are write-only for `OrdemServico`.
- `update`, `updateEstoque` and `remove` of the order and part repositories begin with a
  `findOne` that only checks existence: one call. A row that vanishes between makes the write
  throw just the same. In `Cadastro` that read also runs the entity's validation, and is a
  step of its own.
- Money is a pair of small naturals per budget (services, parts): the code only compares the
  totals with zero.
- Lists of items are sets of `<<part, quantity>>`; the loops take them in any order, since the
  queries that load them have no `ORDER BY`. `@@unique` makes a service order's list a
  function of the part; supplier orders have no such key, and the model leaves out lists that
  name a part twice.
- In `OrdemServico` the stock is the choice between `PecasReservadas` and
  `PecasIndisponiveis`. In `PecasInsumos` the life of an order is the graph `Movimentos`
  joined with the webhook's edges, a superset of what the other module does, and the read and
  write of the status by the two status handlers are one step, their race being a matter of
  `OrdemServico`.
- The checks of `SolicitarPecasAoFornecedorUseCase` one part at a time are subsumed by the
  foreign keys of the row it creates.
- CPF / CNPJ check digits (`cpf-cnpj-validator`) and the plate patterns are the three ways of
  writing above: the properties tell nothing finer apart.
- The seed is one step: its transaction is ordered by row locks with requests on the same rows.
  Any error in it is fatal, since PostgreSQL accepts no statement after one in a transaction;
  the `catch` blocks that look a row up again (`src/scripts/seed.ts:631-647`) cannot work there.
- The key pair of a deployment is assumed to match; passwords are the outcome of their
  comparison; throttling is left out.
- Page numbers and sizes are positive; `ListQueryDto` would let zero and negative ones through,
  which PostgreSQL then refuses.

## 3. What the runs check

Deadlock is checked in every passing run but those of `PecasInsumos`, where the finite sets of
identifiers let everything be used up: every part removed and every order closed is a state
where the model, not the system, stops.

| run | question | distinct states |
|---|---|---|
| `OrdemConcorrente` | two overlapping requests on one order, failures anywhere: `MarcosNaoPulados`, `ExecucaoAutorizada`, `SemOrfaos`, and the invariant of the proof | 1,475,372 |
| `OrdemIsolada` | no overlap, failures: every step is one of `CicloDeVida` (`ImplementaCiclo`), approved budgets do not change, executing orders have one, no negative duration | 10,260 |
| `OrdemSemFalhas` | no overlap, no failures: requests end, the client's decision takes full effect | 3,752 |
| `PecasConcorrentes` | two overlapping requests on the stock, failures anywhere: stock never negative, no reservation and no start of execution without its debit, no supplier order `RECEBIDO` with an item missing | about 708,000 |
| `PecasIsoladas` | one request at a time, two orders, failures: the stock is what its movements make it | 3,187,059 |
| `PecasSemFalhas` | one request at a time, no failures: every step is one of `Almoxarifado` (`ImplementaAlmoxarifado`), an approved budget charges the items that will be debited, debits exact and all or nothing, deliveries credited once, no order waits for parts that are there, a receipt serves each order it can | 738,556 |
| `Cadastro` | two overlapping requests on the register, failures anywhere: one row per person and plate, no order without the rows it names, none that disappears for another reason than a removal, no registration refused for what an earlier attempt of it left behind | 765,782 |
| `Acesso` | thirteen environments, one request, accounts and customers changing under it: what runs had a role the route takes, what is refused has a reason, no registration refused or, in production, failed after it wrote its account, no registration written over another | 346,004 |
| `Carga` | the seed any number of times, with four changes by requests at any moments: idempotent up to the hashes of the passwords, one order per template, not stopped by removals, deactivations, progress or plates registered meanwhile | 117,013 |
| `Consultas` | a reader of all pages of a listing, rows created, removed and moved meanwhile: misses nothing that stayed unless something left; with nothing changing, exactly the listing in its documented order | 2,043,351 |

### Bounds

- *One order, two sessions* in `OrdemConcorrente`: requests on different orders share no row,
  and every race of section 5 is between two requests. The proofs of section 4 remove both
  bounds for what they cover.
- *Two part lists* (none, some) and *totals* `<<0,0>>`, `<<1,0>>`, `<<0,1>>`: worthless,
  without parts, with parts: the three cases the code distinguishes. `OrdemConcorrente` has no
  `<<1,0>>`; there the path without parts is taken after the race that approves a zero total.
- *Two parts*, so that a loop has a step to fail at after one that succeeded; *two orders* in
  the one-session runs, so that they compete for stock and the backlog loop has a next;
  *one supplier order* of one of each part, of one part only, or of one part and a zero
  quantity of the other.
- `MaxRecebimentos` stops new receipts of a supplier order once a part of it was credited that
  often: 2 where a repeated receipt must be able to happen in sequence, 1 in the two-session
  runs, where two receipts that both started before the first credit still both go through.
  `MaxDebitos` stops approvals of an order that had more units of a part debited than that: 0,
  so that a chain cut short is not repeated for ever. `Ajustes`, the quantities the
  administrator sets, is 1: stock runs out by debits and grows by receipts and adjustments.
- Two sessions with two orders of parts are beyond a few minutes of TLC; `PecasConcorrentes`
  keeps one order, which its two sessions may both be serving. It takes states that differ only
  in `saldo`, `porWebhook` and `ajustadas` as one (`SemHistoria`): no guard of the module and, but
  for their types, no property of that run reads them. Without the `VIEW` it passes too, with 2,671,069 states.
- `Cadastro`: two people, one of them writing the document in two ways, the other the e-mail in
  capitals; one plate in two ways, two identifiers per table, one service, one order: enough for
  two registrations to meet at every unique key, for a plate to come back after a removal and
  for a vehicle to be used by a customer who does not own it.
- `Acesso`: an administrator, an e-mail that is registered and seeded with another role, and a
  customer; one request, the other replicas being actions of their own; one route of each kind
  of protection; `PrazoMaximo` is the half hour production demands.
- `Carga`: three vehicles of which `Take` = 2 get an order, two customers, three templates (a
  status without a budget, one with a pending and one with an approved budget), so that templates
  go round vehicles and customers; one seeded account, one of the customers in `ComAtivo`;
  `MaxAlteracoes` = 4 changes.
- `Consultas`: three rows, pages of one and two, three instants and statuses: each row can be at
  the edge of a page, two can share an instant.

Symmetry is used on identifiers that no constant tells apart, in runs without liveness.

### Fairness

`WF(Avancar(s))` for each session, in `OrdemServico` and `PecasInsumos`: a call that was issued
is answered, because the event loop serves what is ready and the database driver either answers
or throws. Arriving requests have no fairness: nobody has to approve, pay or deliver.
`RecebimentoAtende` starts from a receipt that was saved, for the same reason.

## 4. What is proved

Every safety invariant, action property and refinement the passing runs check is a theorem for
all values of the constants. Liveness is only model-checked.

| module | theorems | assuming |
|---|---|---|
| `OrdemServicoProofs` | `TipoCorreto`, `PercursoCorreto`, `NenhumMarcoPulado`, `NadaExecutaSemAutorizacao`, `NadaFicaOrfao` | nothing: any overlap, failures anywhere |
| | `CicloImplementado` (the refinement), `ExecucaoSempreAprovada`, `DuracaoSempreNaoNegativa`, `AprovadoSempreImutavel` | `Isolado`: requests on one order do not overlap; any number of orders and sessions, failures anywhere |
| | `DecisaoSempreConcluida` | `Isolado`, no failures |
| `PecasInsumosProofs` | `TipoCorreto`, `ReservaSempreLastreada`, `ReservadasSempreDebitadas`, `RecebidoSempreCompleto` | nothing |
| `PecasIsoladasProofs` | `SaldoSempreFiel` | `UmaDeCadaVez`: one session; failures anywhere |
| | `RecebimentoSempreUnico`, `AprovadoSempreIgual`, `DebitoSempreExato`, `EsperaSempreJustificada` | `UmaDeCadaVez`, no failures |
| `AlmoxarifadoProofs` | `AlmoxarifadoImplementado` (the refinement) | `UmaDeCadaVez`, no failures |
| `CadastroProofs` | `TipoCorreto`, `IdentidadeCorreta`, `IntegridadeCorreta`, `ConflitoSempreExplicado`, `OrdemSoSaiComMotivo` | nothing |
| `AcessoProofs` | `TipoCorreto`, `PapelSempreVigente`, `RecusaSempreExplicada`, `RegistroSempreCompleto`, `PapelSempreFirme` | nothing |
| `CargaProofs` | `TipoCorreto`, `UmaOrdemSempre`, `RemocaoNuncaImpedeCarga`, `CargaSempreIdempotente` | nothing |
| `ConsultasProofs` | `TipoCorreto`, `LeituraSempreCompleta`, `LeituraSempreParada` | nothing |

`Isolado`, `UmaDeCadaVez` and the absence of failures are those of the runs: section 5 says
what the code does without them. "Nothing" leaves the assumptions on the constants, which TLC
evaluates in every run: the shape of lists, totals and request bodies, identifiers that are told
apart (`Parametros`), an `Acesso` started in environments with booleans and a validity
(`Cenario`, `Ambientes`), finitely many rows (`Consultas`). Hardly any of the properties is
inductive by itself. The arguments:

*`OrdemServico`, any overlap.* `MarcosNaoPulados` is not inductive: a handler about to write
`IN_PROGRESS` read the status earlier, and the status may be anything by now. What does hold is
that whatever a session relies on can no longer become false. Milestones reached and
authorisations given are only added to while the order exists, and orders are never created
twice under one identifier. `Justificada(s)` says, per label, which milestone or authorisation
the session's read established (at `"exec_gravar"` the order has awaited approval and is
authorised; at `"entregue_gravar"` it has been finished; at `"web_gravar"` the predecessor of
the status to be written has been reached). It is preserved by the session's own steps because
each read establishes it, and by the others' because they only add. `StatusMarcado` links the
status read to the milestones. `SemOrfaos` needs only that each write is on an existing order,
deletion cascades and a creation is atomic. There is one step per action; how a session moves
(`*Tipo`, `*Move`) and how a row is written (`EscritaPercurso`, `LinhaPercurso`) are lemmas.

*`OrdemServico`, no overlap.* `InvarianteIsolado`: no two sessions have one order (`Sozinhas`),
so what a session read is still so when it writes. `NaOrdem` states per label what it knows of
the status and the budget; `Linha` what holds of any order at rest or not; `Decidida` that
without failures a decided budget has a session that will move its order. A step concerns one
session and one order: `Leva(s, o)` says what it must leave there, and each action is shown to.
`EventoDoCiclo` then turns what a step did to one order into an action of `CicloDeVida`, or a
stutter, the abstract variables of every other order being as they were.

*`PecasInsumos`, any overlap.* Units counted as debited or credited are only added to, so
`Carrega` can say that the items behind a session's position in its list (`Feitos`) are debited
or credited, and no other session withdraws it. A reservation, the event that starts an
execution and the status `RECEBIDO` are each written by a session whose list is behind it.

*`PecasInsumos`, one at a time.* In layers, each on top of those before it: what is about to be
written was computed from the row as it is (`LeituraFresca`), which gives `SaldoFiel`; the
stock covers the items the loop has left (`Cobertura`), so no loop stops half way; a receipt
under way is of a pending order (`RecebimentoEmCurso`); the order in hand has the status, the
items and the budget its request found (`OrdemEmMao`, `Aprovadas`); what is debited is the part
of the list behind the position, and nothing for any other order not yet started
(`DebitoEmCurso`); an order that waits lacks a part, or the release has still to come to it
(`EsperaEmCurso`).

*`Almoxarifado`.* `Prateleiras`: the warehouse's stock of a part is the row's plus what the
session has taken out of it so far. A write of the debit moves units from the one to the other
and is a stutter; the event that starts the order empties the second, which is the withdrawal.

*`Cadastro`.* What any step writes is one of a dozen kinds of write with the keys the database
checked (`Escritas`), and where a session goes it takes what the next call needs
(`Movimentos`). Rows, once there, keep their document or plate until removed for good
(`Evolui`), so what a session carries stays so; documents and plates are stored in the form
the unique keys compare (`FormaCanonica`), which is what `IdentidadeUnica` needs.

*`Acesso`.* `Visto`: what the bearer is now is in `vistos`, because every change of a row
adds to it for every request in flight. `Coerente`: what a request is about to do, it was called
for. With them each guard's decision follows from the row it reads. `RegistroCompleto` needs
`Coerente` (after the write only the signature is left) and `Instancia`: what starts in
production can sign.

*`Carga`.* `InvarianteCarga` says what each kind of change leaves true: until a plate of
the seed is registered every vehicle is whole or absent and the orders stand where the
distribution over the whole fleet puts them (`FrotaInteira`: the choice of vehicles does not
depend on history); rows the seed can live with (`SemObstaculo`); and since the last seed nothing
is missing, the accounts take the passwords of the environment and no customer of `ComAtivo` is
inactive (`Carregada`). Positions of vehicles are shown to be injective, and the first `Take` of
them to exist.

*`Consultas`.* `Lugar(x)` is the number of rows of the listing that come before `x`. A row whose
`created_at` is its own stands at that position in every order a query may return
(`LugarNaOrdem`), so a page holds it exactly when its place is in the window. Rows that come in
or move up only raise places (`MaisNaFrente`), so a row not yet read is never behind the window
(`Completa`). With nothing changing, what has been read is the beginning of the listing
(`Exata`), and a row read before another comes before it (`LidasEmOrdem`).

The invariants these proofs are by induction on were checked by TLC on the instances of the runs
first; `InvariantePercurso` is a property of `OrdemConcorrente`.

*Only model-checked:* the liveness properties `RequisicaoTermina`, `DecisaoProduzEfeito` and
`RecebimentoAtende`. They rest on fairness, hence on `ENABLED`, which the prover does not
handle. The two runs that expect a violation show counterexamples and have nothing to prove.

## 5. Where the code and what is said of it part

Two runs TLC must find violated, listed in `PROJECT.json` with the quotation:

| run | what happens |
|---|---|
| `EstoquePerdido` | two movements of a part read it before either writes; one is lost |
| `WebhookSemToken` | the webhook's route is not public, so a call with the right secret and no JWT is answered 401, although the route matrix says it must never carry one |

Others met while modelling, without a run of their own:

- *A listing overwrites an approved budget.* `GerarOrcamentoHandler` checks that the budget is
  not approved, then writes; an approval saved between the two goes back to `PENDING`. The same
  overlap lets an approval go through on a budget worth nothing by now, and breaks
  `DuracaoNaoNegativa`. Set `Isolado = FALSE` in `OrdemIsolada.cfg` to see them.
- *Overlapping receipts and listings.* Two receipts of one supplier order both find it pending
  and credit it twice; an approval between the two writes of a listing debits items the client
  did not approve. Two sessions in `PecasSemFalhas.cfg` show both.
- *The webhook starts unapproved orders*, whatever the budget is
  (`ordem-servico/domain/services/status-transition.service.ts:27`), although
  `src/docs/contexto-tecnico-consolidado.md:164` says that nothing is executed without explicit
  approval. `CicloDeVida` has it as the action `Sincronizar`, and keeps such orders in `externa`.
- *Delivery without payment.* Registering the delivery emits `PagamentoRegistrado` itself
  (`ordem-servico/application/use-cases/ordem-servico.use-cases.ts:271`); the description of the
  endpoint (`ordem-servico.controller.ts:365`) says it follows the payment.
- *Zero quantities.* The quantity of a supplier order is meant to be positive
  (`pecas-insumos/presentation/dto/peca-insumo.dto.ts:102`), but the array that holds it (line
  117) has no `@ValidateNested`. A zero makes a receipt throw half way, and each retry credits the items
  before it again: `RecebimentoUnicoPositivo` speaks of the other supplier orders.
- *Second debit.* Parts debited on approval leave no reservation row, so an order the webhook
  sends back to wait is debited again by the next receipt.
- *An empty list of parts* leaves the rows of an earlier listing in place while the budget drops
  to the services: what is debited is not what is charged. `AprovadoIgualItens` is about budgets
  that charge parts.
- *Updates store what creations refuse.* A PATCH with a blank name or an address the value object
  refuses is answered as an error and stays written; the customer can then be neither read, updated
  nor removed, and orders cannot be registered for it. E-mails of a PATCH are not brought to
  lower case, so that two customers can hold one mailbox. A vehicle found by its plate may be another customer's, whose
  removal takes the order along.
- *The seed resets the orders it finds* (`src/scripts/seed.ts:720`) to their templates' status,
  customer and items, its accounts to their names, roles and passwords (line 548, also when a
  request registered them first) and the customer of `SEEDED_CPF` to active (line 573), although
  the deployment calls it non-destructive and `src/docs/runbooks/comprehensive-seed.md:5` says it
  neither deletes nor resets data. Editing
  the description of a seeded order makes every later seed fail on its identifier. Registering a
  plate of the seed shifts the later templates to other vehicles and gives them a second order.
- *Registration.* Two of one e-mail that overlap end in a 500 instead of a 409. Outside
  production an RS256 deployment without a private key creates accounts and then fails; the retry
  is told that the e-mail exists. Behind the gateway a customer's token without a role acts as
  `RECEPCIONISTA`.
- *Pages.* A row that leaves the listing, or a tie of `created_at`, makes a reader miss a row,
  and the total of a page may be another moment's.

The life-cycle drawn in `src/README.md` lacks edges the code takes: the PATCH moves an order
between its first three statuses in any direction, the webhook closes it before a budget
exists, and missing parts send it from `AWAITING_APPROVAL` straight to `AWAITING_PARTS`.
`CicloDeVida` is the life-cycle the code follows.

Two further consequences are documented as hazards and not as disagreements: an order cut short
after its first reservation is never released again, and a chain that dies after the approval
leaves an order that can be neither approved nor refused.

## 6. Not modelled

- `health`: a read-only probe. Manifests of `infra` and `k8s`, and the wiring of the modules.
- The mean execution time and the totals of budgets: arithmetic on query results, of which only
  the sign matters to other code (`DuracaoNaoNegativa`, totals of zero).
- Throttling, password hashing, notifications, metrics, logging. `JwtCustomerAuthGuard` is used
  by no route.
- The `oldSeed...` functions of the seed, which nothing calls.
- Prisma and PostgreSQL: a call is atomic, single statements do not deadlock, a failed call
  writes nothing (`Interromper` covers the failure).

## 7. Plan

Done, in this order: `StatusOS` and `OrdemServico`, the heart of the system; its proofs;
`PecasInsumos`; the abstract specifications `CicloDeVida` and `Almoxarifado` with their
refinements; the budgets in `PecasInsumos`; `Cadastro`, `Carga`, `Acesso`, `Consultas`; then
the proofs of section 4, module by module. Next:

1. Weaker assumptions for `PecasInsumos`: `SaldoFiel`, receipts and debits need only that no two
   requests work on the same part or order at a time, not that there is one session.
2. The safety half of the liveness properties: a measure per label that each step of a chain
   lowers, so that what is left to TLC is fairness alone.
3. Consequences of the abstract specifications, proved on them and inherited through the
   refinements: a finished order does not come back, a refused one does not execute.
