------------------------------- MODULE Carga --------------------------------
(***************************************************************************)
(* The seed of src/scripts/seed.ts, which the deployment runs twice and    *)
(* again whenever its job fails, on a database that the service changes    *)
(* in between.                                                             *)
(*                                                                         *)
(* The seed looks rows up by a natural key (e-mail, document, plate, name, *)
(* code) and gives the ones it creates an identifier computed from that    *)
(* key (stableSeedId); requests create rows with random identifiers. Of a  *)
(* row of the seed's tables it matters whether its key is taken ("chave"), *)
(* whether its stable identifier is ("id"), and whether the e-mail of an   *)
(* absent customer is ("email"). A seeded row has both key and identifier. *)
(* Of the columns it matters what the seed writes over on every run: name, *)
(* role and password of its accounts, "ativo" of the customer of the smoke *)
(* test, and the orders. Time stamps (updated_at) are left out.            *)
(*                                                                         *)
(* The seed is one transaction and one step here: row locks order it       *)
(* before or after a request that changes the same rows. Any error of the  *)
(* database aborts it: PostgreSQL accepts no statement after an error in a *)
(* transaction, so the retries and lookups of the catch blocks fail too.   *)
(***************************************************************************)
EXTENDS Integers, Sequences, FiniteSets

CONSTANTS
  Tamanho,        \* rows of the seed's table for each table
  Modelos,        \* the order templates: OS_TEMPLATES, or a part of it
  PosicaoId,      \* position of each vehicle's stable identifier in their order
  Take,           \* vehicles that get an order (10)
  ComAtivo,       \* customers whose template says that they are active: SEEDED_CPF
  MaxAlteracoes   \* bound: changes made by requests

Tabelas == {"usuario", "cliente", "veiculo", "servico", "peca"}
Chaves(t) == 0 .. Tamanho[t] - 1

\* The rows of the seed's tables, by their position: CLIENTES,
\* VEICULOS_TEMPLATE, SERVICOS and PECAS_INSUMOS.
Clientes == Chaves("cliente")
Frota    == Chaves("veiculo")
Servicos == Chaves("servico")
Pecas    == Chaves("peca")

Fatos == {"chave", "id", "email"}

\* An account: whether name and role are those of the seed, whether its
\* password is the one of the environment, and the salt of the stored hash, of
\* which it matters only whether it is another than before.
Conta == [perfil : {"semente", "outro"}, senha : {"semente", "outra"}, sal : {0, 1}]
SemConta == [perfil |-> "ausente", senha |-> "ausente", sal |-> 0]

\* What a template gives an order: amounts in cents.
Orcamento(servicos, pecas, st) == [status |-> st, servicos |-> servicos, pecas |-> pecas]
SemOrcamento == Orcamento(0, 0, "ausente")
Modelo(st, orcamento) == [status |-> st, orcamento |-> orcamento]

OS_TEMPLATES ==
  << Modelo("RECEIVED", SemOrcamento),
     Modelo("UNDER_DIAGNOSIS", SemOrcamento),
     Modelo("AWAITING_APPROVAL", Orcamento(28000, 8990, "PENDING")),
     Modelo("IN_PROGRESS", Orcamento(85000, 23000, "APPROVED")),
     Modelo("FINISHED", Orcamento(45000, 18500, "APPROVED")),
     Modelo("DELIVERED", Orcamento(20000, 0, "APPROVED")),
     Modelo("AWAITING_APPROVAL", Orcamento(15000, 4990, "REJECTED")),
     Modelo("DELIVERED", Orcamento(19000, 28000, "APPROVED")),
     Modelo("IN_PROGRESS", Orcamento(43000, 0, "APPROVED")),
     Modelo("DELIVERED", Orcamento(31000, 0, "REJECTED")) >>

\* What requests may have made of a seeded order.
Avancos == {Modelo("AWAITING_APPROVAL", Orcamento(12000, 4500, "PENDING")),
            Modelo("DELIVERED", Orcamento(12000, 4500, "APPROVED"))}

ASSUME Parametros ==
  /\ Tamanho \in [Tabelas -> Nat \ {0}]
  /\ PosicaoId \in [Frota -> Nat]
  /\ \A v, w \in Frota : PosicaoId[v] = PosicaoId[w] => v = w
  /\ Modelos \in Seq({OS_TEMPLATES[i] : i \in DOMAIN OS_TEMPLATES})
  /\ Take \in Nat \ {0} /\ MaxAlteracoes \in Nat
  /\ ComAtivo \subseteq Clientes

VARIABLES
  linhas,       \* what is taken of each row of the seed's tables
  ordens,       \* orders of each seeded vehicle and template
  fornecedor,   \* whether the supplier order of the seed is there
  contas,       \* the accounts with the e-mails of the seed
  inativos,     \* customers that are there and not active
  alteracoes,   \* history: changes made by requests
  naCarga,      \* history: their number at the last seed, -1 before it
  causas        \* history: kinds of change made

pessoas == <<contas, inativos>>
banco == <<linhas, ordens, fornecedor, pessoas>>
vars  == <<banco, alteracoes, naCarga, causas>>

-----------------------------------------------------------------------------
Celulas == Frota \X DOMAIN Modelos

\* "editada": the row with the stable identifier has another description.
SemOrdem == [st |-> "ausente", cliente |-> 0, modelo |-> Modelo("RECEIVED", SemOrcamento),
             vinculada |-> FALSE]
Exemplos == {OS_TEMPLATES[i] : i \in DOMAIN OS_TEMPLATES} \cup Avancos \cup {SemOrdem.modelo}
Ordem == [st : {"ausente", "semente", "editada"}, cliente : Clientes,
          modelo : [status : {m.status : m \in Exemplos},
                    orcamento : {m.orcamento : m \in Exemplos}],
          vinculada : BOOLEAN]

Causas == {"remocao", "progresso", "situacao", "renomeacao", "registro", "registro_veiculo",
           "descricao"}

\* A row with a stable identifier but another key exists in the services only,
\* whose name a request may change; a taken e-mail is a customer's.
TipoLinhas ==
  /\ linhas = [t \in Tabelas |-> linhas[t]]
  /\ \A t \in Tabelas : linhas[t] \in [Chaves(t) -> SUBSET Fatos]
  /\ \A t \in Tabelas : \A k \in Chaves(t) :
       /\ linhas[t][k] = {"id"} => t = "servico"
       /\ "email" \in linhas[t][k] => t = "cliente" /\ "id" \notin linhas[t][k]

\* An order stands on a seeded vehicle, and one with the seed's items has them
\* there.
TipoOrdens ==
  /\ ordens \in [Celulas -> Ordem]
  /\ \A e \in Celulas : ordens[e].st # "ausente" =>
       /\ "id" \in linhas["veiculo"][e[1]]
       /\ "chave" \in linhas["cliente"][ordens[e].cliente]
       /\ ordens[e].vinculada => "id" \in linhas["peca"][(e[2] - 1) % Tamanho["peca"]]

\* There is an account where the e-mail is taken; an inactive customer is there.
TipoPessoas ==
  /\ contas \in [Chaves("usuario") -> Conta \cup {SemConta}]
  /\ \A u \in Chaves("usuario") : contas[u] # SemConta <=> "chave" \in linhas["usuario"][u]
  /\ inativos \subseteq Clientes
  /\ \A c \in inativos : "chave" \in linhas["cliente"][c]

\* The rows have the shape the schema gives them, and the references between
\* them hold: foreign keys.
TypeOK ==
  /\ TipoLinhas /\ TipoOrdens /\ TipoPessoas
  /\ fornecedor \in BOOLEAN
  /\ alteracoes \in 0 .. MaxAlteracoes /\ naCarga \in -1 .. MaxAlteracoes
  /\ causas \subseteq Causas

Init ==
  /\ linhas = [t \in Tabelas |-> [k \in Chaves(t) |-> {}]]
  /\ ordens = [e \in Celulas |-> SemOrdem]
  /\ fornecedor = FALSE
  /\ contas = [u \in Chaves("usuario") |-> SemConta] /\ inativos = {}
  /\ alteracoes = 0 /\ naCarga = -1 /\ causas = {}

Presente(e) == ordens[e].st # "ausente"

-----------------------------------------------------------------------------
(* The seed.                                                               *)

\* Mutant: a table is filled when it is empty.
MutanteSemeia(t) ==
  [k \in Chaves(t) |-> IF \E j \in Chaves(t) : linhas[t][j] # {}
                       THEN linhas[t][k] ELSE {"chave", "id"}]

\* upsert by the natural key, or findFirst and create: a row that holds the key
\* keeps its identifier, whatever that is. What the update writes into the rows
\* of users and customers is SeedUser and ComAtivo.
Semeia(t) ==
  [k \in Chaves(t) |-> IF "chave" \in linhas[t][k] THEN linhas[t][k] ELSE {"chave", "id"}]

\* seedUser writes name, role and a new hash of the password, whether the
\* account is there or not: bcrypt draws another salt each time.
SeedUser(u) == [perfil |-> "semente", senha |-> "semente", sal |-> 1 - contas[u].sal]

\* The creation of a row runs into its identifier or its e-mail.
Colide(t) == \E k \in Chaves(t) : "chave" \notin linhas[t][k] /\ linhas[t][k] # {}

\* Mutant: the vehicles are read before the missing ones are created.
MutanteSeededVehicles == {v \in Frota : "id" \in linhas["veiculo"][v]}

\* The vehicles that have their stable identifier once seedVeiculos is done.
SeededVehicles == {v \in Frota : "id" \in Semeia("veiculo")[v]}

\* The place of v among the vehicles S, in the order of their identifiers.
Posicao(S, v) == Cardinality({w \in S : PosicaoId[w] < PosicaoId[v]})

\* The first of them.
Veiculos(S) == {v \in S : Posicao(S, v) < Take}

\* Templates go round the vehicles and, apart, round the customers: the
\* customer of the order need not be the owner of its vehicle.
Distribuicao(S) ==
  {e \in Veiculos(S) \X DOMAIN Modelos :
     Posicao(S, e[1]) = (e[2] - 1) % Cardinality(Veiculos(S))}
Escolhidas == Distribuicao(SeededVehicles)
ClienteDoModelo(i) == (i - 1) % Tamanho["cliente"]

\* findOrCreateOrdem looks an order up by vehicle and description: the
\* identifier of a new one is taken when its description was edited.
OrdemColide(e) == ordens[e].st = "editada"

\* Mutant: an existing order gets the budget of its template only when it has
\* the template's status already.
MutanteSeedOrdem(e) ==
  LET m == Modelos[e[2]] IN
  [st |-> "semente", cliente |-> ClienteDoModelo(e[2]), vinculada |-> TRUE,
   modelo |-> IF m.orcamento # SemOrcamento /\ (~ Presente(e) \/ ordens[e].modelo.status = m.status)
              THEN m ELSE Modelo(m.status, ordens[e].modelo.orcamento)]

\* findOrCreateOrdem, upsertOrcamento and seedRelations leave the order with
\* the template's status, customer and items; a template without a budget
\* leaves the budget of an existing order alone.
SeedOrdem(e) ==
  LET m == Modelos[e[2]] IN
  [st |-> "semente", cliente |-> ClienteDoModelo(e[2]), vinculada |-> TRUE,
   modelo |-> IF m.orcamento # SemOrcamento THEN m
              ELSE Modelo(m.status, ordens[e].modelo.orcamento)]

\* seedRelations names services and parts by their stable identifiers, and the
\* supplier order names the first part.
ItemExiste(e) ==
  /\ "id" \in Semeia("servico")[(e[2] - 1) % Tamanho["servico"]]
  /\ "id" \in Semeia("peca")[(e[2] - 1) % Tamanho["peca"]]

PodeCarregar ==
  /\ ~ \E t \in Tabelas : Colide(t)
  /\ \A e \in Escolhidas : ~ OrdemColide(e) /\ ItemExiste(e)
  /\ "id" \in Semeia("peca")[0]

Seed ==
  /\ PodeCarregar
  /\ linhas' = [t \in Tabelas |-> Semeia(t)]
  /\ ordens' = [e \in Celulas |-> IF e \in Escolhidas THEN SeedOrdem(e) ELSE ordens[e]]
  /\ fornecedor' = TRUE
  /\ contas' = [u \in Chaves("usuario") |-> SeedUser(u)]
  /\ inativos' = inativos \ ComAtivo
  /\ naCarga' = alteracoes
  /\ UNCHANGED <<alteracoes, causas>>

\* The transaction is rolled back and the process exits with 1.
SeedFalha == ~ PodeCarregar /\ UNCHANGED vars

-----------------------------------------------------------------------------
(* Requests, between two runs of the seed.                                 *)

Altera(causa) ==
  /\ alteracoes < MaxAlteracoes /\ alteracoes' = alteracoes + 1
  /\ causas' = causas \cup {causa}
  /\ UNCHANGED naCarga

Linha(t, k, fatos) == linhas' = [linhas EXCEPT ![t][k] = fatos]

ApagaLinhas(R) ==
  linhas' = [t \in Tabelas |-> [k \in Chaves(t) |-> IF <<t, k>> \in R THEN {} ELSE linhas[t][k]]]

\* The orders of the customers and vehicles go with them.
ApagaOrdens(C, V) ==
  ordens' = [e \in Celulas |-> IF e[1] \in V \/ (Presente(e) /\ ordens[e].cliente \in C)
                               THEN SemOrdem ELSE ordens[e]]

\* A customer goes with the vehicles the seed gave it.
DeleteCliente(c) ==
  LET frota == {v \in Frota : v % Tamanho["cliente"] = c /\ "id" \in linhas["veiculo"][v]} IN
  /\ "chave" \in linhas["cliente"][c]
  /\ ApagaLinhas({<<"cliente", c>>} \cup ({"veiculo"} \X frota))
  /\ ApagaOrdens({c}, frota)
  /\ inativos' = inativos \ {c}
  /\ Altera("remocao") /\ UNCHANGED <<fornecedor, contas>>

DeleteVeiculo(v) ==
  /\ "chave" \in linhas["veiculo"][v]
  /\ ApagaLinhas({<<"veiculo", v>>}) /\ ApagaOrdens({}, {v})
  /\ Altera("remocao") /\ UNCHANGED <<fornecedor, pessoas>>

\* Mutant: the items of the orders do not hold them.
MutanteVinculado(t, k) == t = "peca" /\ k = 0 /\ fornecedor

\* Items of orders hold services and parts (Restrict), the supplier order the
\* first part.
Vinculado(t, k) ==
  \/ t = "peca" /\ k = 0 /\ fornecedor
  \/ \E e \in Celulas : ordens[e].vinculada /\ (e[2] - 1) % Tamanho[t] = k

DeleteItem(t, k) ==
  /\ linhas[t][k] # {} /\ ~ Vinculado(t, k)
  /\ ApagaLinhas({<<t, k>>})
  /\ Altera("remocao") /\ UNCHANGED <<ordens, fornecedor, pessoas>>

\* A row is registered by a request under a key of the seed: a random
\* identifier, and an account with any name, role and password. No request
\* changes an account or removes one, and a new customer is active.
Registrar(t, k) ==
  /\ "chave" \notin linhas[t][k] /\ "email" \notin linhas[t][k]
  /\ Linha(t, k, linhas[t][k] \cup {"chave"})
  /\ \/ t = "usuario" /\ \E c \in Conta : contas' = [contas EXCEPT ![k] = c]
     \/ t # "usuario" /\ UNCHANGED contas
  /\ Altera(IF t = "veiculo" THEN "registro_veiculo" ELSE "registro")
  /\ UNCHANGED <<ordens, fornecedor, inativos>>

\* A customer with another document takes the e-mail.
RegistrarEmail(c) ==
  /\ linhas["cliente"][c] = {}
  /\ Linha("cliente", c, {"email"})
  /\ Altera("registro") /\ UNCHANGED <<ordens, fornecedor, pessoas>>

\* External: a customer is deactivated or activated. No handler writes the
\* column.
MudarAtivo(c) ==
  /\ "chave" \in linhas["cliente"][c]
  /\ inativos' = IF c \in inativos THEN inativos \ {c} ELSE inativos \cup {c}
  /\ Altera("situacao") /\ UNCHANGED <<linhas, ordens, fornecedor, contas>>

RenomearServico(x) ==
  /\ linhas["servico"][x] = {"chave", "id"}
  /\ Linha("servico", x, {"id"})
  /\ Altera("renomeacao") /\ UNCHANGED <<ordens, fornecedor, pessoas>>

\* The order advances, its budget with it; a new listing replaces its items.
AvancarOrdem(e, m, vinculada) ==
  /\ Presente(e) /\ (vinculada => ordens[e].vinculada)
  /\ ordens' = [ordens EXCEPT ![e].modelo = m, ![e].vinculada = vinculada]
  /\ Altera("progresso") /\ UNCHANGED <<linhas, fornecedor, pessoas>>

EditarDescricao(e) ==
  /\ ordens[e].st = "semente"
  /\ ordens' = [ordens EXCEPT ![e].st = "editada"]
  /\ Altera("descricao") /\ UNCHANGED <<linhas, fornecedor, pessoas>>

DeletarOrdem(e) ==
  /\ Presente(e)
  /\ ordens' = [ordens EXCEPT ![e] = SemOrdem]
  /\ Altera("remocao") /\ UNCHANGED <<linhas, fornecedor, pessoas>>

Requisicao ==
  \/ \E c \in Clientes : DeleteCliente(c) \/ RegistrarEmail(c) \/ MudarAtivo(c)
  \/ \E v \in Frota : DeleteVeiculo(v)
  \/ \E t \in Tabelas : \E k \in Chaves(t) : Registrar(t, k)
  \/ \E x \in Servicos : DeleteItem("servico", x) \/ RenomearServico(x)
  \/ \E p \in Pecas : DeleteItem("peca", p)
  \/ \E e \in Celulas :
       \/ \E m \in Avancos, b \in BOOLEAN : AvancarOrdem(e, m, b)
       \/ EditarDescricao(e) \/ DeletarOrdem(e)

Next == Seed \/ SeedFalha \/ Requisicao

Spec == Init /\ [][Next]_vars

-----------------------------------------------------------------------------
(* Properties.                                                             *)

\* A seed that is run again with nothing changed since the last one leaves
\* rows, orders and the activity of customers as they are, and each account its
\* name, role and password: of what is modelled only the hashes of the passwords
\* are renewed. A job that dies after its commit may simply be retried.
CargaIdempotente ==
  [][Seed /\ alteracoes = naCarga =>
       /\ UNCHANGED <<linhas, ordens, fornecedor, inativos>>
       /\ \A u \in Chaves("usuario") : /\ contas'[u].perfil = contas[u].perfil
                                      /\ contas'[u].senha = contas[u].senha]_vars

\* As long as no request has registered a plate of the seed, running it any
\* number of times gives each template one order, whatever was removed, edited
\* or advanced in between.
UmaOrdemPorModelo ==
  "registro_veiculo" \notin causas =>
    \A d, e \in Celulas : Presente(d) /\ Presente(e) /\ d[2] = e[2] => d = e

\* Removals of customers, vehicles, services, parts and orders, customers that
\* are deactivated, the progress of orders and plates registered by requests
\* never make the seed fail.
RemocaoNaoImpedeCarga ==
  causas \subseteq {"remocao", "progresso", "situacao", "registro_veiculo"} => PodeCarregar

=============================================================================
