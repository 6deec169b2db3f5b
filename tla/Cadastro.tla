------------------------------ MODULE Cadastro ------------------------------
(***************************************************************************)
(* Customers, vehicles and services, as src/src/modules/cadastro keeps     *)
(* them, and the registration of a service order, which looks them up and  *)
(* creates the ones it misses.                                             *)
(*                                                                         *)
(* The database enforces unique columns and foreign keys on each write; no *)
(* transaction spans two writes of a request. What is written passes an    *)
(* entity only on creation, what is read passes it always: an update       *)
(* writes the body as it came, and a row the entity then refuses can be    *)
(* neither read, updated nor removed by a later request.                   *)
(*                                                                         *)
(* As in OrdemServico, a session is one request and one action is one      *)
(* database call with the code up to the next. Parts of an order are left  *)
(* to PecasInsumos: they are looked up and linked as its services are.     *)
(***************************************************************************)
EXTENDS Naturals, FiniteSets

CONSTANTS
  Clientes, Veiculos, Servicos, Ordens,  \* identifiers (random UUIDs)
  Sessoes,                               \* requests in flight at the same time
  Numeros, Enderecos, Letras,            \* what a document, an e-mail, a plate identifies
  Fichas,                                \* customers, as request bodies give them
  Placas,                                \* licence plates, as request bodies give them
  Alteracoes,                            \* what an update of a customer gives
  Nada                                   \* no identifier, column left alone

\* How a document, a plate or an e-mail is written. "canonica" is the form a
\* creation stores: digits only, capitals without separators, lower case.
\* "formatada" is another way to write the same thing, "invalida" one that the
\* request's DTO accepts and the value object does not.
Grafia == {"canonica", "formatada", "invalida"}
Texto  == {"preenchido", "em_branco"}

Documentos  == [numero : Numeros, grafia : Grafia]
Emails      == [endereco : Enderecos, grafia : Grafia]
TodasPlacas == [letras : Letras, grafia : Grafia]

ASSUME Parametros ==
  /\ Fichas \subseteq [documento : Documentos, email : Emails, nome : Texto]
  /\ Placas \subseteq TodasPlacas
  /\ Alteracoes \subseteq [nome : Texto \cup {Nada}, email : Emails \cup {Nada}]
  /\ Nada \notin Clientes \cup Veiculos \cup Ordens \cup Texto
  /\ Nada \notin Documentos \cup Emails \cup TodasPlacas

VARIABLES
  clientes,    \* rows of Cliente
  veiculos,    \* rows of Veiculo
  servicos,    \* services that have their row
  ordens,      \* rows of OrdemServico with their OsServico
  pc,          \* the database call each session makes next, or its answer
  dados        \* what the session carries in memory

cadastro == <<clientes, veiculos, servicos, ordens>>
vars     == <<cadastro, pc, dados>>

-----------------------------------------------------------------------------
(* Value objects and entities.                                             *)

\* Mutant: the value is stored as it is written.
MutanteCriarVo(v) == v

\* CpfCnpjVo.criar, PlacaVeiculoVo.criar, ContatoVo.criar
CriarVo(v) == [v EXCEPT !.grafia = "canonica"]

\* Cliente.criar and Veiculo.criar accept the stored columns.
ClienteValido(nome, email) == nome = "preenchido" /\ email.grafia # "invalida"
FichaValida(f) == f.documento.grafia # "invalida" /\ ClienteValido(f.nome, f.email)
VeiculoValido(modelo) == modelo = "preenchido"

-----------------------------------------------------------------------------
(* Rows. An identifier is used once: "novo", "presente", "removido".       *)

Situacao == {"novo", "presente", "removido"}

SemCliente == [st |-> "novo", documento |-> Nada, email |-> Nada, nome |-> "em_branco"]
SemVeiculo == [st |-> "novo", placa |-> Nada, dono |-> Nada, modelo |-> "em_branco"]
SemOrdem   == [st |-> "novo", cliente |-> Nada, veiculo |-> Nada, servicos |-> {}]

Existentes(tabela) == {i \in DOMAIN tabela : tabela[i].st = "presente"}

ClienteLegivel(c) == ClienteValido(clientes[c].nome, clientes[c].email)
VeiculoLegivel(v) == VeiculoValido(veiculos[v].modelo)

Vazio == [cliente |-> Nada, veiculo |-> Nada, ordem |-> Nada, ficha |-> Nada,
          placa |-> Nada, alteracao |-> Nada, modelo |-> Nada, servicos |-> {},
          fila |-> {}, vistos |-> {}]

Chamadas  == {"cliente_gravar", "cliente_apagar", "veiculo_gravar", "veiculo_apagar",
              "os_criar_cliente", "os_buscar_veiculo", "os_criar_veiculo",
              "os_servico", "os_criar", "os_vincular"}

LinhasCliente ==
  [st : {"presente"}, documento : Documentos, email : Emails, nome : Texto]
    \cup {SemCliente, [SemCliente EXCEPT !.st = "removido"]}
LinhasVeiculo ==
  [st : {"presente"}, placa : TodasPlacas, dono : Clientes, modelo : Texto]
    \cup {SemVeiculo, [SemVeiculo EXCEPT !.st = "removido"]}
LinhasOrdem ==
  [st : {"presente"}, cliente : Clientes, veiculo : Veiculos, servicos : SUBSET Servicos]
    \cup {SemOrdem, [SemOrdem EXCEPT !.st = "removido"]}

Dados ==
  [cliente : Clientes \cup {Nada}, veiculo : Veiculos \cup {Nada},
   ordem : Ordens \cup {Nada}, ficha : Fichas \cup {Nada},
   placa : Placas \cup {Nada}, alteracao : Alteracoes \cup {Nada},
   modelo : Texto \cup {Nada}, servicos : SUBSET Servicos, fila : SUBSET Servicos,
   vistos : (SUBSET Clientes) \cup (SUBSET Veiculos)]

TipoBanco ==
  /\ clientes \in [Clientes -> LinhasCliente]
  /\ veiculos \in [Veiculos -> LinhasVeiculo]
  /\ servicos \subseteq Servicos
  /\ ordens \in [Ordens -> LinhasOrdem]

TipoSessao ==
  /\ pc \in [Sessoes -> {"livre"} \cup Chamadas]
  /\ dados \in [Sessoes -> Dados]

\* Rows have the shape of the schema: columns hold what the constants mention,
\* a row of an order names its customer and vehicle, and a session what it read.
TypeOK == TipoBanco /\ TipoSessao

Init ==
  /\ clientes = [c \in Clientes |-> SemCliente]
  /\ veiculos = [v \in Veiculos |-> SemVeiculo]
  /\ servicos = {}
  /\ ordens = [o \in Ordens |-> SemOrdem]
  /\ pc = [s \in Sessoes |-> "livre"]
  /\ dados = [s \in Sessoes |-> Vazio]

-----------------------------------------------------------------------------
(* How a request advances and ends.                                        *)

Chama(s, rotulo, d) == pc' = [pc EXCEPT ![s] = rotulo] /\ dados' = [dados EXCEPT ![s] = d]

\* A request ends the same whether it succeeds or is refused: by an entity
\* (400), a missing row (404) or a key of the database (500).
Termina(s) == Chama(s, "livre", Vazio)
Falha(s)   == Termina(s) /\ UNCHANGED cadastro

\* A request with a single write; refused without one it leaves no trace.
DeUmaVez(s) == pc[s] = "livre" /\ UNCHANGED <<pc, dados>>

\* The process dies.
Interromper(s) == pc[s] # "livre" /\ Termina(s) /\ UNCHANGED cadastro

-----------------------------------------------------------------------------
(* What the database does on a write: unique keys, foreign keys, cascades. *)

ClienteRepetido(documento, email, exceto) ==
  \E c \in Existentes(clientes) \ exceto :
    clientes[c].documento = documento \/ clientes[c].email = email

PlacaRepetida(placa) == \E v \in Existentes(veiculos) : veiculos[v].placa = placa

InsereCliente(c, f) ==
  /\ clientes[c].st = "novo"
  /\ clientes' = [clientes EXCEPT ![c] =
       [st |-> "presente", documento |-> CriarVo(f.documento),
        email |-> CriarVo(f.email), nome |-> "preenchido"]]
  /\ UNCHANGED <<veiculos, servicos, ordens>>

InsereVeiculo(v, placa, dono) ==
  /\ veiculos[v].st = "novo"
  /\ veiculos' = [veiculos EXCEPT ![v] =
       [st |-> "presente", placa |-> CriarVo(placa), dono |-> dono, modelo |-> "preenchido"]]
  /\ UNCHANGED <<clientes, servicos, ordens>>

ApagaOrdens(C, V) ==
  ordens' = [o \in Ordens |-> IF ordens[o].cliente \in C \/ ordens[o].veiculo \in V
                              THEN [SemOrdem EXCEPT !.st = "removido"] ELSE ordens[o]]

\* Cascade: the orders of the customers and of the vehicles given, the vehicles
\* of the customers, and the orders of these.
Apaga(C, V) ==
  LET frota == V \cup {v \in Existentes(veiculos) : veiculos[v].dono \in C} IN
  /\ clientes' = [c \in Clientes |-> IF c \in C THEN [SemCliente EXCEPT !.st = "removido"]
                                     ELSE clientes[c]]
  /\ veiculos' = [v \in Veiculos |-> IF v \in frota THEN [SemVeiculo EXCEPT !.st = "removido"]
                                     ELSE veiculos[v]]
  /\ ApagaOrdens(C, frota)
  /\ UNCHANGED servicos

-----------------------------------------------------------------------------
(* Customers.                                                              *)

CreateCliente(s, f) ==
  /\ FichaValida(f) /\ ~ ClienteRepetido(CriarVo(f.documento), CriarVo(f.email), {})
  /\ \E c \in Clientes : InsereCliente(c, f)
  /\ DeUmaVez(s)

\* findById, which every update and removal starts with.
FindCliente(s, c, rotulo, d) ==
  /\ pc[s] = "livre" /\ c \in Existentes(clientes) /\ ClienteLegivel(c)
  /\ Chama(s, rotulo, [d EXCEPT !.cliente = c])
  /\ UNCHANGED cadastro

\* A PATCH gives some of the columns; Nada is one it leaves alone.
UpdateCliente(s, c, alteracao) ==
  FindCliente(s, c, "cliente_gravar", [Vazio EXCEPT !.alteracao = alteracao])

Dado(novo, antigo) == IF novo = Nada THEN antigo ELSE novo

\* Mutant: the row is written whether it is there or not.
MutanteUpdateClienteGravar(s) ==
  LET c == dados[s].cliente IN
  /\ pc[s] = "cliente_gravar"
  /\ clientes' = [clientes EXCEPT ![c].nome = Dado(dados[s].alteracao.nome, @),
                                  ![c].email = Dado(dados[s].alteracao.email, @)]
  /\ Termina(s)
  /\ UNCHANGED <<veiculos, servicos, ordens>>

\* The columns are written as they came. The row is then read back: what the
\* entity refuses is answered as an error, and stays written.
UpdateClienteGravar(s) ==
  LET c == dados[s].cliente
      nome == Dado(dados[s].alteracao.nome, clientes[c].nome)
      email == Dado(dados[s].alteracao.email, clientes[c].email)
  IN
  /\ pc[s] = "cliente_gravar"
  /\ Termina(s)
  /\ IF clientes[c].st = "presente" /\ ~ ClienteRepetido(Nada, email, {c})
     THEN /\ clientes' = [clientes EXCEPT ![c].nome = nome, ![c].email = email]
          /\ UNCHANGED <<veiculos, servicos, ordens>>
     ELSE UNCHANGED cadastro

DeleteCliente(s, c) == FindCliente(s, c, "cliente_apagar", Vazio)

DeleteClienteApagar(s) ==
  LET c == dados[s].cliente IN
  /\ pc[s] = "cliente_apagar"
  /\ Termina(s)
  /\ IF clientes[c].st = "presente" THEN Apaga({c}, {}) ELSE UNCHANGED cadastro

-----------------------------------------------------------------------------
(* Vehicles.                                                               *)

CreateVeiculo(s, placa, dono) ==
  /\ placa.grafia # "invalida" /\ ~ PlacaRepetida(CriarVo(placa))
  /\ dono \in Existentes(clientes)
  /\ \E v \in Veiculos : InsereVeiculo(v, placa, dono)
  /\ DeUmaVez(s)

FindVeiculo(s, v, rotulo, d) ==
  /\ pc[s] = "livre" /\ v \in Existentes(veiculos) /\ VeiculoLegivel(v)
  /\ Chama(s, rotulo, [d EXCEPT !.veiculo = v])
  /\ UNCHANGED cadastro

\* The DTO takes an empty brand or model, which the entity refuses.
UpdateVeiculo(s, v, modelo) ==
  FindVeiculo(s, v, "veiculo_gravar", [Vazio EXCEPT !.modelo = modelo])

UpdateVeiculoGravar(s) ==
  LET v == dados[s].veiculo IN
  /\ pc[s] = "veiculo_gravar"
  /\ Termina(s)
  /\ IF veiculos[v].st = "presente"
     THEN /\ veiculos' = [veiculos EXCEPT ![v].modelo = dados[s].modelo]
          /\ UNCHANGED <<clientes, servicos, ordens>>
     ELSE UNCHANGED cadastro

DeleteVeiculo(s, v) == FindVeiculo(s, v, "veiculo_apagar", Vazio)

DeleteVeiculoApagar(s) ==
  LET v == dados[s].veiculo IN
  /\ pc[s] = "veiculo_apagar"
  /\ Termina(s)
  /\ IF veiculos[v].st = "presente" THEN Apaga({}, {v}) ELSE UNCHANGED cadastro

-----------------------------------------------------------------------------
(* Services. Name and price are not kept: an update changes nothing here.  *)

CreateServico(s, x) ==
  /\ x \notin servicos
  /\ servicos' = servicos \cup {x}
  /\ DeUmaVez(s)
  /\ UNCHANGED <<clientes, veiculos, ordens>>

\* Mutant: the links of the service go with it (Cascade).
MutanteDeleteServico(s, x) ==
  /\ x \in servicos
  /\ servicos' = servicos \ {x}
  /\ ordens' = [o \in Ordens |-> [ordens[o] EXCEPT !.servicos = @ \ {x}]]
  /\ DeUmaVez(s)
  /\ UNCHANGED <<clientes, veiculos>>

\* Rows of OsServico hold the service (onDelete: Restrict).
DeleteServico(s, x) ==
  /\ x \in servicos /\ \A o \in Ordens : x \notin ordens[o].servicos
  /\ servicos' = servicos \ {x}
  /\ DeUmaVez(s)
  /\ UNCHANGED <<clientes, veiculos, ordens>>

-----------------------------------------------------------------------------
(* CriarOrdemServicoUseCase: customer, vehicle, services, order, links.    *)

\* findByDocumento looks the document up as it is written. The rows it saw are
\* kept for the properties only.
BuscarCliente(s, f, placa, lista) ==
  LET achados == {c \in Existentes(clientes) : clientes[c].documento = f.documento}
      d == [Vazio EXCEPT !.placa = placa, !.servicos = lista, !.fila = lista]
  IN
  /\ pc[s] = "livre"
  /\ IF achados = {}
     THEN Chama(s, "os_criar_cliente", [d EXCEPT !.ficha = f, !.vistos = Existentes(clientes)])
     ELSE \E c \in achados :
            IF ClienteLegivel(c) THEN Chama(s, "os_buscar_veiculo", [d EXCEPT !.cliente = c])
            ELSE Termina(s)
  /\ UNCHANGED cadastro

CriarCliente(s) ==
  LET f == dados[s].ficha IN
  /\ pc[s] = "os_criar_cliente"
  /\ IF ~ FichaValida(f) \/ ClienteRepetido(CriarVo(f.documento), CriarVo(f.email), {})
     THEN Falha(s)
     ELSE \E c \in Clientes :
            /\ InsereCliente(c, f)
            /\ Chama(s, "os_buscar_veiculo", [dados[s] EXCEPT !.cliente = c, !.ficha = Nada, !.vistos = {}])

ProximoServico(s, d) ==
  Chama(s, IF d.fila = {} THEN "os_criar" ELSE "os_servico", [d EXCEPT !.placa = Nada])

\* Mutant: the vehicle is created without a look at the ones there are.
MutanteBuscarVeiculo(s) ==
  /\ pc[s] = "os_buscar_veiculo"
  /\ Chama(s, "os_criar_veiculo", [dados[s] EXCEPT !.vistos = Existentes(veiculos)])
  /\ UNCHANGED cadastro

\* findByPlaca, as it is written too. Whose vehicle it is does not matter.
BuscarVeiculo(s) ==
  LET achados == {v \in Existentes(veiculos) : veiculos[v].placa = dados[s].placa} IN
  /\ pc[s] = "os_buscar_veiculo"
  /\ IF achados = {}
     THEN Chama(s, "os_criar_veiculo", [dados[s] EXCEPT !.vistos = Existentes(veiculos)])
     ELSE \E v \in achados :
            IF VeiculoLegivel(v) THEN ProximoServico(s, [dados[s] EXCEPT !.veiculo = v])
            ELSE Termina(s)
  /\ UNCHANGED cadastro

CriarVeiculo(s) ==
  LET placa == dados[s].placa
      dono == dados[s].cliente
  IN
  /\ pc[s] = "os_criar_veiculo"
  /\ IF placa.grafia = "invalida" THEN Falha(s)
     ELSE IF PlacaRepetida(CriarVo(placa)) \/ clientes[dono].st = "removido"
     THEN Falha(s)
     ELSE \E v \in Veiculos :
            /\ InsereVeiculo(v, placa, dono)
            /\ ProximoServico(s, [dados[s] EXCEPT !.veiculo = v, !.vistos = {}])

LerServico(s) ==
  /\ pc[s] = "os_servico"
  /\ \E x \in dados[s].fila :
       IF x \in servicos THEN ProximoServico(s, [dados[s] EXCEPT !.fila = @ \ {x}])
       ELSE Termina(s)
  /\ UNCHANGED cadastro

CriarOrdem(s) ==
  LET c == dados[s].cliente
      v == dados[s].veiculo
  IN
  /\ pc[s] = "os_criar"
  /\ IF clientes[c].st = "removido" \/ veiculos[v].st = "removido"
     THEN Falha(s)
     ELSE \E o \in Ordens :
            /\ ordens[o].st = "novo"
            /\ ordens' = [ordens EXCEPT ![o] =
                 [st |-> "presente", cliente |-> c, veiculo |-> v, servicos |-> {}]]
            /\ IF dados[s].servicos = {} THEN Termina(s)
               ELSE Chama(s, "os_vincular", [dados[s] EXCEPT !.ordem = o])
            /\ UNCHANGED <<clientes, veiculos, servicos>>

\* Mutant: the links are written without their foreign keys.
MutanteVincularServicos(s) ==
  LET o == dados[s].ordem IN
  /\ pc[s] = "os_vincular"
  /\ ordens' = [ordens EXCEPT ![o].servicos = dados[s].servicos]
  /\ Termina(s)
  /\ UNCHANGED <<clientes, veiculos, servicos>>

\* replaceAll: all the links or none.
VincularServicos(s) ==
  LET o == dados[s].ordem IN
  /\ pc[s] = "os_vincular"
  /\ IF ordens[o].st = "removido" \/ ~ (dados[s].servicos \subseteq servicos)
     THEN Falha(s)
     ELSE /\ ordens' = [ordens EXCEPT ![o].servicos = dados[s].servicos]
          /\ Termina(s)
          /\ UNCHANGED <<clientes, veiculos, servicos>>

DeletarOrdem(s, o) ==
  /\ ordens[o].st = "presente"
  /\ ordens' = [ordens EXCEPT ![o] = [SemOrdem EXCEPT !.st = "removido"]]
  /\ DeUmaVez(s)
  /\ UNCHANGED <<clientes, veiculos, servicos>>

-----------------------------------------------------------------------------
ClienteController(s) ==
  \/ \E f \in Fichas : CreateCliente(s, f)
  \/ \E c \in Clientes :
       \/ \E alteracao \in Alteracoes : UpdateCliente(s, c, alteracao)
       \/ DeleteCliente(s, c)
VeiculoController(s) ==
  \/ \E p \in Placas, c \in Clientes : CreateVeiculo(s, p, c)
  \/ \E v \in Veiculos :
       \/ \E modelo \in Texto : UpdateVeiculo(s, v, modelo)
       \/ DeleteVeiculo(s, v)
ServicoController(s) == \E x \in Servicos : CreateServico(s, x) \/ DeleteServico(s, x)
OrdemController(s) ==
  \/ \E f \in Fichas, p \in Placas, l \in SUBSET Servicos : BuscarCliente(s, f, p, l)
  \/ \E o \in Ordens : DeletarOrdem(s, o)

Avancar(s) ==
  \/ UpdateClienteGravar(s) \/ DeleteClienteApagar(s)
  \/ UpdateVeiculoGravar(s) \/ DeleteVeiculoApagar(s)
  \/ CriarCliente(s) \/ BuscarVeiculo(s) \/ CriarVeiculo(s)
  \/ LerServico(s) \/ CriarOrdem(s) \/ VincularServicos(s)

Next == \E s \in Sessoes :
  \/ ClienteController(s) \/ VeiculoController(s)
  \/ ServicoController(s) \/ OrdemController(s)
  \/ Avancar(s) \/ Interromper(s)

Spec == Init /\ [][Next]_vars

-----------------------------------------------------------------------------
(* Properties.                                                             *)

\* However documents and plates are written and requests interleave, a person
\* has one row and a vehicle has one row: creations normalise what the unique
\* keys compare.
IdentidadeUnica ==
  /\ \A c, d \in Existentes(clientes) :
       c # d => clientes[c].documento.numero # clientes[d].documento.numero
  /\ \A v, w \in Existentes(veiculos) :
       v # w => veiculos[v].placa.letras # veiculos[w].placa.letras

\* An order has its customer, its vehicle and its services, although the
\* request that registers it looked them up several calls before it writes it
\* and other requests remove them in between; a vehicle has its owner.
OrdemIntegra ==
  /\ \A o \in Existentes(ordens) :
       /\ ordens[o].cliente \in Existentes(clientes)
       /\ ordens[o].veiculo \in Existentes(veiculos)
       /\ ordens[o].servicos \subseteq servicos
  /\ \A v \in Existentes(veiculos) : veiculos[v].dono \in Existentes(clientes)

\* An order only goes by its own removal or with its customer or its vehicle,
\* and it keeps the services it lists for as long as it is there: nothing else
\* in the register takes history away with it.
OrdemSaiComMotivo ==
  [][\A o \in Existentes(ordens) :
       \/ ordens'[o].st = "presente" /\ ordens[o].servicos \subseteq ordens'[o].servicos
       \/ clientes'[ordens[o].cliente].st = "removido"
       \/ veiculos'[ordens[o].veiculo].st = "removido"
       \/ \E s \in Sessoes : DeletarOrdem(s, o)]_vars

\* A registration about to create a customer or a vehicle runs into a unique
\* key only for a reason outside its own calls: the e-mail is another
\* customer's, the document or plate is written in a form the lookup does not
\* recognise, or the row appeared after the lookup. A retry that finds what an
\* earlier attempt left behind is not refused for it.
ConflitoExplicado ==
  \A s \in Sessoes :
    LET f == dados[s].ficha
        p == dados[s].placa
    IN
    /\ pc[s] = "os_criar_cliente" =>
         \A c \in Existentes(clientes) :
           /\ clientes[c].documento = CriarVo(f.documento) =>
                f.documento.grafia # "canonica" \/ c \notin dados[s].vistos
           /\ clientes[c].email = CriarVo(f.email) /\ c \in dados[s].vistos =>
                \/ clientes[c].documento.numero # f.documento.numero
                \/ f.documento.grafia # "canonica"
    /\ pc[s] = "os_criar_veiculo" =>
         \A v \in Existentes(veiculos) :
           veiculos[v].placa = CriarVo(p) => p.grafia # "canonica" \/ v \notin dados[s].vistos

=============================================================================
