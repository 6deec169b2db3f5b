------------------------------- MODULE Acesso -------------------------------
(***************************************************************************)
(* Who may call what: the start of the application with its JWT contract,  *)
(* registration and login of src/src/auth, the chain of guards in front of *)
(* every route, and the accounts and customers a token speaks for.         *)
(*                                                                         *)
(* A token carries an identity, not a state: each guard reads the account  *)
(* or the customer again, and between that read and the next step of the   *)
(* request the row may change. One action is one database call with the    *)
(* code up to the next. Passwords are the outcome of their comparison;     *)
(* an e-mail is its normalised form, which the DTO and the service compute *)
(* before any use. Throttling is left out.                                 *)
(***************************************************************************)
EXTENDS Naturals, FiniteSets

CONSTANTS
  Contas,       \* e-mails of users
  Clientes,     \* customers
  Semeados,     \* the users seed.ts writes, [e-mail -> role]
  Configs,      \* environments the application is started with
  Visitadas,    \* routes called
  Registraveis, \* roles a registration asks for
  PrazoMaximo,  \* the longest life of a token
  Sessoes,      \* requests in flight at the same time
  Nada          \* no row, no token, variable not set

Papeis == {"ADMIN", "RECEPCIONISTA", "MECANICO", "CLIENTE"}

ASSUME Cenario ==
  /\ DOMAIN Semeados \subseteq Contas /\ \A e \in DOMAIN Semeados : Semeados[e] \in Papeis
  /\ Contas \cap Clientes = {}
  /\ Registraveis \subseteq Papeis /\ PrazoMaximo \in Nat \ {0}
  /\ Nada \notin Contas \cup Clientes \cup Papeis

VARIABLES
  app,         \* the contract of the running instance, Nada when it is down
  usuarios,    \* role in each account's row, Nada without one
  ativos,      \* customers that are registered and active
  cracha,      \* the token each subject holds
  req          \* the request of each session

linhas == <<app, usuarios, ativos, cracha>>
vars   == <<app, usuarios, ativos, cracha, req>>

-----------------------------------------------------------------------------
(* Start-up: resolveJwtContract, createJwtModuleOptions, the strategies.   *)
(* Time passes in half hours: production demands one, 1800 s.              *)

PrazoPadrao == 1

Algoritmo(c) ==
  IF c.algoritmo # Nada THEN c.algoritmo
  ELSE IF c.gateway THEN "RS256"
  ELSE IF c.producao THEN Nada ELSE "HS256"

Prazo(c) == IF c.prazo # Nada \/ c.producao THEN c.prazo ELSE PrazoPadrao

\* Mutant: a life of zero is taken.
MutanteJwtContract(c) ==
  /\ Algoritmo(c) \in {"HS256", "RS256"}
  /\ c.emissor \/ ~c.producao
  /\ Prazo(c) # Nada
  /\ c.producao => Algoritmo(c) = "RS256" /\ Prazo(c) = PrazoPadrao

ResolveJwtContract(c) ==
  /\ Algoritmo(c) \in {"HS256", "RS256"}
  /\ c.emissor \/ ~c.producao
  /\ Prazo(c) # Nada /\ Prazo(c) > 0
  /\ c.producao => Algoritmo(c) = "RS256" /\ Prazo(c) = PrazoPadrao

\* Mutant: production starts without the key it signs with.
MutanteJwtModuleOptions(c) == Algoritmo(c) = "HS256" => c.segredo /\ ~c.producao

CreateJwtModuleOptions(c) ==
  /\ Algoritmo(c) = "HS256" => c.segredo /\ ~c.producao
  /\ Algoritmo(c) = "RS256" /\ c.producao => c.privada

\* What JwtStrategy and JwtCustomerStrategy demand to be built.
Estrategias(c) ==
  /\ IF Algoritmo(c) = "RS256" THEN c.publica ELSE c.segredo
  /\ c.chaveCliente

Sobe(c) == ResolveJwtContract(c) /\ CreateJwtModuleOptions(c) /\ Estrategias(c)

Contrato(c) ==
  [alg |-> Algoritmo(c), prazo |-> Prazo(c), producao |-> c.producao, gateway |-> c.gateway,
   assina |-> Algoritmo(c) = "HS256" \/ c.privada]

-----------------------------------------------------------------------------
(* Routes: what the decorators of each controller demand. The global        *)
(* JwtAuthGuard and RolesGuard run on every route; "dupla" is a route whose *)
(* controller or handler names JwtAuthGuard again, which authenticates the  *)
(* request a second time.                                                   *)

Rota(publica, papeis, dupla, webhook) ==
  [publica |-> publica, papeis |-> papeis, dupla |-> dupla, webhook |-> webhook]

Aberta          == Rota(TRUE, {}, FALSE, FALSE)
Autenticada     == Rota(FALSE, {}, FALSE, FALSE)
So(papel)       == Rota(FALSE, {papel}, FALSE, FALSE)
Duas(rota)      == [rota EXCEPT !.dupla = TRUE]

RotasAuth ==
  [r \in {"registrar", "entrar"} |-> IF r = "entrar" THEN Aberta ELSE Duas(So("ADMIN"))]

RotasCadastro ==
  LET recepcao == {"clientes.criar", "clientes.alterar", "veiculos.criar", "veiculos.alterar"}
      leitura  == {"clientes.listar", "veiculos.listar", "servicos.listar"}
      admin    == {"clientes.remover", "veiculos.remover",
                   "servicos.criar", "servicos.alterar", "servicos.remover"} IN
  [r \in recepcao \cup leitura \cup admin |->
     CASE r \in recepcao -> So("RECEPCIONISTA") [] r \in leitura -> Autenticada
       [] OTHER -> So("ADMIN")]

RotasOrdem ==
  LET recepcao == {"ordens.criar", "ordens.entregar"}
      admin    == {"ordens.tempoMedio", "ordens.alterar", "ordens.remover"}
      oficina  == {"ordens.assumir", "ordens.analisar", "ordens.listarItens", "ordens.finalizar"}
      todos    == {"ordens.listar", "ordens.buscar", "ordens.aprovarServico"}
      publicas == {"ordens.status", "ordens.rastrear", "ordens.notificar",
                   "orcamento.aprovar", "orcamento.recusar"} IN
  [r \in recepcao \cup admin \cup oficina \cup todos \cup publicas |->
     CASE r \in recepcao -> Duas(So("RECEPCIONISTA")) [] r \in admin -> Duas(So("ADMIN"))
       [] r \in oficina -> Duas(So("MECANICO")) [] r \in todos -> Duas(Autenticada)
       [] OTHER -> Aberta]

RotasPecas ==
  LET leitura == {"pecas.listar", "pecas.buscar"} IN
  [r \in leitura \cup {"pecas.criar", "pecas.alterar", "pecas.estoque", "pecas.remover",
                       "fornecedor.solicitar", "fornecedor.receber"} |->
     IF r \in leitura THEN Autenticada ELSE So("ADMIN")]

RotaPagamento == [r \in {"pagamentos.registrar"} |-> Autenticada]
RotaWebhook   == [r \in {"webhook.status"} |-> Rota(FALSE, {}, FALSE, TRUE)]
RotasSaude    == [r \in {"health", "live", "ready", "raiz"} |-> Aberta]

Controladores == {RotasAuth, RotasCadastro, RotasOrdem, RotasPecas,
                  RotaPagamento, RotaWebhook, RotasSaude}

Rotas == [r \in UNION {DOMAIN c : c \in Controladores} |->
            (CHOOSE c \in Controladores : r \in DOMAIN c)[r]]

-----------------------------------------------------------------------------
(* Requests.                                                               *)

Pcs == {"livre", "validar", "validarCliente", "executar", "buscarEmail", "criar",
        "assinar", "buscarConta", "401", "403", "409", "500"}

\* Waiting for its authentication.
NaGuarda == {"validar", "validarCliente"}

\* Past the guards, before its answer.
Atendida == {"executar", "buscarEmail", "criar", "assinar"}

Recusas == {"401", "403", "409", "500"}

\* "passes" is how often JwtAuthGuard still has to let the request through,
\* "conta" and "papel" are the body of a registration or login. "vistos"
\* (history) is what the bearer has been since the request came in, "gravou"
\* (history) tells that the request created its row.
Parada == [pc |-> "livre", rota |-> Nada, token |-> Nada, passes |-> 0, segredo |-> FALSE,
           conta |-> Nada, papel |-> Nada, vistos |-> {}, gravou |-> FALSE]

Fichas == [sub : Contas \cup Clientes, papel : Papeis \cup {Nada}, alg : {"HS256", "RS256"},
           prazo : 1..PrazoMaximo, idade : 0..PrazoMaximo]

\* What starts does not outlive the bound.
ASSUME Ambientes ==
  /\ Visitadas \subseteq DOMAIN Rotas /\ Nada \notin DOMAIN Rotas \cup Fichas
  /\ \A c \in Configs :
       /\ {c.producao, c.gateway, c.privada} \subseteq BOOLEAN /\ c.prazo \in Nat \cup {Nada}
       /\ Sobe(c) => Prazo(c) <= PrazoMaximo

Requisicoes ==
  [pc : Pcs, rota : DOMAIN Rotas \cup {Nada}, token : Fichas \cup {Nada}, passes : 0..2,
   segredo : BOOLEAN, conta : Contas \cup {Nada}, papel : Papeis \cup {Nada},
   vistos : SUBSET (Papeis \cup {Nada}), gravou : BOOLEAN]

Init ==
  /\ app = Nada
  /\ usuarios = [e \in Contas |-> Nada]
  /\ ativos = {}
  /\ cracha = [x \in Contas \cup Clientes |-> Nada]
  /\ req = [s \in Sessoes |-> Parada]

\* What the database says of the bearer of a token: its role, Nada when the
\* account or the customer is not there or not active.
PapelDe(t, us, cs) ==
  IF t.sub \in Contas THEN us[t.sub]
  ELSE IF t.sub \notin cs THEN Nada
  ELSE IF app.gateway /\ t.papel = Nada THEN "RECEPCIONISTA" ELSE "CLIENTE"

Portador(r) == r.pc \in NaGuarda \cup Atendida /\ r.token # Nada

\* Keeps the history of every request in flight through a change of rows.
Presenciado(us, cs) ==
  [s \in Sessoes |->
     IF Portador(req[s])
     THEN [req[s] EXCEPT !.vistos = @ \cup {PapelDe(req[s].token, us, cs)}] ELSE req[s]]

\* passport-jwt: signature and algorithm, exp of the token, maxAge of the strategy.
Verifica(t) == t # Nada /\ t.alg = app.alg /\ t.idade < t.prazo /\ t.idade < app.prazo

Vai(s, pc) == req' = [req EXCEPT ![s].pc = pc]
Atende(s)  == req' = [req EXCEPT ![s] = Parada]

-----------------------------------------------------------------------------
(* The guards.                                                             *)

\* After its last guard: WebhookAuthGuard, then the handler.
Despacho(r) ==
  IF Rotas[r.rota].webhook /\ ~r.segredo THEN "401"
  ELSE CASE r.rota = "registrar" -> "buscarEmail"
         [] r.rota = "entrar" -> "buscarConta"
         [] OTHER -> "executar"

\* A request arrives; JwtAuthGuard lets a public route through and has the
\* token of any other one verified.
Chegar(s) ==
  /\ app # Nada /\ req[s].pc = "livre"
  /\ \E rota \in Visitadas, x \in Contas \cup Clientes \cup {Nada} :
       LET r == Rotas[rota]
           t == IF x = Nada THEN Nada ELSE cracha[x]
           n == [Parada EXCEPT !.rota = rota, !.token = t, !.passes = IF r.dupla THEN 2 ELSE 1] IN
       /\ x # Nada => t # Nada /\ ~r.publica
       /\ \E segredo \in IF r.webhook THEN BOOLEAN ELSE {FALSE},
             conta \in IF rota \in DOMAIN RotasAuth THEN Contas ELSE {Nada},
             papel \in IF rota = "registrar" THEN Registraveis ELSE {Nada} :
            LET m == [n EXCEPT !.segredo = segredo, !.conta = conta, !.papel = papel] IN
            req' = [req EXCEPT ![s] =
              IF r.publica THEN [m EXCEPT !.pc = Despacho(m), !.passes = 0]
              ELSE IF Verifica(t)
                   THEN [m EXCEPT !.pc = "validar",
                                  !.vistos = {PapelDe(t, usuarios, ativos)}]
              ELSE [m EXCEPT !.pc = "401"]]
  /\ UNCHANGED linhas

\* RolesGuard, once JwtAuthGuard has found the bearer with role p. The next
\* JwtAuthGuard verifies the token again before it reads the row again.
Admitir(s, p) ==
  LET r == req[s]
      exige == Rotas[r.rota].papeis IN
  req' = [req EXCEPT ![s].passes = @ - 1,
                     ![s].pc = IF exige # {} /\ p \notin exige THEN "403"
                               ELSE IF r.passes = 1 THEN Despacho(r)
                               ELSE IF Verifica(r.token) THEN "validar" ELSE "401"]

\* Mutant: the role is the one the token was issued with.
MutanteValidar(s) ==
  LET t == req[s].token IN
  /\ req[s].pc = "validar" /\ t.sub \in Contas
  /\ IF usuarios[t.sub] # Nada THEN Admitir(s, t.papel) ELSE Vai(s, "validarCliente")
  /\ UNCHANGED linhas

\* Mutant: a subject that is no user is refused.
MutanteValidarUsuario(s) ==
  LET t == req[s].token IN
  /\ req[s].pc = "validar" /\ ~(app.gateway /\ t.papel = Nada)
  /\ IF t.sub \in Contas /\ usuarios[t.sub] # Nada
     THEN Admitir(s, usuarios[t.sub]) ELSE Vai(s, "401")
  /\ UNCHANGED linhas

\* validateUser: a token that names a role, or any outside the gateway.
Validar(s) ==
  LET t == req[s].token IN
  /\ req[s].pc = "validar" /\ ~(app.gateway /\ t.papel = Nada)
  /\ IF t.sub \in Contas /\ usuarios[t.sub] # Nada
     THEN Admitir(s, usuarios[t.sub]) ELSE Vai(s, "validarCliente")
  /\ UNCHANGED linhas

\* validateTokenSubject, for a subject that is no user: the customer.
ValidarCliente(s) ==
  LET t == req[s].token IN
  /\ req[s].pc = "validarCliente"
  /\ IF t.sub \in ativos THEN Admitir(s, "CLIENTE") ELSE Vai(s, "401")
  /\ UNCHANGED linhas

\* validateCustomer: behind the gateway a token without role is a customer's.
ValidarPortador(s) ==
  LET t == req[s].token IN
  /\ req[s].pc = "validar" /\ app.gateway /\ t.papel = Nada
  /\ IF t.sub \in ativos
     THEN Admitir(s, "RECEPCIONISTA") ELSE Vai(s, "401")
  /\ UNCHANGED linhas

\* Any handler that leaves accounts alone.
Executar(s) == req[s].pc = "executar" /\ Atende(s) /\ UNCHANGED linhas

-----------------------------------------------------------------------------
(* AuthService.                                                            *)

Emitido(e, papel) ==
  [sub |-> e, papel |-> papel, alg |-> app.alg, prazo |-> app.prazo, idade |-> 0]

RegistrarBuscar(s) ==
  /\ req[s].pc = "buscarEmail"
  /\ Vai(s, IF usuarios[req[s].conta] # Nada THEN "409" ELSE "criar")
  /\ UNCHANGED linhas

\* Mutant: the row of an account registered meanwhile is written over.
MutanteRegistrarCriar(s) ==
  LET us == [usuarios EXCEPT ![req[s].conta] = req[s].papel] IN
  /\ req[s].pc = "criar"
  /\ usuarios' = us
  /\ req' = [Presenciado(us, ativos) EXCEPT ![s].pc = "assinar", ![s].gravou = TRUE]
  /\ UNCHANGED <<app, ativos, cracha>>

\* user.create: the unique e-mail turns the second of two registrations into a
\* server error.
RegistrarCriar(s) ==
  LET us == [usuarios EXCEPT ![req[s].conta] = req[s].papel] IN
  /\ req[s].pc = "criar"
  /\ IF usuarios[req[s].conta] # Nada
     THEN Vai(s, "500") /\ UNCHANGED usuarios
     ELSE /\ usuarios' = us
          /\ req' = [Presenciado(us, ativos) EXCEPT ![s].pc = "assinar", ![s].gravou = TRUE]
  /\ UNCHANGED <<app, ativos, cracha>>

\* login: the account is read, the password compared.
LoginBuscar(s) ==
  /\ req[s].pc = "buscarConta"
  /\ \E confere \in BOOLEAN :
       req' = [req EXCEPT ![s].papel = usuarios[req[s].conta],
                          ![s].pc = IF usuarios[req[s].conta] # Nada /\ confere
                                    THEN "assinar" ELSE "401"]
  /\ UNCHANGED linhas

\* generateToken, with the role the row had when it was read or written. The
\* caller keeps the token or stays with the one it has.
GerarToken(s) ==
  LET r == req[s] IN
  /\ r.pc = "assinar"
  /\ IF app.assina THEN Atende(s) ELSE Vai(s, "500")
  /\ \/ app.assina /\ cracha' = [cracha EXCEPT ![r.conta] = Emitido(r.conta, r.papel)]
     \/ UNCHANGED cracha
  /\ UNCHANGED <<app, usuarios, ativos>>

\* The refusal is delivered.
Responder(s) == req[s].pc \in Recusas /\ Atende(s) /\ UNCHANGED linhas

-----------------------------------------------------------------------------
(* What else changes the rows, and the world around.                       *)

\* seedUser: upsert by e-mail, the role of an account already there included.
SemearUsuario(e) ==
  /\ e \in DOMAIN Semeados /\ usuarios[e] # Semeados[e]
  /\ usuarios' = [usuarios EXCEPT ![e] = Semeados[e]]
  /\ req' = Presenciado(usuarios', ativos)
  /\ UNCHANGED <<app, ativos, cracha>>

\* Another replica serves the registration of an administrator.
RegistrarNoutra(e) ==
  /\ usuarios[e] = Nada /\ \E a \in Contas : usuarios[a] = "ADMIN"
  /\ \E papel \in Registraveis : usuarios' = [usuarios EXCEPT ![e] = papel]
  /\ req' = Presenciado(usuarios', ativos)
  /\ UNCHANGED <<app, ativos, cracha>>

\* A customer is created, deactivated, activated or removed (Cadastro).
MudarCliente(k) ==
  /\ ativos' = IF k \in ativos THEN ativos \ {k} ELSE ativos \cup {k}
  /\ req' = Presenciado(usuarios, ativos')
  /\ UNCHANGED <<app, usuarios, cracha>>

\* External: the authentication function signs a token for an active customer.
EmitirCliente(k) ==
  /\ k \in ativos
  /\ cracha' = [cracha EXCEPT ![k] = [sub |-> k, papel |-> Nada, alg |-> "RS256",
                                      prazo |-> PrazoPadrao, idade |-> 0]]
  /\ UNCHANGED <<app, usuarios, ativos, req>>

Envelhece(t) == IF t # Nada /\ t.idade < PrazoMaximo THEN [t EXCEPT !.idade = @ + 1] ELSE t

Passar ==
  /\ cracha' = [x \in DOMAIN cracha |-> Envelhece(cracha[x])]
  /\ req' = [s \in Sessoes |-> [req[s] EXCEPT !.token = Envelhece(@)]]
  /\ <<cracha, req>>' # <<cracha, req>>
  /\ UNCHANGED <<app, usuarios, ativos>>

\* bootstrap: a new environment; whatever was in flight is cut off. A contract
\* that does not hold leaves the application down.
Implantar(c) ==
  /\ app' = IF Sobe(c) THEN Contrato(c) ELSE Nada
  /\ req' = [s \in Sessoes |-> Parada]
  /\ UNCHANGED <<usuarios, ativos, cracha>>

Requisicao(s) ==
  \/ Chegar(s) \/ Validar(s) \/ ValidarCliente(s) \/ ValidarPortador(s) \/ Executar(s)
  \/ RegistrarBuscar(s) \/ RegistrarCriar(s) \/ LoginBuscar(s) \/ GerarToken(s)
  \/ Responder(s)

Next ==
  \/ \E s \in Sessoes : Requisicao(s)
  \/ \E e \in Contas : SemearUsuario(e) \/ RegistrarNoutra(e)
  \/ \E k \in Clientes : MudarCliente(k) \/ EmitirCliente(k)
  \/ Passar
  \/ \E c \in Configs : Implantar(c)

Spec == Init /\ [][Next]_vars

-----------------------------------------------------------------------------
(* Properties.                                                             *)

TipoLinhas ==
  /\ app = Nada \/ app \in [alg : {"HS256", "RS256"}, prazo : 1..PrazoMaximo, producao : BOOLEAN,
                            gateway : BOOLEAN, assina : BOOLEAN]
  /\ usuarios \in [Contas -> Papeis \cup {Nada}] /\ ativos \subseteq Clientes
  /\ cracha \in [Contas \cup Clientes -> Fichas \cup {Nada}]

\* The contract, the rows, the tokens and the requests keep their shape.
TypeOK ==
  /\ TipoLinhas /\ req \in [Sessoes -> Requisicoes]
  /\ \A s \in Sessoes :
       /\ req[s].pc # "livre" <=> req[s].rota # Nada
       /\ req[s].pc \in NaGuarda => req[s].token # Nada /\ req[s].passes > 0

\* A handler behind the guards runs for a bearer that, at some moment since the
\* request came in, existed, was active and had a role the route takes: what
\* the token says, and what the row said before, decide nothing.
PapelVigente ==
  \A s \in Sessoes :
    LET rota == Rotas[req[s].rota] IN
    req[s].pc \in Atendida /\ ~rota.publica =>
      \E p \in req[s].vistos \ {Nada} : rota.papeis = {} \/ p \in rota.papeis

\* A request with a token is refused only for a reason its bearer can see: the
\* token is not one of this contract or too old, the bearer was missing or
\* inactive, or had a role the route does not take, while the request ran.
RecusaExplicada ==
  \A s \in Sessoes :
    LET rota == Rotas[req[s].rota] IN
    /\ req[s].pc = "401" /\ req[s].token # Nada =>
         rota.webhook \/ Nada \in req[s].vistos \/ ~Verifica(req[s].token)
    /\ req[s].pc = "403" => \E p \in req[s].vistos \ {Nada} : p \notin rota.papeis

\* A registration that wrote its account is about to sign its token: it is not
\* refused any more, and in production it does not fail for want of a key, which
\* the start-up checks exclude. (Outside production they do not, and the retry of
\* such a registration is told that the e-mail exists.)
RegistroCompleto ==
  \A s \in Sessoes : req[s].gravou =>
    \/ req[s].pc = "assinar"
    \/ req[s].pc = "500" /\ ~app.producao

\* The role of an account changes only to the one the seed gives it: of two
\* registrations of an e-mail in flight, the later does not write over the
\* earlier.
PapelFirme ==
  [][\A e \in Contas : usuarios[e] # Nada /\ usuarios'[e] # usuarios[e] =>
       e \in DOMAIN Semeados /\ usuarios'[e] = Semeados[e]]_vars

\* "webhook usa apenas X-Webhook-Secret; nunca deve receber um header JWT"
\* (docs/specs/authenticated-route-matrix.md:14): the secret alone is enough.
WebhookSoComSegredo ==
  \A s \in Sessoes :
    req[s].rota = "webhook.status" /\ req[s].segredo /\ req[s].token = Nada => req[s].pc # "401"

=============================================================================
