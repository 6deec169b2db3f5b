---------------------------- MODULE AcessoProofs ----------------------------
(***************************************************************************)
(* Proofs about Acesso, for every set of accounts, of customers, of        *)
(* environments, of routes called and of requests in flight.               *)
(*                                                                         *)
(* Bem says what holds of one request, given the contract and the rows of  *)
(* the moment: what its bearer is now it has been since the request came   *)
(* in, and what the guards decided rests on something it has been. A step  *)
(* either moves one request or changes the rows under all of them, and the *)
(* lemmas say what each does to Bem.                                       *)
(***************************************************************************)
EXTENDS Acesso, TLAPS

-----------------------------------------------------------------------------
(* The table of routes.                                                    *)

LEMMA RotasDoAuth ==
  /\ DOMAIN RotasAuth = {"registrar", "entrar"} /\ DOMAIN RotasAuth \subseteq DOMAIN Rotas
  /\ Rotas["entrar"].publica
<1>1. DOMAIN RotasAuth = {"registrar", "entrar"} /\ RotasAuth \in Controladores
  BY DEF RotasAuth, Controladores
<1>2. DOMAIN RotasAuth \subseteq DOMAIN Rotas
  <2>1. DOMAIN Rotas = UNION {DOMAIN c : c \in Controladores}
    BY DEF Rotas
  <2>2. QED
    BY <1>1, <2>1
<1>3. ASSUME NEW c \in Controladores, "entrar" \in DOMAIN c
      PROVE  c = RotasAuth
  <2>1. "entrar" \notin DOMAIN RotasCadastro
    BY DEF RotasCadastro
  <2>2. "entrar" \notin DOMAIN RotasOrdem
    BY DEF RotasOrdem
  <2>3. "entrar" \notin DOMAIN RotasPecas
    BY DEF RotasPecas
  <2>4. "entrar" \notin DOMAIN RotaPagamento \cup DOMAIN RotaWebhook \cup DOMAIN RotasSaude
    BY DEF RotaPagamento, RotaWebhook, RotasSaude
  <2>5. QED
    BY <1>3, <2>1, <2>2, <2>3, <2>4 DEF Controladores
<1>4. Rotas["entrar"] = (CHOOSE c \in Controladores : "entrar" \in DOMAIN c)["entrar"]
  BY <1>1, <1>2 DEF Rotas
<1>5. Rotas["entrar"] = RotasAuth["entrar"]
  BY <1>1, <1>3, <1>4
<1>6. RotasAuth["entrar"].publica
  BY DEF RotasAuth, Aberta, Rota
<1>7. QED
  BY <1>1, <1>2, <1>5, <1>6

-----------------------------------------------------------------------------
(* The inductive invariant.                                                *)

\* PapelDe and Verifica, given the contract.
PapelEm(t, ap, us, cs) ==
  IF t.sub \in Contas THEN us[t.sub]
  ELSE IF t.sub \notin cs THEN Nada
  ELSE IF ap.gateway /\ t.papel = Nada THEN "RECEPCIONISTA" ELSE "CLIENTE"

Vale(t, ap) == t # Nada /\ t.alg = ap.alg /\ t.idade < t.prazo /\ t.idade < ap.prazo

\* What a request is about to do, it was called for.
Coerente(r) ==
  /\ r.pc \in {"buscarEmail", "criar"} => r.rota = "registrar"
  /\ r.pc = "buscarConta" => r.rota = "entrar"
  /\ r.pc = "assinar" => r.rota \in DOMAIN RotasAuth /\ r.papel # Nada
  /\ r.rota \in DOMAIN RotasAuth => r.conta # Nada
  /\ r.rota = "registrar" => r.papel # Nada
  /\ r.rota # Nada /\ Rotas[r.rota].publica => r.token = Nada
  /\ r.gravou => r.pc \in {"assinar", "500"}
  /\ r.token # Nada /\ r.token.sub \in Contas => r.token.papel # Nada

\* What the bearer is now it has been since the request came in.
Visto(r, ap, us, cs) ==
  /\ Portador(r) => PapelEm(r.token, ap, us, cs) \in r.vistos
  /\ r.pc = "validarCliente" =>
       /\ ~ (ap.gateway /\ r.token.papel = Nada)
       /\ r.token.sub \in Contas => Nada \in r.vistos

\* The three properties of one request.
Admitida(r) ==
  r.pc \in Atendida /\ ~ Rotas[r.rota].publica =>
    \E p \in r.vistos \ {Nada} : Rotas[r.rota].papeis = {} \/ p \in Rotas[r.rota].papeis

Explicada(r, ap) ==
  /\ r.pc = "401" /\ r.token # Nada =>
       Rotas[r.rota].webhook \/ Nada \in r.vistos \/ ~ Vale(r.token, ap)
  /\ r.pc = "403" => \E p \in r.vistos \ {Nada} : p \notin Rotas[r.rota].papeis

Completa(r, ap) == r.gravou /\ r.pc = "500" => ~ ap.producao

Bem(r, ap, us, cs) ==
  /\ r \in Requisicoes
  /\ r.pc # "livre" <=> r.rota # Nada
  /\ r.pc \in NaGuarda => r.token # Nada /\ r.passes > 0
  /\ Coerente(r) /\ Visto(r, ap, us, cs)
  /\ Admitida(r) /\ Explicada(r, ap) /\ Completa(r, ap)

Pedidos ==
  /\ req \in [Sessoes -> Requisicoes]
  /\ \A s \in Sessoes : Bem(req[s], app, usuarios, ativos)

\* In production a running instance can sign, and no request outlives its
\* instance.
Instancia ==
  /\ app # Nada => (app.producao => app.assina)
  /\ app = Nada => \A s \in Sessoes : req[s].pc = "livre"

\* The token of a user names its role.
CrachasDeUsuario ==
  \A x \in Contas \cup Clientes :
    cracha[x] # Nada /\ cracha[x].sub \in Contas => cracha[x].papel # Nada

Invariante == TipoLinhas /\ Pedidos /\ Instancia /\ CrachasDeUsuario

-----------------------------------------------------------------------------
(* What becomes of a request.                                              *)

LEMMA ParadaBem ==
  ASSUME NEW ap, NEW us, NEW cs
  PROVE  Bem(Parada, ap, us, cs)
<1>1. Parada \in Requisicoes
  BY DEF Parada, Requisicoes, Pcs
<1>2. Parada.rota \notin DOMAIN RotasAuth /\ Parada.rota = Nada
  BY Ambientes, RotasDoAuth DEF Parada
<1>3. Coerente(Parada)
  BY <1>2, RotasDoAuth DEF Parada, Coerente
<1>4. QED
  BY <1>1, <1>3 DEF Bem, Parada, Visto, Portador, Admitida, Explicada, Completa, Atendida, NaGuarda

\* The rows change under it.
LEMMA PresenciaBem ==
  ASSUME NEW ap, NEW us, NEW cs, NEW vs, NEW ks, NEW r, Bem(r, ap, us, cs), Portador(r),
         PapelEm(r.token, ap, vs, ks) \in Papeis \cup {Nada}
  PROVE  Bem([r EXCEPT !.vistos = @ \cup {PapelEm(r.token, ap, vs, ks)}], ap, vs, ks)
<1> DEFINE n == [r EXCEPT !.vistos = @ \cup {PapelEm(r.token, ap, vs, ks)}]
<1>1. /\ n \in Requisicoes /\ r.vistos \subseteq n.vistos
      /\ PapelEm(r.token, ap, vs, ks) \in n.vistos
      /\ n.pc = r.pc /\ n.rota = r.rota /\ n.token = r.token /\ n.passes = r.passes
      /\ n.conta = r.conta /\ n.papel = r.papel /\ n.gravou = r.gravou
  BY DEF Bem, Requisicoes
<1> HIDE DEF n
<1>2. Coerente(n) /\ Visto(n, ap, vs, ks)
  BY <1>1 DEF Bem, Coerente, Visto, Portador
<1>3. Admitida(n) /\ Explicada(n, ap) /\ Completa(n, ap)
  BY <1>1 DEF Bem, Admitida, Explicada, Completa
<1>4. QED
  BY <1>1, <1>2, <1>3 DEF Bem, n

\* The rows change under a request that has no bearer to speak of.
LEMMA SemPortadorBem ==
  ASSUME NEW ap, NEW us, NEW cs, NEW vs, NEW ks, NEW r, Bem(r, ap, us, cs), ~ Portador(r)
  PROVE  Bem(r, ap, vs, ks)
BY DEF Bem, Visto, Portador, NaGuarda

\* Its token ages.
LEMMA EnvelheceBem ==
  ASSUME NEW ap, NEW us, NEW cs, NEW r, Bem(r, ap, us, cs),
         r.pc # "livre" => ap.prazo \in Nat
  PROVE  Bem([r EXCEPT !.token = Envelhece(@)], ap, us, cs)
<1> DEFINE n == [r EXCEPT !.token = Envelhece(@)]
           t == Envelhece(r.token)
<1>1. CASE r.token = Nada \/ ~ (r.token.idade < PrazoMaximo)
  <2>1. n = r
    BY <1>1 DEF Bem, Requisicoes, Envelhece
  <2>2. QED
    BY <2>1
<1>2. CASE r.token # Nada /\ r.token.idade < PrazoMaximo
  <2>1. r.token \in Fichas
    BY <1>2 DEF Bem, Requisicoes
  <2>2. /\ t \in Fichas /\ t.sub = r.token.sub /\ t.papel = r.token.papel /\ t.alg = r.token.alg
        /\ t.prazo = r.token.prazo /\ t.idade = r.token.idade + 1
    BY <1>2, <2>1, Cenario DEF Envelhece, Fichas
  <2>3. /\ n \in Requisicoes /\ n.token = t /\ n.vistos = r.vistos /\ n.pc = r.pc /\ n.rota = r.rota
        /\ n.passes = r.passes /\ n.conta = r.conta /\ n.papel = r.papel /\ n.gravou = r.gravou
    BY <2>2 DEF Bem, Requisicoes
  <2> HIDE DEF n, t
  <2>4. PapelEm(t, ap, us, cs) = PapelEm(r.token, ap, us, cs)
    BY <2>2 DEF PapelEm
  <2>5. r.pc # "livre" => (~ Vale(r.token, ap) => ~ Vale(t, ap))
    BY <1>2, <2>1, <2>2, Cenario DEF Vale, Fichas
  <2>6. t # Nada
    BY <2>2, Ambientes
  <2>7. Coerente(n) /\ Visto(n, ap, us, cs)
    BY <1>2, <2>2, <2>3, <2>4, <2>6 DEF Bem, Coerente, Visto, Portador
  <2>8. Admitida(n) /\ Explicada(n, ap) /\ Completa(n, ap)
    BY <1>2, <2>3, <2>5 DEF Bem, Admitida, Explicada, Completa
  <2>9. QED
    BY <1>2, <2>3, <2>6, <2>7, <2>8 DEF Bem, n
<1>3. QED
  BY <1>1, <1>2

\* It comes to a call or a refusal, with that many passes of the guard to go.
Chega(r, q, k) == [r EXCEPT !.pc = q, !.passes = k]

LEMMA SegueSo ==
  ASSUME NEW r \in Requisicoes, NEW q \in Pcs, NEW k \in 0..2
  PROVE  LET n == Chega(r, q, k) IN
         /\ n \in Requisicoes /\ n.pc = q /\ n.passes = k /\ n.rota = r.rota /\ n.token = r.token
         /\ n.conta = r.conta /\ n.papel = r.papel /\ n.vistos = r.vistos /\ n.gravou = r.gravou
BY DEF Requisicoes, Chega

LEMMA SegueBem ==
  ASSUME NEW ap, NEW us, NEW cs, NEW r, Bem(r, ap, us, cs), r.pc # "livre",
         NEW q \in Pcs \ {"livre"}, NEW k \in 0..2, NEW n, n = Chega(r, q, k),
         q \in NaGuarda => r.token # Nada /\ k > 0,
         q \in {"buscarEmail", "criar"} => r.rota = "registrar",
         q = "buscarConta" => r.rota = "entrar",
         q = "assinar" => r.rota \in DOMAIN RotasAuth /\ r.papel # Nada,
         r.gravou => q = "500",
         q \in NaGuarda \cup Atendida => r.pc \in NaGuarda \cup Atendida \/ r.token = Nada,
         q = "validarCliente" => /\ ~ (ap.gateway /\ r.token.papel = Nada)
                                 /\ r.token.sub \in Contas => Nada \in r.vistos,
         Admitida(n), Explicada(n, ap), Completa(n, ap)
  PROVE  Bem(n, ap, us, cs)
<1>1. /\ n \in Requisicoes /\ n.pc = q /\ n.passes = k /\ n.rota = r.rota /\ n.token = r.token
      /\ n.conta = r.conta /\ n.papel = r.papel /\ n.vistos = r.vistos /\ n.gravou = r.gravou
  <2>1. r \in Requisicoes /\ q \in Pcs
    BY DEF Bem
  <2>2. QED
    BY <2>1, SegueSo
<1>2. Coerente(n)
  BY <1>1 DEF Bem, Coerente
<1>3. Visto(n, ap, us, cs)
  BY <1>1 DEF Bem, Visto, Portador
<1>4. QED
  BY <1>1, <1>2, <1>3 DEF Bem

\* A refusal for a reason given.
LEMMA RecusaBem ==
  ASSUME NEW ap, NEW us, NEW cs, NEW r, Bem(r, ap, us, cs), r.pc # "livre", ~ r.gravou,
         NEW q \in {"401", "403", "409", "500"}, NEW k \in 0..2, NEW n,
         n = Chega(r, q, k),
         q = "401" /\ r.token # Nada =>
           Rotas[r.rota].webhook \/ Nada \in r.vistos \/ ~ Vale(r.token, ap),
         q = "403" => \E p \in r.vistos \ {Nada} : p \notin Rotas[r.rota].papeis
  PROVE  Bem(n, ap, us, cs)
<1>1. /\ n.pc = q /\ n.rota = r.rota /\ n.token = r.token /\ n.vistos = r.vistos
      /\ n.gravou = r.gravou
  BY SegueSo DEF Bem, Pcs
<1>2. Admitida(n) /\ Explicada(n, ap) /\ Completa(n, ap)
  BY <1>1 DEF Admitida, Explicada, Completa, Atendida
<1>3. QED
  BY <1>2, SegueBem DEF Pcs, NaGuarda, Atendida

\* RolesGuard lets it pass or refuses it, for a role its bearer has.
LEMMA AdmiteBem ==
  ASSUME TipoLinhas, NEW s \in Sessoes, req[s] \in Requisicoes,
         Bem(req[s], app, usuarios, ativos), req[s].pc \in NaGuarda,
         NEW p \in Papeis, p \in req[s].vistos, Admitir(s, p)
  PROVE  \E n : Bem(n, app, usuarios, ativos) /\ req' = [req EXCEPT ![s] = n]
<1> DEFINE r == req[s]
           exige == Rotas[r.rota].papeis
           q == IF exige # {} /\ p \notin exige THEN "403"
                ELSE IF r.passes = 1 THEN Despacho(r)
                ELSE IF Verifica(r.token) THEN "validar" ELSE "401"
           k == r.passes - 1
           n == Chega(r, q, k)
<1>1. req' = [req EXCEPT ![s] = n]
  BY DEF Admitir, Chega
<1>2. /\ r.token # Nada /\ r.passes > 0 /\ r.passes \in 0..2 /\ ~ r.gravou /\ r.rota # Nada
      /\ r.pc # "livre" /\ p # Nada /\ ~ Rotas[r.rota].publica
  BY Cenario DEF Bem, Coerente, NaGuarda, Requisicoes
<1>3. k \in 0..2 /\ (r.passes # 1 => k > 0)
  BY <1>2
<1> HIDE DEF k
<1>4. CASE exige # {} /\ p \notin exige
  BY <1>1, <1>2, <1>3, <1>4, RecusaBem
<1>5. CASE (exige = {} \/ p \in exige) /\ r.passes = 1
  <2>1. q = Despacho(r)
    BY <1>5
  <2>2. CASE Rotas[r.rota].webhook /\ ~ r.segredo
    <3>1. q = "401"
      BY <2>1, <2>2 DEF Despacho
    <3> HIDE DEF q
    <3>2. Bem(n, app, usuarios, ativos)
      BY <1>2, <1>3, <2>2, <3>1, RecusaBem
    <3>3. QED
      BY <1>1, <3>2 DEF q
  <2>3. CASE ~ (Rotas[r.rota].webhook /\ ~ r.segredo)
    <3>1. /\ q \in {"buscarEmail", "buscarConta", "executar"}
          /\ q = "buscarEmail" => r.rota = "registrar"
          /\ q = "buscarConta" => r.rota = "entrar"
      BY <2>1, <2>3 DEF Despacho
    <3> HIDE DEF q
    <3>2. n.pc = q /\ n.rota = r.rota /\ n.vistos = r.vistos /\ n.gravou = r.gravou
      BY <1>3, <3>1, SegueSo DEF Pcs
    <3>3. Admitida(n) /\ Explicada(n, app) /\ Completa(n, app)
      BY <1>2, <1>5, <3>1, <3>2 DEF Admitida, Explicada, Completa
    <3>4. Bem(n, app, usuarios, ativos)
      BY <1>2, <1>3, <3>1, <3>3, SegueBem DEF Pcs, NaGuarda, Atendida
    <3>5. QED
      BY <1>1, <3>4 DEF q
  <2>4. QED
    BY <2>2, <2>3
<1>6. CASE (exige = {} \/ p \in exige) /\ r.passes # 1 /\ Verifica(r.token)
  <2>1. q = "validar"
    BY <1>6
  <2> HIDE DEF q
  <2>2. n.pc = q
    BY <1>3, <2>1, SegueSo DEF Pcs
  <2>3. Admitida(n) /\ Explicada(n, app) /\ Completa(n, app)
    BY <2>1, <2>2 DEF Admitida, Explicada, Completa, Atendida
  <2>4. Bem(n, app, usuarios, ativos)
    BY <1>2, <1>3, <1>6, <2>1, <2>3, SegueBem DEF Pcs, NaGuarda, Atendida
  <2>5. QED
    BY <1>1, <2>4 DEF q
<1>7. CASE (exige = {} \/ p \in exige) /\ r.passes # 1 /\ ~ Verifica(r.token)
  <2>1. q = "401" /\ ~ Vale(r.token, app)
    BY <1>7 DEF Verifica, Vale
  <2> HIDE DEF q
  <2>2. Bem(n, app, usuarios, ativos)
    BY <1>2, <1>3, <2>1, RecusaBem
  <2>3. QED
    BY <1>1, <2>2 DEF q
<1>8. QED
  BY <1>4, <1>5, <1>6, <1>7

-----------------------------------------------------------------------------
(* What a step does to the invariant.                                      *)

\* One request moves.
LEMMA UmPedido ==
  ASSUME Pedidos, Instancia, NEW s \in Sessoes, NEW n, Bem(n, app, usuarios, ativos),
         app # Nada, req' = [req EXCEPT ![s] = n], UNCHANGED <<app, usuarios, ativos>>
  PROVE  Pedidos' /\ Instancia'
<1>1. n \in Requisicoes /\ req' \in [Sessoes -> Requisicoes]
  BY DEF Bem, Pedidos
<1>2. \A x \in Sessoes : req'[x] = IF x = s THEN n ELSE req[x]
  BY DEF Pedidos
<1>3. \A x \in Sessoes : Bem(req'[x], app, usuarios, ativos)
  BY <1>2 DEF Pedidos
<1>4. Pedidos'
  BY <1>1, <1>3 DEF Pedidos
<1>5. Instancia'
  BY DEF Instancia
<1>6. QED
  BY <1>4, <1>5

LEMMA LinhasIguais ==
  ASSUME TipoLinhas, CrachasDeUsuario, UNCHANGED linhas
  PROVE  TipoLinhas' /\ CrachasDeUsuario'
BY DEF TipoLinhas, CrachasDeUsuario, linhas

LEMMA UmPedidoSo ==
  ASSUME Invariante, NEW s \in Sessoes, app # Nada, UNCHANGED linhas,
         \E n : Bem(n, app, usuarios, ativos) /\ req' = [req EXCEPT ![s] = n]
  PROVE  Invariante'
<1>1. PICK n : Bem(n, app, usuarios, ativos) /\ req' = [req EXCEPT ![s] = n]
  OBVIOUS
<1>2. UNCHANGED <<app, usuarios, ativos>>
  BY DEF linhas
<1>3. QED
  BY <1>1, <1>2, UmPedido, LinhasIguais DEF Invariante

\* A request in flight has an instance that runs it.
LEMMA Corrente ==
  ASSUME Invariante, NEW s \in Sessoes
  PROVE  /\ Bem(req[s], app, usuarios, ativos) /\ req[s] \in Requisicoes
         /\ req[s].pc # "livre" => app # Nada
BY DEF Invariante, Pedidos, Instancia, Bem

\* The rows change under every request.
LEMMA Presenca ==
  ASSUME Invariante, NEW us \in [Contas -> Papeis \cup {Nada}], NEW cs \in SUBSET Clientes,
         NEW x \in Sessoes
  PROVE  LET n == Presenciado(us, cs)[x] IN
         /\ Bem(n, app, us, cs) /\ n \in Requisicoes
         /\ n.pc = req[x].pc /\ n.rota = req[x].rota /\ n.gravou = req[x].gravou
<1> DEFINE r == req[x]
           t == r.token
           n == Presenciado(us, cs)[x]
<1>1. Bem(r, app, usuarios, ativos) /\ r \in Requisicoes
  BY Corrente
<1>2. CASE Portador(r)
  <2>1. t \in Fichas
    BY <1>1, <1>2 DEF Portador, Requisicoes
  <2>2. PapelEm(t, app, us, cs) \in Papeis \cup {Nada}
    BY <2>1 DEF Fichas, PapelEm, Papeis
  <2>3. PapelDe(t, us, cs) = PapelEm(t, app, us, cs)
    BY DEF PapelDe, PapelEm
  <2>4. n = [r EXCEPT !.vistos = @ \cup {PapelEm(t, app, us, cs)}]
    BY <1>2, <2>3 DEF Presenciado
  <2>5. Bem(n, app, us, cs)
    BY <1>1, <1>2, <2>2, <2>4, PresenciaBem
  <2>6. n.pc = r.pc /\ n.rota = r.rota /\ n.gravou = r.gravou
    BY <1>1, <2>4 DEF Requisicoes
  <2>7. QED
    BY <2>5, <2>6 DEF Bem
<1>3. CASE ~ Portador(r)
  <2>1. n = r
    BY <1>3 DEF Presenciado
  <2>2. QED
    BY <1>1, <1>3, <2>1, SemPortadorBem
<1>4. QED
  BY <1>2, <1>3

LEMMA PresencaDeTodos ==
  ASSUME Invariante, TipoLinhas', req' = Presenciado(usuarios', ativos'), UNCHANGED <<app, cracha>>
  PROVE  Invariante'
<1>1. usuarios' \in [Contas -> Papeis \cup {Nada}] /\ ativos' \in SUBSET Clientes
  BY DEF TipoLinhas
<1>2. \A x \in Sessoes : /\ Bem(req'[x], app, usuarios', ativos') /\ req'[x] \in Requisicoes
                         /\ req'[x].pc = req[x].pc
  BY <1>1, Presenca
<1>3. req' \in [Sessoes -> Requisicoes]
  BY <1>2 DEF Presenciado
<1>4. Pedidos' /\ Instancia'
  BY <1>2, <1>3 DEF Pedidos, Instancia, Invariante
<1>5. CrachasDeUsuario'
  BY DEF CrachasDeUsuario, Invariante
<1>6. QED
  BY <1>4, <1>5 DEF Invariante

-----------------------------------------------------------------------------
(* The actions.                                                            *)

LEMMA Despachado ==
  ASSUME NEW r
  PROVE  LET q == Despacho(r) IN
         /\ q \in {"401", "buscarEmail", "buscarConta", "executar"}
         /\ q = "401" => Rotas[r.rota].webhook
         /\ q = "buscarEmail" => r.rota = "registrar"
         /\ q = "buscarConta" => r.rota = "entrar"
BY DEF Despacho

\* A request as it arrives, before the guard looks at it.
LEMMA ChegadaBem ==
  ASSUME NEW ap, NEW us, NEW cs, NEW m \in Requisicoes, m.pc = "livre", m.rota # Nada,
         m.vistos = {}, ~ m.gravou,
         m.rota \in DOMAIN RotasAuth => m.conta # Nada, m.rota = "registrar" => m.papel # Nada,
         m.token # Nada => ~ Rotas[m.rota].publica,
         m.token # Nada /\ m.token.sub \in Contas => m.token.papel # Nada,
         NEW n \in Requisicoes, n.rota = m.rota, n.token = m.token, n.conta = m.conta,
         n.papel = m.papel, n.gravou = m.gravou,
         \/ n.pc = Despacho(m) /\ Rotas[m.rota].publica
         \/ /\ n.pc = "validar" /\ Vale(m.token, ap) /\ n.passes > 0
            /\ n.vistos = {PapelEm(m.token, ap, us, cs)}
         \/ n.pc = "401" /\ (m.token = Nada \/ ~ Vale(m.token, ap))
  PROVE  Bem(n, ap, us, cs)
<1>1. CASE n.pc = Despacho(m) /\ Rotas[m.rota].publica
  <2>1. /\ n.pc \in {"401", "buscarEmail", "buscarConta", "executar"} /\ n.token = Nada
        /\ n.pc = "buscarEmail" => n.rota = "registrar"
        /\ n.pc = "buscarConta" => n.rota = "entrar"
    BY <1>1, Despachado
  <2>2. Coerente(n)
    BY <2>1 DEF Coerente
  <2>3. QED
    BY <1>1, <2>1, <2>2
       DEF Bem, Visto, Portador, Admitida, Explicada, Completa, NaGuarda, Atendida
<1>2. CASE /\ n.pc = "validar" /\ Vale(m.token, ap) /\ n.passes > 0
           /\ n.vistos = {PapelEm(m.token, ap, us, cs)}
  <2>1. Coerente(n)
    BY <1>2 DEF Coerente, Vale
  <2>2. QED
    BY <1>2, <2>1
       DEF Bem, Visto, Portador, Admitida, Explicada, Completa, NaGuarda, Atendida, Vale
<1>3. CASE n.pc = "401" /\ (m.token = Nada \/ ~ Vale(m.token, ap))
  <2>1. Coerente(n)
    BY <1>3 DEF Coerente
  <2>2. QED
    BY <1>3, <2>1
       DEF Bem, Visto, Portador, Admitida, Explicada, Completa, NaGuarda, Atendida
<1>4. QED
  BY <1>1, <1>2, <1>3

\* The record Chegar builds, in the two steps of its definition.
Chamada(p, rota, t, k) == [p EXCEPT !.rota = rota, !.token = t, !.passes = k]

ComCorpo(p, segredo, conta, papel) ==
  [p EXCEPT !.segredo = segredo, !.conta = conta, !.papel = papel]

Verificada(p, v) == [p EXCEPT !.pc = "validar", !.vistos = v]

Barrada(p) == [p EXCEPT !.pc = "401"]

LEMMA VerificadaSo ==
  ASSUME NEW p \in Requisicoes, NEW v \in SUBSET (Papeis \cup {Nada})
  PROVE  LET n == Verificada(p, v) IN
         /\ n \in Requisicoes /\ n.pc = "validar" /\ n.rota = p.rota /\ n.token = p.token
         /\ n.passes = p.passes /\ n.conta = p.conta /\ n.papel = p.papel
         /\ n.vistos = v /\ n.gravou = p.gravou
BY DEF Requisicoes, Verificada, Pcs

LEMMA BarradaSo ==
  ASSUME NEW p \in Requisicoes
  PROVE  LET n == Barrada(p) IN
         /\ n \in Requisicoes /\ n.pc = "401" /\ n.rota = p.rota /\ n.token = p.token
         /\ n.conta = p.conta /\ n.papel = p.papel /\ n.gravou = p.gravou
BY DEF Requisicoes, Barrada, Pcs

LEMMA ChamadaSo ==
  ASSUME NEW p \in Requisicoes, NEW rota \in DOMAIN Rotas, NEW t \in Fichas \cup {Nada},
         NEW k \in 0..2
  PROVE  LET n == Chamada(p, rota, t, k) IN
         /\ n \in Requisicoes /\ n.pc = p.pc /\ n.rota = rota /\ n.token = t /\ n.passes = k
         /\ n.vistos = p.vistos /\ n.gravou = p.gravou
BY DEF Requisicoes, Chamada

LEMMA ComCorpoSo ==
  ASSUME NEW p \in Requisicoes, NEW segredo \in BOOLEAN, NEW conta \in Contas \cup {Nada},
         NEW papel \in Papeis \cup {Nada}
  PROVE  LET n == ComCorpo(p, segredo, conta, papel) IN
         /\ n \in Requisicoes /\ n.pc = p.pc /\ n.rota = p.rota /\ n.token = p.token
         /\ n.passes = p.passes /\ n.conta = conta /\ n.papel = papel
         /\ n.vistos = p.vistos /\ n.gravou = p.gravou
BY DEF Requisicoes, ComCorpo

LEMMA ChegadaNova ==
  ASSUME NEW rota \in DOMAIN Rotas, NEW t \in Fichas \cup {Nada}, NEW k \in 1..2,
         NEW segredo \in BOOLEAN, NEW conta \in Contas \cup {Nada},
         NEW papel \in Papeis \cup {Nada}
  PROVE  LET m == ComCorpo(Chamada(Parada, rota, t, k), segredo, conta, papel) IN
         /\ m \in Requisicoes /\ m.pc = "livre" /\ m.rota = rota /\ m.token = t /\ m.passes = k
         /\ m.conta = conta /\ m.papel = papel /\ m.vistos = {} /\ ~ m.gravou
<1> DEFINE n == Chamada(Parada, rota, t, k)
<1>1. Parada \in Requisicoes
  BY ParadaBem DEF Bem
<1>2. Parada.pc = "livre" /\ Parada.vistos = {} /\ Parada.gravou = FALSE
  BY DEF Parada
<1>3. /\ n \in Requisicoes /\ n.pc = Parada.pc /\ n.rota = rota /\ n.token = t /\ n.passes = k
      /\ n.vistos = Parada.vistos /\ n.gravou = Parada.gravou
  <2>1. k \in 0..2
    OBVIOUS
  <2>2. QED
    BY <1>1, <2>1, ChamadaSo
<1> HIDE DEF n
<1>4. LET m == ComCorpo(n, segredo, conta, papel) IN
      /\ m \in Requisicoes /\ m.pc = n.pc /\ m.rota = n.rota /\ m.token = n.token
      /\ m.passes = n.passes /\ m.conta = conta /\ m.papel = papel
      /\ m.vistos = n.vistos /\ m.gravou = n.gravou
  BY <1>3, ComCorpoSo
<1>5. QED
  BY <1>2, <1>3, <1>4 DEF n

LEMMA ChegarPreserva ==
  ASSUME Invariante, NEW s \in Sessoes, Chegar(s)
  PROVE  Invariante'
<1>1. app # Nada /\ UNCHANGED linhas
  BY DEF Chegar
<1>2. PICK rota \in Visitadas, x \in Contas \cup Clientes \cup {Nada} :
        LET r == Rotas[rota]
            t == IF x = Nada THEN Nada ELSE cracha[x]
            n == Chamada(Parada, rota, t, IF r.dupla THEN 2 ELSE 1) IN
        /\ x # Nada => t # Nada /\ ~ r.publica
        /\ \E segredo \in IF r.webhook THEN BOOLEAN ELSE {FALSE},
              conta \in IF rota \in DOMAIN RotasAuth THEN Contas ELSE {Nada},
              papel \in IF rota = "registrar" THEN Registraveis ELSE {Nada} :
             LET m == ComCorpo(n, segredo, conta, papel) IN
             req' = [req EXCEPT ![s] =
               IF r.publica THEN Chega(m, Despacho(m), 0)
               ELSE IF Verifica(t) THEN Verificada(m, {PapelDe(t, usuarios, ativos)})
               ELSE Barrada(m)]
  BY Zenon DEF Chegar, Chamada, ComCorpo, Chega, Verificada, Barrada
<1> DEFINE r == Rotas[rota]
           t == IF x = Nada THEN Nada ELSE cracha[x]
           k == IF r.dupla THEN 2 ELSE 1
<1>3. PICK segredo \in IF r.webhook THEN BOOLEAN ELSE {FALSE},
           conta \in IF rota \in DOMAIN RotasAuth THEN Contas ELSE {Nada},
           papel \in IF rota = "registrar" THEN Registraveis ELSE {Nada} :
        LET m == ComCorpo(Chamada(Parada, rota, t, k), segredo, conta, papel) IN
        req' = [req EXCEPT ![s] =
          IF r.publica THEN Chega(m, Despacho(m), 0)
          ELSE IF Verifica(t) THEN Verificada(m, {PapelDe(t, usuarios, ativos)})
          ELSE Barrada(m)]
  BY <1>2
<1> DEFINE m == ComCorpo(Chamada(Parada, rota, t, k), segredo, conta, papel)
           d == Despacho(m)
           v == {PapelEm(t, app, usuarios, ativos)}
           f == IF r.publica THEN Chega(m, d, 0)
                ELSE IF Verifica(t) THEN Verificada(m, v) ELSE Barrada(m)
<1>4. Verifica(t) = Vale(t, app) /\ PapelDe(t, usuarios, ativos) = PapelEm(t, app, usuarios, ativos)
  BY DEF Verifica, Vale, PapelDe, PapelEm
<1>5. req' = [req EXCEPT ![s] = f]
  BY <1>3, <1>4
<1>6. /\ rota \in DOMAIN Rotas /\ rota # Nada /\ segredo \in BOOLEAN /\ conta \in Contas \cup {Nada}
      /\ papel \in Papeis \cup {Nada} /\ (rota \in DOMAIN RotasAuth => conta # Nada)
      /\ (rota = "registrar" => papel # Nada)
  BY Cenario, Ambientes
<1>7. /\ t \in Fichas \cup {Nada} /\ (t # Nada => ~ r.publica)
      /\ (t # Nada /\ t.sub \in Contas => t.papel # Nada)
  BY <1>2 DEF TipoLinhas, CrachasDeUsuario, Invariante
<1>8. k \in 1..2
  OBVIOUS
<1> HIDE DEF r, t, k
<1>9. /\ m \in Requisicoes /\ m.pc = "livre" /\ m.rota = rota /\ m.token = t /\ m.passes = k
      /\ m.conta = conta /\ m.papel = papel /\ m.vistos = {} /\ ~ m.gravou
  BY <1>6, <1>7, <1>8, ChegadaNova
<1>10. Verifica(t) => v \in SUBSET (Papeis \cup {Nada})
  <2>1. Verifica(t) => t \in Fichas
    BY <1>7 DEF Verifica
  <2>2. QED
    BY <2>1 DEF PapelEm, TipoLinhas, Fichas, Papeis, Invariante
<1>11. d \in {"401", "buscarEmail", "buscarConta", "executar"}
  BY Despachado
<1>12. /\ r = Rotas[m.rota] /\ d = Despacho(m) /\ v = {PapelEm(m.token, app, usuarios, ativos)}
  BY <1>9 DEF r
<1> HIDE DEF m, d, v
<1>13. Bem(f, app, usuarios, ativos)
  <2>1. CASE r.publica
    <3>1. f = Chega(m, d, 0)
      BY <2>1
    <3>2. /\ f \in Requisicoes /\ f.rota = m.rota /\ f.token = m.token /\ f.conta = m.conta
          /\ f.papel = m.papel /\ f.gravou = m.gravou /\ f.pc = d
      BY <1>9, <1>11, <3>1, SegueSo DEF Pcs
    <3> HIDE DEF f
    <3>3. QED
      BY <1>6, <1>7, <1>9, <1>12, <2>1, <3>2, ChegadaBem
  <2>2. CASE ~ r.publica /\ Verifica(t)
    <3>1. f = Verificada(m, v)
      BY <2>2
    <3>2. /\ f \in Requisicoes /\ f.rota = m.rota /\ f.token = m.token /\ f.conta = m.conta
          /\ f.papel = m.papel /\ f.gravou = m.gravou /\ f.pc = "validar" /\ f.vistos = v
          /\ f.passes = k
      BY <1>9, <1>10, <2>2, <3>1, VerificadaSo
    <3> HIDE DEF f
    <3>3. k > 0
      BY <1>8
    <3>4. QED
      BY <1>4, <1>6, <1>7, <1>9, <1>12, <2>2, <3>2, <3>3, ChegadaBem
  <2>3. CASE ~ r.publica /\ ~ Verifica(t)
    <3>1. f = Barrada(m)
      BY <2>3
    <3>2. /\ f \in Requisicoes /\ f.rota = m.rota /\ f.token = m.token /\ f.conta = m.conta
          /\ f.papel = m.papel /\ f.gravou = m.gravou /\ f.pc = "401"
      BY <1>9, <3>1, BarradaSo
    <3> HIDE DEF f
    <3>3. QED
      BY <1>4, <1>6, <1>7, <1>9, <1>12, <2>3, <3>2, ChegadaBem
  <2>4. QED
    BY <2>1, <2>2, <2>3
<1> HIDE DEF f
<1>14. QED
  BY <1>1, <1>5, <1>13, UmPedidoSo

LEMMA VaiSo ==
  ASSUME NEW s \in Sessoes, req[s] \in Requisicoes, NEW q \in Pcs, Vai(s, q)
  PROVE  req' = [req EXCEPT ![s] = Chega(req[s], q, req[s].passes)]
<1> DEFINE Para(r) == [r EXCEPT !.pc = q]
<1>1. ASSUME NEW r \in Requisicoes
      PROVE  Para(r) = Chega(r, q, r.passes)
  BY DEF Requisicoes, Chega
<1>2. req' = [req EXCEPT ![s] = Para(req[s])]
  BY DEF Vai
<1>3. QED
  BY <1>1, <1>2

LEMMA ValidarPreserva ==
  ASSUME Invariante, NEW s \in Sessoes, Validar(s)
  PROVE  Invariante'
<1> DEFINE r == req[s]
           t == r.token
<1>1. /\ Bem(r, app, usuarios, ativos) /\ r \in Requisicoes /\ app # Nada /\ UNCHANGED linhas
      /\ r.pc = "validar" /\ ~ (app.gateway /\ t.papel = Nada)
      /\ TipoLinhas
  BY Corrente DEF Validar, Invariante
<1>2. /\ t # Nada /\ r.pc \in NaGuarda /\ r.rota # Nada /\ ~ r.gravou /\ r.pc # "livre"
      /\ PapelEm(t, app, usuarios, ativos) \in r.vistos /\ r.passes \in 0..2
  BY <1>1 DEF Bem, NaGuarda, Coerente, Visto, Portador, Requisicoes
<1>3. CASE t.sub \in Contas /\ usuarios[t.sub] # Nada
  <2>1. usuarios[t.sub] \in Papeis /\ usuarios[t.sub] \in r.vistos
    BY <1>1, <1>2, <1>3 DEF TipoLinhas, PapelEm
  <2>2. Admitir(s, usuarios[t.sub])
    BY <1>3 DEF Validar
  <2>3. QED
    BY <1>1, <1>2, <2>1, <2>2, AdmiteBem, UmPedidoSo
<1>4. CASE ~ (t.sub \in Contas /\ usuarios[t.sub] # Nada)
  <2> DEFINE n == Chega(r, "validarCliente", r.passes)
  <2>1. req' = [req EXCEPT ![s] = n]
    BY <1>1, <1>4, VaiSo DEF Validar, Pcs
  <2>2. n.pc = "validarCliente"
    BY <1>1, <1>2, SegueSo DEF Pcs
  <2>3. t.sub \in Contas => Nada \in r.vistos
    BY <1>2, <1>4 DEF PapelEm
  <2>4. Admitida(n) /\ Explicada(n, app) /\ Completa(n, app)
    BY <2>2 DEF Admitida, Explicada, Completa, Atendida
  <2> HIDE DEF n
  <2>5. r.passes > 0
    BY <1>1, <1>2 DEF Bem
  <2>6. Bem(n, app, usuarios, ativos)
    BY <1>1, <1>2, <2>3, <2>4, <2>5, SegueBem DEF n, Pcs, NaGuarda, Atendida
  <2>7. QED
    BY <1>1, <2>1, <2>6, UmPedidoSo
<1>5. QED
  BY <1>3, <1>4

LEMMA ValidarClientePreserva ==
  ASSUME Invariante, NEW s \in Sessoes, ValidarCliente(s)
  PROVE  Invariante'
<1> DEFINE r == req[s]
           t == r.token
<1>1. /\ Bem(r, app, usuarios, ativos) /\ r \in Requisicoes /\ app # Nada /\ UNCHANGED linhas
      /\ r.pc = "validarCliente" /\ TipoLinhas
  BY Corrente DEF ValidarCliente, Invariante
<1>2. /\ t # Nada /\ r.pc \in NaGuarda /\ ~ r.gravou /\ r.pc # "livre"
      /\ PapelEm(t, app, usuarios, ativos) \in r.vistos /\ r.passes \in 0..2
      /\ ~ (app.gateway /\ t.papel = Nada) /\ (t.sub \in Contas => Nada \in r.vistos)
  BY <1>1 DEF Bem, NaGuarda, Coerente, Visto, Portador, Requisicoes
<1>3. CASE t.sub \in ativos
  <2>1. "CLIENTE" \in Papeis /\ "CLIENTE" \in r.vistos
    BY <1>1, <1>2, <1>3, Cenario DEF TipoLinhas, PapelEm, Papeis
  <2>2. Admitir(s, "CLIENTE")
    BY <1>3 DEF ValidarCliente
  <2>3. QED
    BY <1>1, <1>2, <2>1, <2>2, AdmiteBem, UmPedidoSo
<1>4. CASE t.sub \notin ativos
  <2> DEFINE n == Chega(r, "401", r.passes)
  <2>1. req' = [req EXCEPT ![s] = n]
    BY <1>1, <1>4, VaiSo DEF ValidarCliente, Pcs
  <2>2. Nada \in r.vistos
    BY <1>2, <1>4 DEF PapelEm
  <2> HIDE DEF n
  <2>3. Bem(n, app, usuarios, ativos)
    BY <1>1, <1>2, <2>2, RecusaBem DEF n
  <2>4. QED
    BY <1>1, <2>1, <2>3, UmPedidoSo
<1>5. QED
  BY <1>3, <1>4

LEMMA ValidarPortadorPreserva ==
  ASSUME Invariante, NEW s \in Sessoes, ValidarPortador(s)
  PROVE  Invariante'
<1> DEFINE r == req[s]
           t == r.token
<1>1. /\ Bem(r, app, usuarios, ativos) /\ r \in Requisicoes /\ app # Nada /\ UNCHANGED linhas
      /\ r.pc = "validar" /\ app.gateway /\ t.papel = Nada /\ TipoLinhas
  BY Corrente DEF ValidarPortador, Invariante
<1>2. /\ t # Nada /\ r.pc \in NaGuarda /\ ~ r.gravou /\ r.pc # "livre"
      /\ PapelEm(t, app, usuarios, ativos) \in r.vistos /\ r.passes \in 0..2
      /\ t.sub \notin Contas
  BY <1>1 DEF Bem, NaGuarda, Coerente, Visto, Portador, Requisicoes
<1>3. CASE t.sub \in ativos
  <2>1. "RECEPCIONISTA" \in Papeis /\ "RECEPCIONISTA" \in r.vistos
    BY <1>1, <1>2, <1>3 DEF PapelEm, Papeis
  <2>2. Admitir(s, "RECEPCIONISTA")
    BY <1>3 DEF ValidarPortador
  <2>3. QED
    BY <1>1, <1>2, <2>1, <2>2, AdmiteBem, UmPedidoSo
<1>4. CASE t.sub \notin ativos
  <2> DEFINE n == Chega(r, "401", r.passes)
  <2>1. req' = [req EXCEPT ![s] = n]
    BY <1>1, <1>4, VaiSo DEF ValidarPortador, Pcs
  <2>2. Nada \in r.vistos
    BY <1>2, <1>4 DEF PapelEm
  <2> HIDE DEF n
  <2>3. Bem(n, app, usuarios, ativos)
    BY <1>1, <1>2, <2>2, RecusaBem DEF n
  <2>4. QED
    BY <1>1, <2>1, <2>3, UmPedidoSo
<1>5. QED
  BY <1>3, <1>4

\* An answer frees the session.
LEMMA AtendePreserva ==
  ASSUME Invariante, NEW s \in Sessoes, req[s].pc # "livre", Atende(s),
         UNCHANGED <<app, usuarios, ativos>>
  PROVE  Pedidos' /\ Instancia'
BY Corrente, ParadaBem, UmPedido DEF Invariante, Atende

LEMMA RegistrarBuscarPreserva ==
  ASSUME Invariante, NEW s \in Sessoes, RegistrarBuscar(s)
  PROVE  Invariante'
<1> DEFINE r == req[s]
           q == IF usuarios[r.conta] # Nada THEN "409" ELSE "criar"
           n == Chega(r, q, r.passes)
<1>1. /\ Bem(r, app, usuarios, ativos) /\ r \in Requisicoes /\ app # Nada /\ UNCHANGED linhas
      /\ r.pc = "buscarEmail" /\ q \in {"409", "criar"} /\ Vai(s, q)
  BY Corrente DEF RegistrarBuscar
<1>2. r.rota = "registrar" /\ ~ r.gravou /\ r.pc # "livre" /\ r.passes \in 0..2
  BY <1>1 DEF Bem, Coerente, Requisicoes
<1> HIDE DEF q
<1>3. req' = [req EXCEPT ![s] = n]
  BY <1>1, VaiSo DEF Pcs
<1>4. CASE q = "409"
  <2>1. Bem(n, app, usuarios, ativos)
    BY <1>1, <1>2, <1>4, RecusaBem
  <2>2. QED
    BY <1>1, <1>3, <2>1, UmPedidoSo
<1>5. CASE q = "criar"
  <2>1. n.pc = q /\ n.rota = r.rota /\ n.vistos = r.vistos /\ n.gravou = r.gravou
    BY <1>1, <1>2, SegueSo DEF Pcs
  <2>2. Admitida(n) /\ Explicada(n, app) /\ Completa(n, app)
    BY <1>1, <1>2, <1>5, <2>1 DEF Bem, Admitida, Explicada, Completa, Atendida
  <2> HIDE DEF n
  <2>3. Bem(n, app, usuarios, ativos)
    BY <1>1, <1>2, <1>5, <2>2, SegueBem DEF n, Pcs, NaGuarda, Atendida
  <2>4. QED
    BY <1>1, <1>3, <2>3, UmPedidoSo
<1>6. QED
  BY <1>1, <1>4, <1>5

\* The request has written its account.
Gravada(r) == [r EXCEPT !.pc = "assinar", !.gravou = TRUE]

LEMMA GravadaBem ==
  ASSUME NEW ap, NEW us, NEW cs, NEW r, Bem(r, ap, us, cs), r.pc = "criar"
  PROVE  Bem(Gravada(r), ap, us, cs) /\ Gravada(r).pc = "assinar"
<1> DEFINE n == Gravada(r)
<1>1. r \in Requisicoes /\ r.rota = "registrar" /\ r.papel # Nada
  BY DEF Bem, Coerente
<1>2. /\ n \in Requisicoes /\ n.pc = "assinar" /\ n.rota = r.rota /\ n.token = r.token
      /\ n.conta = r.conta /\ n.papel = r.papel /\ n.vistos = r.vistos
  BY <1>1 DEF Requisicoes, Gravada, Pcs
<1> HIDE DEF n
<1>3. Coerente(n)
  BY <1>1, <1>2, RotasDoAuth DEF Bem, Coerente
<1>4. Visto(n, ap, us, cs)
  BY <1>2 DEF Bem, Visto, Portador, Atendida
<1>5. Admitida(n) /\ Explicada(n, ap) /\ Completa(n, ap)
  BY <1>2 DEF Bem, Admitida, Explicada, Completa, Atendida
<1>6. r.rota # Nada
  BY DEF Bem
<1>7. QED
  BY <1>2, <1>3, <1>4, <1>5, <1>6 DEF Bem, NaGuarda, n

LEMMA RegistrarCriarPreserva ==
  ASSUME Invariante, NEW s \in Sessoes, RegistrarCriar(s)
  PROVE  Invariante'
<1> DEFINE r == req[s]
           us == [usuarios EXCEPT ![r.conta] = r.papel]
<1>1. /\ Bem(r, app, usuarios, ativos) /\ r \in Requisicoes /\ app # Nada
      /\ UNCHANGED <<app, ativos, cracha>> /\ r.pc = "criar"
  BY Corrente DEF RegistrarCriar
<1>2. /\ ~ r.gravou /\ r.pc # "livre" /\ r.passes \in 0..2 /\ r.rota = "registrar"
      /\ r.conta \in Contas /\ r.papel \in Papeis
  BY <1>1, RotasDoAuth DEF Bem, Coerente, Requisicoes
<1>3. CASE usuarios[r.conta] # Nada
  <2>1. UNCHANGED linhas /\ Vai(s, "500")
    BY <1>1, <1>3 DEF RegistrarCriar, linhas
  <2>2. req' = [req EXCEPT ![s] = Chega(r, "500", r.passes)]
    BY <1>1, <2>1, VaiSo DEF Pcs
  <2>3. Bem(Chega(r, "500", r.passes), app, usuarios, ativos)
    BY <1>1, <1>2, RecusaBem
  <2>4. QED
    BY <1>1, <2>1, <2>2, <2>3, UmPedidoSo
<1>4. CASE ~ (usuarios[r.conta] # Nada)
  <2>1. /\ usuarios' = us
        /\ req' = [Presenciado(us, ativos) EXCEPT ![s] = Gravada(Presenciado(us, ativos)[s])]
    BY <1>4, Zenon DEF RegistrarCriar, Gravada
  <2>2. us \in [Contas -> Papeis \cup {Nada}] /\ ativos \in SUBSET Clientes
    BY <1>2 DEF Invariante, TipoLinhas
  <2> HIDE DEF us
  <2> DEFINE pr == Presenciado(us, ativos)
  <2>3. \A x \in Sessoes : /\ Bem(pr[x], app, us, ativos) /\ pr[x] \in Requisicoes
                           /\ pr[x].pc = req[x].pc
    BY <2>2, Presenca
  <2>4. DOMAIN pr = Sessoes
    BY DEF Presenciado
  <2> HIDE DEF pr
  <2>5. Bem(Gravada(pr[s]), app, us, ativos) /\ Gravada(pr[s]) \in Requisicoes
    BY <1>1, <2>3, GravadaBem DEF Bem
  <2>6. pr \in [Sessoes -> Requisicoes]
    <3>1. pr = [x \in Sessoes |-> pr[x]]
      BY Zenon DEF pr, Presenciado
    <3>2. QED
      BY <2>3, <3>1
  <2>7. req' = [pr EXCEPT ![s] = Gravada(pr[s])]
    BY <2>1 DEF pr
  <2>8. /\ req' \in [Sessoes -> Requisicoes]
        /\ \A x \in Sessoes : Bem(req'[x], app, us, ativos)
    BY <2>3, <2>5, <2>6, <2>7
  <2>9. Pedidos' /\ Instancia'
    BY <1>1, <2>1, <2>8 DEF Pedidos, Instancia, Invariante
  <2>10. TipoLinhas' /\ CrachasDeUsuario'
    BY <1>1, <2>1, <2>2 DEF TipoLinhas, CrachasDeUsuario, Invariante
  <2>11. QED
    BY <2>9, <2>10 DEF Invariante
<1>5. QED
  BY <1>3, <1>4

\* The account a login has read.
Lida(r, p, q) == [r EXCEPT !.papel = p, !.pc = q]

LEMMA LoginBuscarPreserva ==
  ASSUME Invariante, NEW s \in Sessoes, LoginBuscar(s)
  PROVE  Invariante'
<1> DEFINE r == req[s]
           p == usuarios[r.conta]
<1>1. /\ Bem(r, app, usuarios, ativos) /\ r \in Requisicoes /\ app # Nada /\ UNCHANGED linhas
      /\ r.pc = "buscarConta"
  BY Corrente DEF LoginBuscar
<1>2. /\ r.rota = "entrar" /\ r.conta \in Contas /\ r.token = Nada /\ ~ r.gravou
      /\ Rotas[r.rota].publica
  BY <1>1, RotasDoAuth, Ambientes DEF Bem, Coerente, Requisicoes
<1>3. p \in Papeis \cup {Nada}
  BY <1>2 DEF Invariante, TipoLinhas
<1>4. PICK q \in {"assinar", "401"} : /\ q = "assinar" => p # Nada
                                      /\ req' = [req EXCEPT ![s] = Lida(r, p, q)]
  <2>1. PICK confere \in BOOLEAN :
          req' = [req EXCEPT ![s].papel = p, ![s].pc = IF p # Nada /\ confere THEN "assinar" ELSE "401"]
    BY DEF LoginBuscar
  <2> DEFINE q == IF p # Nada /\ confere THEN "assinar" ELSE "401"
  <2>2. req' = [req EXCEPT ![s] = Lida(r, p, q)]
    BY <2>1 DEF Lida
  <2>3. q \in {"assinar", "401"} /\ (q = "assinar" => p # Nada)
    OBVIOUS
  <2> HIDE DEF q, p
  <2>4. QED
    BY <2>2, <2>3
<1> DEFINE n == Lida(r, p, q)
<1> HIDE DEF p
<1>5. /\ n \in Requisicoes /\ n.pc = q /\ n.rota = r.rota /\ n.token = r.token
      /\ n.conta = r.conta /\ n.papel = p /\ n.vistos = r.vistos /\ n.gravou = r.gravou
  BY <1>1, <1>3, <1>4, Zenon DEF Requisicoes, Lida, Pcs
<1> HIDE DEF n
<1>6. Coerente(n)
  BY <1>1, <1>2, <1>4, <1>5, RotasDoAuth DEF Bem, Coerente
<1>7. Bem(n, app, usuarios, ativos)
  BY <1>1, <1>2, <1>4, <1>5, <1>6
     DEF Bem, Visto, Portador, Admitida, Explicada, Completa, NaGuarda, Atendida
<1>8. QED
  BY <1>1, <1>4, <1>7, UmPedidoSo DEF n

LEMMA GerarTokenPreserva ==
  ASSUME Invariante, NEW s \in Sessoes, GerarToken(s)
  PROVE  Invariante'
<1> DEFINE r == req[s]
<1>1. /\ Bem(r, app, usuarios, ativos) /\ r \in Requisicoes /\ app # Nada
      /\ UNCHANGED <<app, usuarios, ativos>> /\ r.pc = "assinar"
  BY Corrente DEF GerarToken
<1>2. /\ r.conta \in Contas /\ r.papel \in Papeis /\ r.passes \in 0..2
      /\ r.rota \in DOMAIN RotasAuth
  BY <1>1 DEF Bem, Coerente, Requisicoes
<1>3. Pedidos' /\ Instancia'
  <2>1. CASE app.assina
    BY <1>1, <2>1, AtendePreserva DEF GerarToken
  <2>2. CASE ~ app.assina
    <3> DEFINE n == Chega(r, "500", r.passes)
    <3>1. req' = [req EXCEPT ![s] = n]
      BY <1>1, <2>2, VaiSo DEF GerarToken, Pcs
    <3>2. n.pc = "500"
      BY <1>1, <1>2, SegueSo DEF Pcs
    <3>3. ~ app.producao
      BY <1>1, <2>2 DEF Invariante, Instancia
    <3>4. Admitida(n) /\ Explicada(n, app) /\ Completa(n, app)
      BY <3>2, <3>3 DEF Admitida, Explicada, Completa, Atendida
    <3> HIDE DEF n
    <3>5. Bem(n, app, usuarios, ativos)
      BY <1>1, <1>2, <3>4, SegueBem DEF n, Pcs, NaGuarda, Atendida
    <3>6. QED
      BY <1>1, <3>1, <3>5, UmPedido DEF Invariante
  <2>3. QED
    BY <2>1, <2>2
<1>4. CASE UNCHANGED cracha
  <2>1. UNCHANGED linhas
    BY <1>1, <1>4 DEF linhas
  <2>2. QED
    BY <1>3, <2>1, LinhasIguais DEF Invariante
<1>5. CASE cracha' = [cracha EXCEPT ![r.conta] = Emitido(r.conta, r.papel)]
  <2> DEFINE e == Emitido(r.conta, r.papel)
  <2>1. e \in Fichas /\ e.papel # Nada
    BY <1>1, <1>2, Cenario DEF Emitido, Fichas, Invariante, TipoLinhas
  <2> HIDE DEF e
  <2>2. TipoLinhas'
    BY <1>1, <1>2, <1>5, <2>1 DEF TipoLinhas, Invariante, e
  <2>3. CrachasDeUsuario'
    BY <1>2, <1>5, <2>1 DEF CrachasDeUsuario, TipoLinhas, Invariante, e
  <2>4. QED
    BY <1>3, <2>2, <2>3 DEF Invariante
<1>6. QED
  BY <1>4, <1>5 DEF GerarToken

LEMMA MudancaDeLinhas ==
  ASSUME Invariante
  PROVE  /\ \A e \in Contas : SemearUsuario(e) \/ RegistrarNoutra(e) => Invariante'
         /\ \A k \in Clientes : MudarCliente(k) => Invariante'
<1>1. ASSUME NEW e \in Contas, SemearUsuario(e)
      PROVE  Invariante'
  <2>1. usuarios' \in [Contas -> Papeis \cup {Nada}]
    BY <1>1, Cenario DEF SemearUsuario, Invariante, TipoLinhas
  <2>2. TipoLinhas'
    BY <1>1, <2>1 DEF SemearUsuario, Invariante, TipoLinhas
  <2>3. QED
    BY <1>1, <2>2, PresencaDeTodos DEF SemearUsuario
<1>2. ASSUME NEW e \in Contas, RegistrarNoutra(e)
      PROVE  Invariante'
  <2>1. usuarios' \in [Contas -> Papeis \cup {Nada}]
    BY <1>2, Cenario DEF RegistrarNoutra, Invariante, TipoLinhas
  <2>2. TipoLinhas'
    BY <1>2, <2>1 DEF RegistrarNoutra, Invariante, TipoLinhas
  <2>3. QED
    BY <1>2, <2>2, PresencaDeTodos DEF RegistrarNoutra
<1>3. ASSUME NEW k \in Clientes, MudarCliente(k)
      PROVE  Invariante'
  <2>1. ativos' \subseteq Clientes
    BY <1>3 DEF MudarCliente, Invariante, TipoLinhas
  <2>2. TipoLinhas'
    BY <1>3, <2>1 DEF MudarCliente, Invariante, TipoLinhas
  <2>3. QED
    BY <1>3, <2>2, PresencaDeTodos DEF MudarCliente
<1>4. QED
  BY <1>1, <1>2, <1>3

LEMMA EmitirClientePreserva ==
  ASSUME Invariante, NEW k \in Clientes, EmitirCliente(k)
  PROVE  Invariante'
<1> DEFINE e == [sub |-> k, papel |-> Nada, alg |-> "RS256", prazo |-> PrazoPadrao, idade |-> 0]
<1>1. cracha' = [cracha EXCEPT ![k] = e] /\ UNCHANGED <<app, usuarios, ativos, req>>
  BY DEF EmitirCliente
<1>2. e \in Fichas /\ e.sub \notin Contas
  BY Cenario DEF Fichas, PrazoPadrao
<1> HIDE DEF e
<1>3. TipoLinhas' /\ CrachasDeUsuario'
  BY <1>1, <1>2 DEF TipoLinhas, CrachasDeUsuario, Invariante
<1>4. Pedidos' /\ Instancia'
  BY <1>1 DEF Pedidos, Instancia, Invariante
<1>5. QED
  BY <1>3, <1>4 DEF Invariante

LEMMA Envelhecida ==
  ASSUME NEW t \in Fichas \cup {Nada}
  PROVE  /\ Envelhece(t) \in Fichas \cup {Nada}
         /\ Envelhece(t) # Nada => t # Nada /\ Envelhece(t).sub = t.sub /\ Envelhece(t).papel = t.papel
<1>1. CASE t # Nada /\ t.idade < PrazoMaximo
  <2>1. t \in Fichas
    BY <1>1
  <2>2. /\ Envelhece(t) \in Fichas
        /\ Envelhece(t).sub = t.sub /\ Envelhece(t).papel = t.papel
    BY <1>1, <2>1, Cenario DEF Envelhece, Fichas
  <2>3. QED
    BY <1>1, <2>2
<1>2. CASE ~ (t # Nada /\ t.idade < PrazoMaximo)
  BY <1>2 DEF Envelhece
<1>3. QED
  BY <1>1, <1>2

LEMMA PassarPreserva ==
  ASSUME Invariante, Passar
  PROVE  Invariante'
<1>1. /\ UNCHANGED <<app, usuarios, ativos>>
      /\ cracha' = [x \in DOMAIN cracha |-> Envelhece(cracha[x])]
      /\ req' = [s \in Sessoes |-> [req[s] EXCEPT !.token = Envelhece(@)]]
  BY DEF Passar
<1>2. ASSUME NEW s \in Sessoes
      PROVE  Bem(req'[s], app, usuarios, ativos) /\ req'[s].pc = req[s].pc
  <2>1. Bem(req[s], app, usuarios, ativos) /\ req[s] \in Requisicoes
    BY <1>2, Corrente
  <2>2. req[s].pc # "livre" => app.prazo \in Nat
    BY <1>2, Corrente, Cenario DEF Invariante, TipoLinhas
  <2>3. req'[s] = [req[s] EXCEPT !.token = Envelhece(@)]
    BY <1>1, <1>2
  <2>4. Bem(req'[s], app, usuarios, ativos)
    BY <2>1, <2>2, <2>3, EnvelheceBem
  <2>5. req'[s].pc = req[s].pc
    BY <2>1, <2>3 DEF Requisicoes
  <2>6. QED
    BY <2>4, <2>5
<1>3. req' \in [Sessoes -> Requisicoes]
  BY <1>1, <1>2 DEF Bem
<1>4. Pedidos' /\ Instancia'
  BY <1>1, <1>2, <1>3 DEF Pedidos, Instancia, Invariante
<1>5. cracha \in [Contas \cup Clientes -> Fichas \cup {Nada}] /\ CrachasDeUsuario
  BY DEF Invariante, TipoLinhas
<1>6. cracha' \in [Contas \cup Clientes -> Fichas \cup {Nada}] /\ CrachasDeUsuario'
  BY <1>1, <1>5, Envelhecida DEF CrachasDeUsuario
<1>7. TipoLinhas'
  BY <1>1, <1>6 DEF TipoLinhas, Invariante
<1>8. QED
  BY <1>4, <1>6, <1>7 DEF Invariante

\* What starts has a contract of the right shape, and in production the key it
\* signs with.
LEMMA ContratoBom ==
  ASSUME NEW c \in Configs, Sobe(c)
  PROVE  /\ Contrato(c) \in [alg : {"HS256", "RS256"}, prazo : 1..PrazoMaximo, producao : BOOLEAN,
                             gateway : BOOLEAN, assina : BOOLEAN]
         /\ Contrato(c).producao => Contrato(c).assina
<1>1. /\ c.producao \in BOOLEAN /\ c.gateway \in BOOLEAN /\ c.privada \in BOOLEAN
      /\ c.prazo \in Nat \cup {Nada} /\ Prazo(c) <= PrazoMaximo
  BY Ambientes
<1>2. /\ Algoritmo(c) \in {"HS256", "RS256"} /\ Prazo(c) # Nada /\ Prazo(c) > 0
      /\ (c.producao => Algoritmo(c) = "RS256")
      /\ (Algoritmo(c) = "RS256" /\ c.producao => c.privada)
  BY DEF Sobe, ResolveJwtContract, CreateJwtModuleOptions
<1>3. Prazo(c) \in 1..PrazoMaximo
  <2>1. Prazo(c) \in Nat
    BY <1>1, <1>2 DEF Prazo, PrazoPadrao
  <2>2. QED
    BY <1>1, <1>2, <2>1, Cenario
<1>4. QED
  BY <1>1, <1>2, <1>3 DEF Contrato

LEMMA ImplantarPreserva ==
  ASSUME Invariante, NEW c \in Configs, Implantar(c)
  PROVE  Invariante'
<1>1. /\ app' = IF Sobe(c) THEN Contrato(c) ELSE Nada
      /\ req' = [s \in Sessoes |-> Parada] /\ UNCHANGED <<usuarios, ativos, cracha>>
  BY DEF Implantar
<1>2. TipoLinhas' /\ CrachasDeUsuario'
  BY <1>1, ContratoBom DEF TipoLinhas, CrachasDeUsuario, Invariante
<1>3. Pedidos'
  <2>1. Parada \in Requisicoes
    BY ParadaBem DEF Bem
  <2>2. req' \in [Sessoes -> Requisicoes]
    BY <1>1, <2>1
  <2>3. \A s \in Sessoes : Bem(req'[s], app', usuarios', ativos')
    BY <1>1, ParadaBem
  <2>4. QED
    BY <2>2, <2>3 DEF Pedidos
<1>4. Instancia'
  BY <1>1, ContratoBom DEF Instancia, Parada
<1>5. QED
  BY <1>2, <1>3, <1>4 DEF Invariante

-----------------------------------------------------------------------------
(* The theorems.                                                           *)

LEMMA InvarianteInicial ==
  ASSUME Init
  PROVE  Invariante
<1>1. TipoLinhas /\ CrachasDeUsuario
  BY DEF Init, TipoLinhas, CrachasDeUsuario
<1>2. Parada \in Requisicoes
  BY ParadaBem DEF Bem
<1>3. req \in [Sessoes -> Requisicoes]
  BY <1>2 DEF Init
<1>4. Pedidos /\ Instancia
  BY <1>3, ParadaBem DEF Init, Pedidos, Instancia, Parada
<1>5. QED
  BY <1>1, <1>4 DEF Invariante

LEMMA RequisicaoPreserva ==
  ASSUME Invariante, NEW s \in Sessoes, Requisicao(s)
  PROVE  Invariante'
<1>1. CASE Executar(s) \/ Responder(s)
  <2>1. req[s].pc # "livre" /\ Atende(s) /\ UNCHANGED linhas
    BY <1>1 DEF Executar, Responder, Recusas
  <2>2. UNCHANGED <<app, usuarios, ativos>>
    BY <2>1 DEF linhas
  <2>3. QED
    BY <2>1, <2>2, AtendePreserva, LinhasIguais DEF Invariante
<1>2. CASE Chegar(s) \/ Validar(s) \/ ValidarCliente(s) \/ ValidarPortador(s)
  BY <1>2, ChegarPreserva, ValidarPreserva, ValidarClientePreserva, ValidarPortadorPreserva
<1>3. CASE RegistrarBuscar(s) \/ RegistrarCriar(s) \/ LoginBuscar(s) \/ GerarToken(s)
  BY <1>3, RegistrarBuscarPreserva, RegistrarCriarPreserva, LoginBuscarPreserva, GerarTokenPreserva
<1>4. QED
  BY <1>1, <1>2, <1>3 DEF Requisicao

LEMMA InvariantePreservado ==
  ASSUME Invariante, [Next]_vars
  PROVE  Invariante'
<1>1. CASE UNCHANGED vars
  BY <1>1 DEF vars, Invariante, TipoLinhas, Pedidos, Instancia, CrachasDeUsuario
<1>2. CASE \E s \in Sessoes : Requisicao(s)
  BY <1>2, RequisicaoPreserva
<1>3. CASE \E e \in Contas : SemearUsuario(e) \/ RegistrarNoutra(e)
  BY <1>3, MudancaDeLinhas
<1>4. CASE \E k \in Clientes : MudarCliente(k) \/ EmitirCliente(k)
  BY <1>4, MudancaDeLinhas, EmitirClientePreserva
<1>5. CASE Passar
  BY <1>5, PassarPreserva
<1>6. CASE \E c \in Configs : Implantar(c)
  BY <1>6, ImplantarPreserva
<1>7. QED
  BY <1>1, <1>2, <1>3, <1>4, <1>5, <1>6 DEF Next

\* In every reachable state what the bearer of a request is now it has been
\* since the request came in, and what the guards decided rests on it.
LEMMA InvarianteSempre == Spec => []Invariante
<1>1. Init => Invariante
  BY InvarianteInicial
<1>2. Invariante /\ [Next]_vars => Invariante'
  BY InvariantePreservado
<1>3. QED
  BY <1>1, <1>2, PTL DEF Spec

\* The contract of a running instance, the rows, the tokens and the requests
\* keep their shape, whatever environments the application is started with: no
\* token of a life of zero, and no guard that runs without a token to verify.
THEOREM TipoCorreto == Spec => []TypeOK
<1>1. Invariante => TypeOK
  BY DEF Invariante, Pedidos, Bem, TypeOK
<1>2. QED
  BY <1>1, InvarianteSempre, PTL

\* JwtStrategy reads the row of the bearer again on every request: however the
\* accounts and customers change in between, and whatever its token says, a
\* handler that demands a role runs only for a bearer that existed and had such
\* a role at some moment since the request came in.
THEOREM PapelSempreVigente == Spec => []PapelVigente
<1>1. Invariante => PapelVigente
  BY DEF Invariante, Pedidos, Bem, Admitida, PapelVigente
<1>2. QED
  BY <1>1, InvarianteSempre, PTL

\* JwtAuthGuard and RolesGuard refuse a request with a token only when the
\* token does not hold, its bearer was missing or inactive, or it had a role
\* the route does not take, at some moment while the request ran.
THEOREM RecusaSempreExplicada == Spec => []RecusaExplicada
<1>1. Invariante => RecusaExplicada
  BY DEF Invariante, Pedidos, Bem, Explicada, RecusaExplicada, Verifica, Vale
<1>2. QED
  BY <1>1, InvarianteSempre, PTL

\* What createJwtModuleOptions demands at start-up is enough for generateToken:
\* a registration that wrote its account is never refused afterwards, and fails
\* to sign outside production only.
THEOREM RegistroSempreCompleto == Spec => []RegistroCompleto
<1>1. Invariante => RegistroCompleto
  BY DEF Invariante, Pedidos, Bem, Coerente, Completa, RegistroCompleto
<1>2. QED
  BY <1>1, InvarianteSempre, PTL

\* The check and the write of a registration are two calls, and another may
\* come between them; still only the seed changes the role of an account.
THEOREM PapelSempreFirme == Spec => PapelFirme
<1> DEFINE Firme == \A e \in Contas :
             usuarios[e] # Nada /\ usuarios'[e] # usuarios[e] =>
               e \in DOMAIN Semeados /\ usuarios'[e] = Semeados[e]
<1>1. ASSUME Invariante, [Next]_vars
      PROVE  Firme \/ UNCHANGED vars
  <2>1. usuarios \in [Contas -> Papeis \cup {Nada}]
    BY <1>1 DEF Invariante, TipoLinhas
  <2>2. CASE UNCHANGED usuarios
    BY <2>2
  <2>3. ASSUME NEW s \in Sessoes, RegistrarCriar(s)
        PROVE  Firme
    <3>1. \/ UNCHANGED usuarios
          \/ /\ usuarios[req[s].conta] = Nada
             /\ usuarios' = [usuarios EXCEPT ![req[s].conta] = req[s].papel]
      BY <2>3 DEF RegistrarCriar
    <3>2. QED
      BY <2>1, <3>1
  <2>4. ASSUME NEW e \in Contas, SemearUsuario(e)
        PROVE  Firme
    BY <2>1, <2>4 DEF SemearUsuario
  <2>5. ASSUME NEW e \in Contas, RegistrarNoutra(e)
        PROVE  Firme
    BY <2>1, <2>5 DEF RegistrarNoutra
  <2>6. ASSUME NEW s \in Sessoes, Requisicao(s)
        PROVE  Firme \/ UNCHANGED usuarios
    BY <2>3, <2>6
       DEF Requisicao, Chegar, Validar, ValidarCliente, ValidarPortador, Executar,
           RegistrarBuscar, LoginBuscar, GerarToken, Responder, linhas
  <2>7. ASSUME Passar \/ (\E k \in Clientes : EmitirCliente(k) \/ MudarCliente(k))
                 \/ (\E c \in Configs : Implantar(c))
        PROVE  UNCHANGED usuarios
    BY <2>7 DEF Passar, EmitirCliente, MudarCliente, Implantar
  <2>8. QED
    BY <1>1, <2>2, <2>4, <2>5, <2>6, <2>7 DEF Next
<1>2. Invariante /\ [Next]_vars => [Firme]_vars
  BY <1>1
<1>3. QED
  BY <1>2, InvarianteSempre, PTL DEF Spec, PapelFirme

=============================================================================
