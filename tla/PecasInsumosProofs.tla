------------------------- MODULE PecasInsumosProofs -------------------------
(***************************************************************************)
(* Proofs about PecasInsumos, for every set of parts, of orders, of        *)
(* supplier orders, of concurrent requests and of item lists, with         *)
(* requests overlapping freely and cut short anywhere or not.              *)
(*                                                                         *)
(* A step writes rows and moves a session. Every step keeps Evolui: what   *)
(* was debited for an order or credited to a supplier order only grows,    *)
(* and a supplier order keeps its items. Carrega says what a session that  *)
(* is about to make a call holds: the items behind it in its list are      *)
(* debited or credited, and the quantity it read covers the one in hand.   *)
(***************************************************************************)
EXTENDS PecasInsumos, TLAPS

-----------------------------------------------------------------------------
(* The inductive invariant.                                                *)

\* Calls made for an order, for a supplier order, with an item in hand.
ComOrdem == {"listar_gravar", "orcar_ler", "orcar_gravar", "enviar", "aprovar_gravar",
             "sem_pecas", "verificar", "debitar_ler", "debitar_gravar", "indisponiveis",
             "validar_ler", "liberar_existe", "liberar_ler", "liberar_gravar",
             "liberar_reserva", "reservadas"}
Recebendo == {"receber_ler", "receber_gravar", "receber_salvar"}
ComItem   == {"debitar_gravar", "receber_gravar", "liberar_gravar", "liberar_reserva"}
Debitando == {"debitar_ler", "debitar_gravar", "liberar_ler", "liberar_gravar",
              "liberar_reserva", "reservadas"}

\* The items of the list that a session about to make the call r is done with.
Feitos(r, d) ==
  d.lista \ (IF r = "liberar_reserva" THEN d.fila \ {d.item} ELSE d.fila)

\* What a session about to make the call r holds in d, where ps are the supplier
\* orders, db the units debited and cr the credits.
Carrega(r, d, ps, db, cr) ==
  /\ d.fila \subseteq d.lista
  /\ r \in ComOrdem => d.ordem \in Ordens /\ d.lista \in Listas
  /\ r \in Recebendo =>
       /\ d.pedido \in Pedidos /\ ps[d.pedido].st # "ausente"
       /\ d.lista = ps[d.pedido].itens
       /\ \A i \in Feitos(r, d) : cr[d.pedido][i[1]] >= 1
  /\ r \in ComItem => d.item \in d.fila /\ d.item[2] > 0
  /\ r \in {"debitar_gravar", "liberar_gravar"} => d.lido >= d.item[2]
  /\ r \in Debitando => \A i \in Feitos(r, d) : db[d.ordem][i[1]] >= i[2]
  /\ r \in {"reservadas", "receber_salvar"} => d.fila = {}

SessoesCarregam ==
  \A s \in Sessoes : Carrega(pc[s], dados[s], pedidos, debitos, creditos)

Invariante ==
  TypeOK /\ SessoesCarregam /\ ReservaLastreada /\ RecebidoCompleto

-----------------------------------------------------------------------------
(* What steps do to the rows and to the history.                           *)

Evolui ==
  /\ \A o \in Ordens, p \in Pecas : debitos'[o][p] >= debitos[o][p]
  /\ \A d \in Pedidos, p \in Pecas : creditos'[d][p] >= creditos[d][p]
  /\ \A d \in Pedidos : pedidos[d].st # "ausente" =>
       pedidos'[d].st # "ausente" /\ pedidos'[d].itens = pedidos[d].itens

\* What a list holds.
LEMMA ItensDeLista ==
  /\ \A l \in Listas : \A i \in l : i[1] \in Pecas /\ i[2] \in Nat /\ i[2] > 0 /\ i \in Item
  /\ \A l \in Encomendas : \A i \in l : i[1] \in Pecas /\ i[2] \in Int /\ i \in Item
  /\ \A i \in Item : i[1] \in Pecas /\ i[2] \in Int
BY Parametros DEF Item

\* The history and the supplier orders stand still, or a debit, a credit or a
\* new supplier order moves them on.
LEMMA EvoluiParado ==
  ASSUME TipoBanco, TipoHistoria, UNCHANGED <<debitos, creditos>>,
         \A d \in Pedidos : pedidos[d].st # "ausente" =>
           pedidos'[d].st # "ausente" /\ pedidos'[d].itens = pedidos[d].itens
  PROVE  Evolui
BY DEF Evolui, TipoHistoria

LEMMA EvoluiDebito ==
  ASSUME TipoBanco, TipoHistoria, NEW o \in Ordens, NEW p \in Pecas, NEW q \in Nat,
         debitos' = [debitos EXCEPT ![o][p] = @ + q], UNCHANGED <<creditos, pedidos>>
  PROVE  /\ Evolui /\ debitos' \in [Ordens -> [Pecas -> Nat]]
         /\ debitos'[o][p] >= q
<1>1. debitos' \in [Ordens -> [Pecas -> Nat]] /\ debitos'[o][p] = debitos[o][p] + q
  BY DEF TipoHistoria
<1>2. \A x \in Ordens, y \in Pecas : debitos'[x][y] >= debitos[x][y]
  <2> SUFFICES ASSUME NEW x \in Ordens, NEW y \in Pecas
               PROVE  debitos'[x][y] >= debitos[x][y]
    OBVIOUS
  <2>1. debitos'[x][y] = IF x = o /\ y = p THEN debitos[x][y] + q ELSE debitos[x][y]
    BY DEF TipoHistoria
  <2>2. debitos[x][y] \in Nat
    BY DEF TipoHistoria
  <2>3. QED
    BY <2>1, <2>2
<1>3. debitos[o][p] \in Nat
  BY DEF TipoHistoria
<1>4. \A d \in Pedidos, y \in Pecas : creditos'[d][y] >= creditos[d][y]
  BY DEF TipoHistoria
<1>5. QED
  BY <1>1, <1>2, <1>3, <1>4 DEF Evolui

LEMMA EvoluiCredito ==
  ASSUME TipoBanco, TipoHistoria, NEW d \in Pedidos, NEW p \in Pecas,
         creditos' = [creditos EXCEPT ![d][p] = @ + 1], UNCHANGED <<debitos, pedidos>>
  PROVE  /\ Evolui /\ creditos' \in [Pedidos -> [Pecas -> Nat]]
         /\ creditos'[d][p] >= 1
<1>1. creditos' \in [Pedidos -> [Pecas -> Nat]] /\ creditos'[d][p] = creditos[d][p] + 1
  BY DEF TipoHistoria
<1>2. \A x \in Pedidos, y \in Pecas : creditos'[x][y] >= creditos[x][y]
  <2> SUFFICES ASSUME NEW x \in Pedidos, NEW y \in Pecas
               PROVE  creditos'[x][y] >= creditos[x][y]
    OBVIOUS
  <2>1. creditos'[x][y] = IF x = d /\ y = p THEN creditos[x][y] + 1 ELSE creditos[x][y]
    BY DEF TipoHistoria
  <2>2. creditos[x][y] \in Nat
    BY DEF TipoHistoria
  <2>3. QED
    BY <2>1, <2>2
<1>3. creditos[d][p] \in Nat
  BY DEF TipoHistoria
<1>4. \A o \in Ordens, y \in Pecas : debitos'[o][y] >= debitos[o][y]
  BY DEF TipoHistoria
<1>5. QED
  BY <1>1, <1>2, <1>3, <1>4 DEF Evolui

\* What a session holds stays true as the others write.
LEMMA CarregaDepois ==
  ASSUME TipoBanco, TipoHistoria, Evolui, NEW r, NEW d \in Dados,
         Carrega(r, d, pedidos, debitos, creditos),
         debitos' \in [Ordens -> [Pecas -> Nat]], creditos' \in [Pedidos -> [Pecas -> Nat]]
  PROVE  Carrega(r, d, pedidos', debitos', creditos')
<1>1. \A i \in d.lista : i[1] \in Pecas /\ i[2] \in Int
  BY ItensDeLista DEF Dados
<1>2. ASSUME r \in Debitando, NEW i \in Feitos(r, d)
      PROVE  debitos'[d.ordem][i[1]] >= i[2]
  <2>1. d.ordem \in Ordens /\ i \in d.lista /\ debitos[d.ordem][i[1]] >= i[2]
    BY <1>2 DEF Carrega, Feitos, Debitando, ComOrdem
  <2>2. /\ debitos[d.ordem][i[1]] \in Nat /\ debitos'[d.ordem][i[1]] \in Nat
        /\ debitos'[d.ordem][i[1]] >= debitos[d.ordem][i[1]]
    BY <1>1, <2>1 DEF Evolui, TipoHistoria
  <2>3. QED
    BY <1>1, <2>1, <2>2
<1>3. ASSUME r \in Recebendo, NEW i \in Feitos(r, d)
      PROVE  creditos'[d.pedido][i[1]] >= 1
  <2>1. d.pedido \in Pedidos /\ i \in d.lista /\ creditos[d.pedido][i[1]] >= 1
    BY <1>3 DEF Carrega, Feitos
  <2>2. /\ creditos[d.pedido][i[1]] \in Nat /\ creditos'[d.pedido][i[1]] \in Nat
        /\ creditos'[d.pedido][i[1]] >= creditos[d.pedido][i[1]]
    BY <1>1, <2>1 DEF Evolui, TipoHistoria
  <2>3. QED
    BY <2>1, <2>2
<1>4. r \in Recebendo => pedidos'[d.pedido].st # "ausente"
                         /\ pedidos'[d.pedido].itens = pedidos[d.pedido].itens
  BY DEF Carrega, Evolui
<1>5. QED
  BY <1>2, <1>3, <1>4 DEF Carrega

-----------------------------------------------------------------------------
(* How sessions move.                                                      *)

\* A session goes to a call with what it takes in hand, once the rows are written.
Movimento ==
  \E s \in Sessoes, r \in Rotulos, d \in Dados :
    /\ pc' = [pc EXCEPT ![s] = r] /\ dados' = [dados EXCEPT ![s] = d]
    /\ Carrega(r, d, pedidos', debitos', creditos')

\* What an idle session holds.
LEMMA VazioTipo ==
  /\ Vazio \in Dados
  /\ \A r \in {"livre", "backlog"} : Carrega(r, Vazio, pedidos', debitos', creditos')
BY DEF Vazio, Dados, Item, Carrega, ComOrdem, Recebendo, ComItem, Debitando

LEMMA TerminaMove ==
  ASSUME NEW s \in Sessoes, Termina(s)
  PROVE  Movimento
BY VazioTipo DEF Termina, Movimento, Rotulos

LEMMA SegueMove ==
  ASSUME TipoSessao, NEW s \in Sessoes, NEW r \in Rotulos, Segue(s, r),
         Carrega(r, dados[s], pedidos', debitos', creditos')
  PROVE  Movimento
<1>1. dados[s] \in Dados /\ dados' = [dados EXCEPT ![s] = dados[s]]
  BY DEF TipoSessao, Segue
<1>2. QED
  BY <1>1 DEF Segue, Movimento

\* A request that begins.
LEMMA ComecaMove ==
  ASSUME NEW s \in Sessoes, NEW r \in Rotulos, NEW d \in Dados, Comeca(s, r, d),
         Carrega(r, d, pedidos', debitos', creditos')
  PROVE  Movimento
BY DEF Comeca, Movimento

\* The loop over the orders that wait.
LEMMA ProximaOrdemMove ==
  ASSUME NEW s \in Sessoes, NEW B \in SUBSET (Ordens \X Listas), ProximaOrdem(s, B)
  PROVE  Movimento
<1>1. CASE Termina(s)
  BY <1>1, TerminaMove
<1>2. ASSUME NEW b \in B,
             pc' = [pc EXCEPT ![s] = IF b[2] = {} THEN "liberar_existe" ELSE "validar_ler"],
             dados' = [dados EXCEPT ![s] = [Vazio EXCEPT !.ordem = b[1], !.lista = b[2],
                                            !.fila = b[2], !.backlog = B \ {b}]]
      PROVE  Movimento
  <2> DEFINE r == IF b[2] = {} THEN "liberar_existe" ELSE "validar_ler"
             d == [Vazio EXCEPT !.ordem = b[1], !.lista = b[2], !.fila = b[2],
                                !.backlog = B \ {b}]
  <2>1. b[1] \in Ordens /\ b[2] \in Listas /\ b[2] \in SUBSET Item
    BY Parametros DEF Item
  <2>2. d \in Dados /\ d.ordem = b[1] /\ d.lista = b[2] /\ d.fila = b[2]
    BY <2>1 DEF Vazio, Dados
  <2>3. Carrega(r, d, pedidos', debitos', creditos') /\ r \in Rotulos
    BY <2>1, <2>2 DEF Carrega, Recebendo, ComItem, Debitando, Rotulos
  <2>4. QED
    BY <1>2, <2>2, <2>3 DEF Movimento
<1>3. QED
  BY <1>1, <1>2 DEF ProximaOrdem

\* The loop over the items of an order begins.
LEMMA PercorreMove ==
  ASSUME TipoSessao, NEW s \in Sessoes, NEW l \in Listas,
         NEW r \in {"debitar_ler", "liberar_ler"}, Percorre(s, l, r, "reservadas"),
         dados[s].ordem \in Ordens
  PROVE  Movimento
<1> DEFINE d == [dados[s] EXCEPT !.lista = l, !.fila = l, !.item = Nada]
           q == IF l = {} THEN "reservadas" ELSE r
<1>1. dados[s] \in Dados /\ l \in SUBSET Item
  BY Parametros DEF TipoSessao, Item
<1>2. /\ d \in Dados /\ d.ordem = dados[s].ordem /\ d.lista = l /\ d.fila = l
      /\ dados' = [dados EXCEPT ![s] = d]
  BY <1>1 DEF Percorre, Dados, TipoSessao
<1>3. Carrega(q, d, pedidos', debitos', creditos') /\ q \in Rotulos
  BY <1>2 DEF Carrega, Feitos, Recebendo, ComItem, ComOrdem, Rotulos
<1>4. pc' = [pc EXCEPT ![s] = q]
  BY DEF Percorre
<1>5. QED
  BY <1>2, <1>3, <1>4 DEF Movimento

\* The part of an item is read: the quantity in memory covers what is debited.
LEMMA LePecaMove ==
  ASSUME TipoBanco, TipoSessao, NEW s \in Sessoes, NEW i \in dados[s].fila,
         UNCHANGED <<pedidos, debitos, creditos>>,
         NEW q \in {"debitar_ler", "liberar_ler", "receber_ler"},
         Carrega(q, dados[s], pedidos, debitos, creditos),
         NEW r \in {"debitar_gravar", "liberar_gravar", "receber_gravar"},
         (q = "receber_ler") <=> (r = "receber_gravar"),
         LePeca(s, i, r), i[2] > 0, r # "receber_gravar" => estoque[i[1]] >= i[2]
  PROVE  Movimento
<1> DEFINE d == [dados[s] EXCEPT !.item = i, !.lido = estoque[i[1]]]
<1>1. dados[s] \in Dados /\ i \in Item /\ estoque[i[1]] \in Nat
  BY ItensDeLista DEF TipoSessao, Dados, TipoBanco
<1>2. /\ d \in Dados /\ d.ordem = dados[s].ordem /\ d.lista = dados[s].lista
      /\ d.pedido = dados[s].pedido /\ d.fila = dados[s].fila
      /\ d.item = i /\ d.lido = estoque[i[1]] /\ dados' = [dados EXCEPT ![s] = d]
  BY <1>1 DEF LePeca, Dados, TipoSessao
<1>3. Feitos(r, d) = Feitos(q, dados[s])
  BY <1>2 DEF Feitos
<1>4. Carrega(r, d, pedidos', debitos', creditos') /\ r \in Rotulos
  BY <1>2, <1>3 DEF Carrega, Debitando, Recebendo, ComItem, ComOrdem, Rotulos
<1>5. pc' = [pc EXCEPT ![s] = r]
  BY DEF LePeca
<1>6. QED
  BY <1>2, <1>4, <1>5 DEF Movimento

\* The item in hand is done with: debited for the order, or credited.
LEMMA ProximoItemMove ==
  ASSUME TipoSessao, NEW s \in Sessoes, NEW q \in ComItem, q # "liberar_gravar",
         Carrega(q, dados[s], pedidos', debitos', creditos'),
         NEW r \in {"debitar_ler", "liberar_ler", "receber_ler"},
         NEW fim \in {"reservadas", "receber_salvar"},
         q = "receber_gravar" <=> r = "receber_ler",
         q = "receber_gravar" <=> fim = "receber_salvar",
         q = "debitar_gravar" =>
           debitos'[dados[s].ordem][dados[s].item[1]] >= dados[s].item[2],
         q = "receber_gravar" => creditos'[dados[s].pedido][dados[s].item[1]] >= 1,
         ProximoItem(s, r, fim)
  PROVE  Movimento
<1> DEFINE resto == dados[s].fila \ {dados[s].item}
           d == [dados[s] EXCEPT !.fila = resto, !.item = Nada, !.lido = 0]
           p == IF resto = {} THEN fim ELSE r
<1>1. dados[s] \in Dados
  BY DEF TipoSessao
<1>2. /\ d \in Dados /\ d.ordem = dados[s].ordem /\ d.lista = dados[s].lista
      /\ d.pedido = dados[s].pedido /\ d.fila = resto /\ dados' = [dados EXCEPT ![s] = d]
  BY <1>1 DEF ProximoItem, Dados, TipoSessao
<1>3. Feitos(p, d) = dados[s].lista \ resto
  BY <1>2 DEF Feitos
<1>4. \A i \in Feitos(p, d) : i \in Feitos(q, dados[s]) \/ (i = dados[s].item /\ q # "liberar_reserva")
  BY <1>3 DEF Feitos
<1>5. p \in Debitando => \A i \in Feitos(p, d) : debitos'[d.ordem][i[1]] >= i[2]
  BY <1>2, <1>4 DEF Carrega, Debitando, ComItem
<1>6. p \in Recebendo => \A i \in Feitos(p, d) : creditos'[d.pedido][i[1]] >= 1
  BY <1>2, <1>4 DEF Carrega, Recebendo, ComItem
<1>7. Carrega(p, d, pedidos', debitos', creditos') /\ p \in Rotulos
  BY <1>2, <1>5, <1>6 DEF Carrega, ComItem, ComOrdem, Recebendo, Rotulos
<1>8. pc' = [pc EXCEPT ![s] = p]
  BY DEF ProximoItem
<1>9. QED
  BY <1>2, <1>7, <1>8 DEF Movimento

-----------------------------------------------------------------------------
(* Steps.                                                                  *)

\* What every step does, whatever else it does.
PassoCerto ==
  TipoBanco' /\ TipoHistoria' /\ Evolui /\ (UNCHANGED <<pc, dados>> \/ Movimento)

\* A call that only reads.
LEMMA LeituraCerta ==
  ASSUME TipoBanco, TipoHistoria, SoLeitura
  PROVE  TipoBanco' /\ TipoHistoria' /\ Evolui /\ UNCHANGED <<pedidos, debitos, creditos>>
BY EvoluiParado DEF SoLeitura, ordem, catalogo, historia, TipoBanco, TipoHistoria

\* What a session has in hand, by the call it is about to make.
LEMMA SessaoCarrega ==
  ASSUME TypeOK, SessoesCarregam, NEW s \in Sessoes
  PROVE  /\ dados[s] \in Dados /\ Carrega(pc[s], dados[s], pedidos, debitos, creditos)
         /\ dados[s].fila \subseteq dados[s].lista
         /\ pc[s] \in ComOrdem => dados[s].ordem \in Ordens /\ dados[s].lista \in Listas
         /\ pc[s] \in ComItem => /\ dados[s].item \in dados[s].fila /\ dados[s].item[2] > 0
                                 /\ dados[s].item[1] \in Pecas /\ dados[s].item[2] \in Nat
         /\ dados[s].backlog \in SUBSET (Ordens \X Listas)
         /\ dados[s].lido \in Nat
<1>1. dados[s] \in Dados /\ Carrega(pc[s], dados[s], pedidos, debitos, creditos)
  BY DEF TypeOK, TipoSessao, SessoesCarregam
<1>2. pc[s] \in ComItem => dados[s].item \in Item
  BY <1>1 DEF Carrega, Dados
<1>3. QED
  BY <1>1, <1>2 DEF Carrega, Dados, Item

\* The status, the items and the budget of an order are written.
LEMMA OrdemEscrita ==
  ASSUME TipoBanco, TipoHistoria, UNCHANGED <<catalogo, estoque, reservas, saldo, creditos, debitos,
                                              ajustadas>>,
         situacao' \in [Ordens -> Situacao], itens' \in [Ordens -> Listas],
         orcado' \in [Ordens -> Listas], aprovadas' \subseteq Ordens, porWebhook' \subseteq Ordens
  PROVE  TipoBanco' /\ TipoHistoria' /\ Evolui
BY EvoluiParado DEF catalogo, TipoBanco, TipoHistoria

\* A quantity in stock is written.
LEMMA EstoqueEscrito ==
  ASSUME TypeOK, NEW s \in Sessoes, dados[s].item[1] \in Pecas, NEW delta \in Int,
         dados[s].lido + delta \in Nat, Escreve(s, delta)
  PROVE  estoque' \in [Pecas -> Nat] /\ saldo' \in [Pecas -> Int]
BY DEF TypeOK, TipoBanco, TipoHistoria, Escreve

\* Parts are registered, adjusted and removed; orders move, are removed and get
\* suppliers' orders: requests of a single write.
LEMMA DeUmaVezCerta ==
  ASSUME TypeOK, NEW s \in Sessoes,
         \/ \E p \in Pecas, q \in Ajustes :
              CreatePecaInsumo(s, p, q) \/ UpdateEstoquePecaInsumo(s, p, q)
         \/ \E p \in Pecas : DeletePecaInsumo(s, p)
         \/ \E o \in Ordens, st \in Situacao : MoverOrdem(s, o, st)
         \/ \E o \in Ordens : DeletarOrdem(s, o)
         \/ \E d \in Pedidos, l \in Encomendas : SolicitarPecasAoFornecedor(s, d, l)
  PROVE  PassoCerto
<1> USE DEF TypeOK
<1>1. ASSUME NEW p \in Pecas, NEW q \in Ajustes,
             CreatePecaInsumo(s, p, q) \/ UpdateEstoquePecaInsumo(s, p, q)
      PROVE  PassoCerto
  <2>1. q \in Nat /\ UNCHANGED <<pc, dados, pedidos, debitos, creditos>>
    BY <1>1, Parametros DEF CreatePecaInsumo, UpdateEstoquePecaInsumo, DeUmaVez, catalogo,
       historia
  <2>2. TipoBanco' /\ TipoHistoria'
    <3>1. /\ cadastro' \in [Pecas -> {"ausente", "cadastrada", "removida"}]
          /\ estoque' \in [Pecas -> Nat] /\ saldo' \in [Pecas -> Int] /\ ajustadas' \subseteq Pecas
      <4>1. CASE CreatePecaInsumo(s, p, q)
        BY <2>1, <4>1 DEF CreatePecaInsumo, historia, TipoBanco, TipoHistoria
      <4>2. CASE UpdateEstoquePecaInsumo(s, p, q)
        BY <2>1, <4>2 DEF UpdateEstoquePecaInsumo, catalogo, TipoBanco, TipoHistoria
      <4>3. QED
        BY <1>1, <4>1, <4>2
    <3>2. UNCHANGED <<ordem, reservas, porWebhook>>
      BY <1>1 DEF CreatePecaInsumo, UpdateEstoquePecaInsumo, historia
    <3>3. QED
      BY <2>1, <3>1, <3>2 DEF ordem, TipoBanco, TipoHistoria
  <2>3. QED
    BY <2>1, <2>2, EvoluiParado DEF PassoCerto
<1>2. ASSUME NEW p \in Pecas, DeletePecaInsumo(s, p)
      PROVE  PassoCerto
  <2>1. UNCHANGED <<pc, dados, pedidos, debitos, creditos>>
    BY <1>2 DEF DeletePecaInsumo, DeUmaVez, historia
  <2>2. TipoBanco' /\ TipoHistoria'
    BY <1>2, <2>1 DEF DeletePecaInsumo, ordem, historia, TipoBanco, TipoHistoria
  <2>3. QED
    BY <2>1, <2>2, EvoluiParado DEF PassoCerto
<1>3. ASSUME NEW o \in Ordens, NEW st \in Situacao, MoverOrdem(s, o, st)
      PROVE  PassoCerto
  <2>1. TipoBanco' /\ TipoHistoria' /\ Evolui
    BY <1>3, OrdemEscrita DEF MoverOrdem, TipoBanco, TipoHistoria
  <2>2. QED
    BY <1>3, <2>1 DEF MoverOrdem, DeUmaVez, PassoCerto
<1>4. ASSUME NEW o \in Ordens, DeletarOrdem(s, o)
      PROVE  PassoCerto
  <2>1. {} \in Listas /\ "removida" \in Situacao
    BY Parametros DEF Situacao
  <2>2. TipoBanco' /\ TipoHistoria' /\ Evolui
    BY <1>4, <2>1, OrdemEscrita DEF DeletarOrdem, TipoBanco, TipoHistoria, historia
  <2>3. QED
    BY <1>4, <2>2 DEF DeletarOrdem, DeUmaVez, PassoCerto
<1>5. ASSUME NEW d \in Pedidos, NEW l \in Encomendas, SolicitarPecasAoFornecedor(s, d, l)
      PROVE  PassoCerto
  <2>1. UNCHANGED <<pc, dados, debitos, creditos>>
    BY <1>5 DEF SolicitarPecasAoFornecedor, DeUmaVez, historia
  <2>2. TipoBanco' /\ TipoHistoria'
    <3>1. pedidos' \in [Pedidos -> Pedido]
      BY <1>5 DEF SolicitarPecasAoFornecedor, TipoBanco, Pedido
    <3>2. QED
      BY <1>5, <3>1 DEF SolicitarPecasAoFornecedor, ordem, historia, TipoBanco, TipoHistoria
  <2>3. \A x \in Pedidos : pedidos[x].st # "ausente" =>
          pedidos'[x].st # "ausente" /\ pedidos'[x].itens = pedidos[x].itens
    BY <1>5 DEF SolicitarPecasAoFornecedor, TipoBanco
  <2>4. QED
    BY <2>1, <2>2, <2>3, EvoluiParado DEF PassoCerto
<1>6. QED
  BY <1>1, <1>2, <1>3, <1>4, <1>5

\* The calls of a request up to the decision on its parts.
LEMMA OrcamentoCerto ==
  ASSUME TypeOK, SessoesCarregam, NEW s \in Sessoes,
         \/ \E o \in Ordens, l \in Listas : ListarServicosInsumos(s, o, l)
         \/ \E o \in Ordens : AprovarOrcamento(s, o)
         \/ ListarGravar(s) \/ OrcarLer(s) \/ OrcarGravar(s) \/ EnviarOrcamento(s)
         \/ AprovarGravar(s) \/ OsSemPecas(s) \/ PecasIndisponiveis(s)
  PROVE  PassoCerto
<1> USE SessaoCarrega DEF TypeOK
<1>1. ASSUME NEW o \in Ordens, NEW l \in Listas, ListarServicosInsumos(s, o, l)
      PROVE  PassoCerto
  <2> DEFINE r == IF l = {} THEN "orcar_ler" ELSE "listar_gravar"
             d == [Vazio EXCEPT !.ordem = o, !.lista = l]
  <2>1. d \in Dados /\ d.ordem = o /\ d.lista = l /\ d.fila = {}
    <3>1. l \in SUBSET Item
      BY ItensDeLista
    <3>2. QED
      BY <3>1, VazioTipo DEF Vazio, Dados
  <2>2. Carrega(r, d, pedidos', debitos', creditos') /\ r \in Rotulos
    BY <2>1 DEF Carrega, Recebendo, ComItem, Debitando, Rotulos
  <2>3. Comeca(s, r, d)
    BY <1>1 DEF ListarServicosInsumos
  <2>4. QED
    BY <1>1, <2>1, <2>2, <2>3, ComecaMove, LeituraCerta DEF ListarServicosInsumos, PassoCerto
<1>2. ASSUME NEW o \in Ordens, AprovarOrcamento(s, o)
      PROVE  PassoCerto
  <2> DEFINE d == [Vazio EXCEPT !.ordem = o]
  <2>1. d \in Dados /\ d.ordem = o /\ d.lista = {} /\ d.fila = {} /\ {} \in Listas
    BY Parametros DEF Vazio, Dados, Item
  <2>2. Carrega("aprovar_gravar", d, pedidos', debitos', creditos')
    BY <2>1 DEF Carrega, Recebendo, ComItem, Debitando
  <2>3. Comeca(s, "aprovar_gravar", d) /\ "aprovar_gravar" \in Rotulos
    BY <1>2 DEF AprovarOrcamento, Rotulos
  <2>4. QED
    BY <1>2, <2>1, <2>2, <2>3, ComecaMove, LeituraCerta DEF AprovarOrcamento, PassoCerto
<1>3. ASSUME pc[s] \in ComOrdem,
             NEW r \in {"orcar_ler", "orcar_gravar", "enviar", "sem_pecas", "verificar"}, Segue(s, r)
      PROVE  Movimento
  <2>1. Carrega(r, dados[s], pedidos', debitos', creditos') /\ r \in Rotulos
    BY <1>3 DEF Carrega, Recebendo, ComItem, Debitando, Rotulos
  <2>2. QED
    BY <1>3, <2>1, SegueMove
<1>4. CASE ListarGravar(s)
  <2>1. pc[s] \in ComOrdem
    BY <1>4 DEF ListarGravar, ComOrdem
  <2>2. Movimento
    BY <1>3, <1>4, <2>1, TerminaMove DEF ListarGravar
  <2>3. TipoBanco' /\ TipoHistoria' /\ Evolui
    BY <1>4, <2>1, OrdemEscrita, LeituraCerta DEF ListarGravar, TipoBanco, TipoHistoria, historia
  <2>4. QED
    BY <2>2, <2>3 DEF PassoCerto
<1>5. CASE OrcarLer(s)
  <2>1. pc[s] \in ComOrdem
    BY <1>5 DEF OrcarLer, ComOrdem
  <2>2. Movimento
    BY <1>3, <1>5, <2>1, TerminaMove DEF OrcarLer
  <2>3. QED
    BY <1>5, <2>2, LeituraCerta DEF OrcarLer, PassoCerto
<1>6. CASE OrcarGravar(s)
  <2>1. pc[s] \in ComOrdem
    BY <1>6 DEF OrcarGravar, ComOrdem
  <2>2. Movimento
    BY <1>3, <1>6, <2>1, TerminaMove DEF OrcarGravar
  <2>3. TipoBanco' /\ TipoHistoria' /\ Evolui
    BY <1>6, <2>1, OrdemEscrita, LeituraCerta DEF OrcarGravar, TipoBanco, TipoHistoria, historia
  <2>4. QED
    BY <2>2, <2>3 DEF PassoCerto
<1>7. CASE AprovarGravar(s)
  <2>1. pc[s] \in ComOrdem
    BY <1>7 DEF AprovarGravar, ComOrdem
  <2>2. Movimento
    BY <1>3, <1>7, <2>1, TerminaMove DEF AprovarGravar
  <2>3. TipoBanco' /\ TipoHistoria' /\ Evolui
    BY <1>7, <2>1, OrdemEscrita, LeituraCerta DEF AprovarGravar, TipoBanco, TipoHistoria, historia
  <2>4. QED
    BY <2>2, <2>3 DEF PassoCerto
<1>8. CASE EnviarOrcamento(s) \/ OsSemPecas(s) \/ PecasIndisponiveis(s)
  <2>1. pc[s] \in ComOrdem
    BY <1>8 DEF EnviarOrcamento, OsSemPecas, PecasIndisponiveis, ComOrdem
  <2>2. Movimento
    BY <1>8, TerminaMove DEF EnviarOrcamento, OsSemPecas, PecasIndisponiveis
  <2>3. situacao' \in [Ordens -> Situacao]
    BY <1>8 DEF EnviarOrcamento, OsSemPecas, PecasIndisponiveis, TipoBanco, Situacao
  <2>4. TipoBanco' /\ TipoHistoria' /\ Evolui
    BY <1>8, <2>3, OrdemEscrita DEF EnviarOrcamento, OsSemPecas, PecasIndisponiveis, TipoBanco,
       TipoHistoria, historia
  <2>5. QED
    BY <2>2, <2>4 DEF PassoCerto
<1>9. QED
  BY <1>1, <1>2, <1>4, <1>5, <1>6, <1>7, <1>8

\* The session debits the item in hand.
LEMMA DebitaCerto ==
  ASSUME TypeOK, SessoesCarregam, NEW s \in Sessoes, pc[s] \in {"debitar_gravar", "liberar_gravar"},
         Debita(s), UNCHANGED <<ordem, catalogo, reservas>>
  PROVE  /\ TipoBanco' /\ TipoHistoria' /\ Evolui
         /\ debitos'[dados[s].ordem][dados[s].item[1]] >= dados[s].item[2]
         /\ Carrega(pc[s], dados[s], pedidos', debitos', creditos')
<1> DEFINE o == dados[s].ordem
           i == dados[s].item
<1>1. /\ o \in Ordens /\ i[1] \in Pecas /\ i[2] \in Nat /\ dados[s] \in Dados
      /\ dados[s].lido \in Nat /\ dados[s].lido >= i[2]
      /\ Carrega(pc[s], dados[s], pedidos, debitos, creditos)
  BY SessaoCarrega DEF ComOrdem, ComItem, Carrega
<1>2. /\ debitos' = [debitos EXCEPT ![o][i[1]] = @ + i[2]]
      /\ UNCHANGED <<creditos, porWebhook, ajustadas, pedidos>>
  BY DEF Debita, catalogo
<1>3. /\ Evolui /\ debitos' \in [Ordens -> [Pecas -> Nat]]
      /\ debitos'[o][i[1]] >= i[2]
  BY <1>1, <1>2, EvoluiDebito DEF TypeOK
<1>4. - i[2] \in Int /\ dados[s].lido + (- i[2]) \in Nat
  BY <1>1
<1>5. estoque' \in [Pecas -> Nat] /\ saldo' \in [Pecas -> Int]
  BY <1>1, <1>4, EstoqueEscrito DEF Debita
<1>6. TipoBanco' /\ TipoHistoria'
  BY <1>2, <1>3, <1>5 DEF TypeOK, TipoBanco, TipoHistoria, ordem, catalogo
<1>7. Carrega(pc[s], dados[s], pedidos', debitos', creditos')
  BY <1>1, <1>2, <1>3, CarregaDepois DEF TypeOK, TipoHistoria
<1>8. QED
  BY <1>3, <1>6, <1>7

\* VerificarDisponibilidadeEstoqueHandler and DebitarEstoqueHandler.
LEMMA DebitoCerto ==
  ASSUME TypeOK, SessoesCarregam, NEW s \in Sessoes,
         \/ Verificar(s) \/ DebitarLer(s) \/ DebitarGravar(s) \/ PecasReservadas(s)
  PROVE  PassoCerto
<1> USE SessaoCarrega DEF TypeOK
<1>1. CASE Verificar(s)
  <2>1. dados[s].ordem \in Ordens /\ itens[dados[s].ordem] \in Listas
    BY <1>1 DEF Verificar, ComOrdem, TipoBanco
  <2>2. CASE Segue(s, "indisponiveis")
    <3>1. Carrega("indisponiveis", dados[s], pedidos', debitos', creditos')
      BY <1>1 DEF Verificar, Carrega, ComOrdem, Recebendo, ComItem, Debitando
    <3>2. QED
      BY <1>1, <2>2, <3>1, SegueMove, LeituraCerta DEF Verificar, PassoCerto, Rotulos
  <2>3. CASE Percorre(s, itens[dados[s].ordem], "debitar_ler", "reservadas")
    BY <1>1, <2>1, <2>3, PercorreMove, LeituraCerta DEF Verificar, PassoCerto
  <2>4. QED
    BY <1>1, <2>2, <2>3 DEF Verificar
<1>2. CASE DebitarLer(s)
  <2>1. TipoBanco' /\ TipoHistoria' /\ Evolui /\ UNCHANGED <<pedidos, debitos, creditos>>
    BY <1>2, LeituraCerta DEF DebitarLer
  <2>2. ASSUME NEW i \in dados[s].fila, PodeDebitar(i), LePeca(s, i, "debitar_gravar")
        PROVE  Movimento
    <3>1. pc[s] = "debitar_ler" /\ i[2] > 0 /\ estoque[i[1]] >= i[2]
      BY <1>2, <2>2 DEF DebitarLer, PodeDebitar
    <3>2. QED
      BY <2>1, <2>2, <3>1, LePecaMove
  <2>3. Movimento
    BY <1>2, <2>2, TerminaMove DEF DebitarLer
  <2>4. QED
    BY <2>1, <2>3 DEF PassoCerto
<1>3. CASE DebitarGravar(s)
  <2>1. CASE Termina(s) /\ SoLeitura
    BY <2>1, TerminaMove, LeituraCerta DEF PassoCerto
  <2>2. CASE Debita(s) /\ ProximoItem(s, "debitar_ler", "reservadas")
             /\ UNCHANGED <<ordem, catalogo, reservas>>
    <3>1. pc[s] = "debitar_gravar"
      BY <1>3 DEF DebitarGravar
    <3>2. /\ TipoBanco' /\ TipoHistoria' /\ Evolui
          /\ debitos'[dados[s].ordem][dados[s].item[1]] >= dados[s].item[2]
          /\ Carrega("debitar_gravar", dados[s], pedidos', debitos', creditos')
      BY <2>2, <3>1, DebitaCerto
    <3>3. Movimento
      BY <2>2, <3>2, ProximoItemMove DEF ComItem
    <3>4. QED
      BY <3>2, <3>3 DEF PassoCerto
  <2>3. QED
    BY <1>3, <2>1, <2>2 DEF DebitarGravar
<1>4. CASE PecasReservadas(s)
  <2>1. Movimento
    BY <1>4, ProximaOrdemMove DEF PecasReservadas
  <2>2. situacao' \in [Ordens -> Situacao]
    BY <1>4 DEF PecasReservadas, TipoBanco, Situacao
  <2>3. TipoBanco' /\ TipoHistoria' /\ Evolui
    BY <1>4, <2>2, OrdemEscrita DEF PecasReservadas, TipoBanco, TipoHistoria, historia
  <2>4. QED
    BY <2>1, <2>3 DEF PassoCerto
<1>5. QED
  BY <1>1, <1>2, <1>3, <1>4

\* Supplier orders and their receipt.
LEMMA RecebimentoCerto ==
  ASSUME TypeOK, SessoesCarregam, NEW s \in Sessoes,
         \/ \E d \in Pedidos : ReceberPecasDoFornecedor(s, d)
         \/ ReceberLer(s) \/ ReceberGravar(s) \/ ReceberSalvar(s)
  PROVE  PassoCerto
<1> USE SessaoCarrega DEF TypeOK
<1>1. ASSUME NEW x \in Pedidos, ReceberPecasDoFornecedor(s, x)
      PROVE  PassoCerto
  <2> DEFINE d == [Vazio EXCEPT !.pedido = x, !.lista = pedidos[x].itens, !.fila = pedidos[x].itens]
  <2>1. pedidos[x].itens \in SUBSET Item /\ pedidos[x].st # "ausente"
    <3>1. pedidos[x].itens \in Encomendas \cup {{}}
      BY DEF TipoBanco, Pedido
    <3>2. pedidos[x].itens \in SUBSET Item
      BY <3>1, ItensDeLista
    <3>3. QED
      BY <1>1, <3>2 DEF ReceberPecasDoFornecedor
  <2>2. d \in Dados /\ d.pedido = x /\ d.lista = pedidos[x].itens /\ d.fila = pedidos[x].itens
    BY <2>1, VazioTipo DEF Vazio, Dados
  <2>3. TipoBanco' /\ TipoHistoria' /\ Evolui /\ UNCHANGED <<pedidos, debitos, creditos>>
    BY <1>1, LeituraCerta DEF ReceberPecasDoFornecedor
  <2>4. Carrega("receber_ler", d, pedidos', debitos', creditos')
    BY <2>1, <2>2, <2>3 DEF Carrega, Feitos, ComOrdem, ComItem, Debitando
  <2>5. Comeca(s, "receber_ler", d) /\ "receber_ler" \in Rotulos
    BY <1>1 DEF ReceberPecasDoFornecedor, Rotulos
  <2>6. QED
    BY <2>2, <2>3, <2>4, <2>5, ComecaMove DEF PassoCerto
<1>2. CASE ReceberLer(s)
  <2>1. TipoBanco' /\ TipoHistoria' /\ Evolui /\ UNCHANGED <<pedidos, debitos, creditos>>
    BY <1>2, LeituraCerta DEF ReceberLer
  <2>2. ASSUME NEW i \in dados[s].fila, i[2] > 0, LePeca(s, i, "receber_gravar")
        PROVE  Movimento
    <3>1. pc[s] = "receber_ler"
      BY <1>2 DEF ReceberLer
    <3>2. QED
      BY <2>1, <2>2, <3>1, LePecaMove
  <2>3. Movimento
    BY <1>2, <2>2, TerminaMove DEF ReceberLer
  <2>4. QED
    BY <2>1, <2>3 DEF PassoCerto
<1>3. CASE ReceberGravar(s)
  <2> DEFINE x == dados[s].pedido
             i == dados[s].item
  <2>1. /\ pc[s] = "receber_gravar" /\ x \in Pedidos
        /\ i[1] \in Pecas /\ i[2] \in Nat /\ dados[s].lido \in Nat /\ dados[s] \in Dados
    BY <1>3 DEF ReceberGravar, ComItem, Carrega, Recebendo
  <2>2. /\ creditos' = [creditos EXCEPT ![x][i[1]] = @ + 1]
        /\ UNCHANGED <<debitos, porWebhook, ajustadas, pedidos>>
        /\ Escreve(s, i[2]) /\ ProximoItem(s, "receber_ler", "receber_salvar")
    BY <1>3 DEF ReceberGravar, catalogo
  <2>3. Evolui /\ creditos' \in [Pedidos -> [Pecas -> Nat]] /\ creditos'[x][i[1]] >= 1
    BY <2>1, <2>2, EvoluiCredito
  <2>4. i[2] \in Int /\ dados[s].lido + i[2] \in Nat
    BY <2>1
  <2>5. estoque' \in [Pecas -> Nat] /\ saldo' \in [Pecas -> Int]
    BY <2>1, <2>2, <2>4, EstoqueEscrito
  <2>6. TipoBanco' /\ TipoHistoria'
    BY <1>3, <2>2, <2>3, <2>5 DEF ReceberGravar, TipoBanco, TipoHistoria, ordem, catalogo
  <2>7. Carrega("receber_gravar", dados[s], pedidos', debitos', creditos')
    BY <2>1, <2>2, <2>3, CarregaDepois DEF TipoHistoria
  <2>8. Movimento
    BY <2>2, <2>3, <2>7, ProximoItemMove DEF ComItem
  <2>9. QED
    BY <2>3, <2>6, <2>8 DEF PassoCerto
<1>4. CASE ReceberSalvar(s)
  <2> DEFINE x == dados[s].pedido
  <2>1. x \in Pedidos /\ dados[s].fila \subseteq dados[s].lista
    BY <1>4 DEF ReceberSalvar, Carrega, Recebendo
  <2>2. pedidos' = [pedidos EXCEPT ![x].st = "RECEBIDO"] /\ UNCHANGED <<debitos, creditos>>
    BY <1>4 DEF ReceberSalvar, historia
  <2>3. pedidos' \in [Pedidos -> Pedido]
    BY <2>2 DEF TipoBanco, Pedido
  <2>4. \A y \in Pedidos : pedidos[y].st # "ausente" =>
          pedidos'[y].st # "ausente" /\ pedidos'[y].itens = pedidos[y].itens
    BY <2>2 DEF TipoBanco, Pedido
  <2>5. TipoBanco' /\ TipoHistoria'
    BY <1>4, <2>3 DEF ReceberSalvar, ordem, historia, TipoBanco, TipoHistoria
  <2>6. Carrega("backlog", dados[s], pedidos', debitos', creditos')
    BY <2>1 DEF Carrega, ComOrdem, Recebendo, ComItem, Debitando
  <2>7. Movimento
    BY <1>4, <2>6, SegueMove DEF ReceberSalvar, Rotulos
  <2>8. QED
    BY <2>2, <2>4, <2>5, <2>7, EvoluiParado DEF PassoCerto
<1>5. QED
  BY <1>1, <1>2, <1>3, <1>4

\* ValidarBacklogOrdensPendentesHandler and LiberarOrdensAguardandoPecasHandler.
LEMMA BacklogCerto ==
  ASSUME TypeOK, SessoesCarregam, NEW s \in Sessoes,
         \/ ValidarBacklog(s) \/ ValidarLer(s) \/ Interromper(s)
         \/ LiberarExiste(s) \/ LiberarLer(s) \/ LiberarGravar(s) \/ LiberarReserva(s)
  PROVE  PassoCerto
<1> USE SessaoCarrega DEF TypeOK
<1>1. CASE ValidarBacklog(s)
  <2> DEFINE B == {<<o, itens[o]>> : o \in {x \in Ordens : situacao[x] = "AWAITING_PARTS"}}
  <2>1. B \in SUBSET (Ordens \X Listas)
    BY DEF TipoBanco
  <2>2. Movimento
    BY <1>1, <2>1, ProximaOrdemMove DEF ValidarBacklog
  <2>3. TipoBanco' /\ TipoHistoria' /\ UNCHANGED <<pedidos, debitos, creditos>>
    BY <1>1 DEF ValidarBacklog, ordem, catalogo, TipoBanco, TipoHistoria
  <2>4. QED
    BY <2>2, <2>3, EvoluiParado DEF PassoCerto
<1>2. CASE ValidarLer(s)
  <2>1. TipoBanco' /\ TipoHistoria' /\ Evolui
    BY <1>2, LeituraCerta DEF ValidarLer
  <2>2. ASSUME NEW i \in dados[s].fila,
               pc' = [pc EXCEPT ![s] = IF dados[s].fila = {i} THEN "liberar_existe"
                                       ELSE "validar_ler"],
               dados' = [dados EXCEPT ![s].fila = @ \ {i}]
        PROVE  Movimento
    <3> DEFINE d == [dados[s] EXCEPT !.fila = @ \ {i}]
               r == IF dados[s].fila = {i} THEN "liberar_existe" ELSE "validar_ler"
    <3>1. /\ dados[s] \in Dados /\ dados[s].ordem \in Ordens /\ dados[s].lista \in Listas
          /\ dados[s].fila \subseteq dados[s].lista
      BY <1>2 DEF ValidarLer, ComOrdem
    <3>2. /\ d \in Dados /\ d.ordem = dados[s].ordem /\ d.lista = dados[s].lista
          /\ d.fila \subseteq d.lista
      BY <3>1 DEF Dados
    <3>3. Carrega(r, d, pedidos', debitos', creditos') /\ r \in Rotulos
      BY <3>1, <3>2 DEF Carrega, Recebendo, ComItem, Debitando, Rotulos
    <3>4. dados' = [dados EXCEPT ![s] = d]
      BY <2>2 DEF TipoSessao
    <3>5. QED
      BY <2>2, <3>2, <3>3, <3>4 DEF Movimento
  <2>3. Movimento
    BY <1>2, <2>2, TerminaMove, ProximaOrdemMove DEF ValidarLer
  <2>4. QED
    BY <2>1, <2>3 DEF PassoCerto
<1>3. CASE Interromper(s)
  BY <1>3, TerminaMove, ProximaOrdemMove, LeituraCerta DEF Interromper, PassoCerto
<1>4. CASE LiberarExiste(s)
  <2>1. dados[s].ordem \in Ordens /\ dados[s].lista \in Listas
    BY <1>4 DEF LiberarExiste, ComOrdem
  <2>2. QED
    BY <1>4, <2>1, ProximaOrdemMove, PercorreMove, LeituraCerta DEF LiberarExiste, PassoCerto
<1>5. CASE LiberarLer(s)
  <2>1. TipoBanco' /\ TipoHistoria' /\ Evolui /\ UNCHANGED <<pedidos, debitos, creditos>>
    BY <1>5, LeituraCerta DEF LiberarLer
  <2>2. ASSUME NEW i \in dados[s].fila, PodeDebitar(i), LePeca(s, i, "liberar_gravar")
        PROVE  Movimento
    <3>1. pc[s] = "liberar_ler" /\ i[2] > 0 /\ estoque[i[1]] >= i[2]
      BY <1>5, <2>2 DEF LiberarLer, PodeDebitar
    <3>2. QED
      BY <2>1, <2>2, <3>1, LePecaMove
  <2>3. Movimento
    BY <1>5, <2>2, ProximaOrdemMove DEF LiberarLer
  <2>4. QED
    BY <2>1, <2>3 DEF PassoCerto
<1>6. CASE LiberarGravar(s)
  <2>1. CASE ProximaOrdem(s, dados[s].backlog) /\ SoLeitura
    BY <2>1, ProximaOrdemMove, LeituraCerta DEF PassoCerto
  <2>2. CASE Debita(s) /\ Segue(s, "liberar_reserva") /\ UNCHANGED <<ordem, catalogo, reservas>>
    <3>1. pc[s] = "liberar_gravar"
      BY <1>6 DEF LiberarGravar
    <3>2. /\ TipoBanco' /\ TipoHistoria' /\ Evolui
          /\ debitos'[dados[s].ordem][dados[s].item[1]] >= dados[s].item[2]
          /\ Carrega("liberar_gravar", dados[s], pedidos', debitos', creditos')
      BY <2>2, <3>1, DebitaCerto
    <3>3. \A i \in Feitos("liberar_reserva", dados[s]) :
            i \in Feitos("liberar_gravar", dados[s]) \/ i = dados[s].item
      BY DEF Feitos
    <3>4. Carrega("liberar_reserva", dados[s], pedidos', debitos', creditos')
      BY <3>2, <3>3 DEF Carrega, ComOrdem, Recebendo, ComItem, Debitando
    <3>5. Movimento
      BY <2>2, <3>4, SegueMove DEF Rotulos
    <3>6. QED
      BY <3>2, <3>5 DEF PassoCerto
  <2>3. QED
    BY <1>6, <2>1, <2>2 DEF LiberarGravar
<1>7. CASE LiberarReserva(s)
  <2>1. CASE ProximaOrdem(s, dados[s].backlog) /\ SoLeitura
    BY <2>1, ProximaOrdemMove, LeituraCerta DEF PassoCerto
  <2>2. CASE /\ reservas' = reservas \cup {<<dados[s].ordem, dados[s].item[1], dados[s].item[2]>>}
             /\ ProximoItem(s, "liberar_ler", "reservadas")
             /\ UNCHANGED <<ordem, catalogo, estoque, saldo, historia>>
    <3>1. pc[s] = "liberar_reserva"
      BY <1>7 DEF LiberarReserva
    <3>2. dados[s].ordem \in Ordens /\ dados[s].item[1] \in Pecas /\ dados[s].item[2] \in Nat
      BY <3>1 DEF ComOrdem, ComItem
    <3>3. TipoBanco' /\ TipoHistoria' /\ UNCHANGED <<pedidos, debitos, creditos>>
      BY <2>2, <3>2 DEF ordem, catalogo, historia, TipoBanco, TipoHistoria
    <3>4. Carrega("liberar_reserva", dados[s], pedidos', debitos', creditos')
      BY <3>1, <3>3
    <3>5. Movimento
      BY <2>2, <3>4, ProximoItemMove DEF ComItem
    <3>6. QED
      BY <3>3, <3>5, EvoluiParado DEF PassoCerto
  <2>3. QED
    BY <1>7, <2>1, <2>2 DEF LiberarReserva
<1>8. QED
  BY <1>1, <1>2, <1>3, <1>4, <1>5, <1>6, <1>7

LEMMA TodoPassoCerto ==
  ASSUME TypeOK, SessoesCarregam, Next
  PROVE  PassoCerto
BY DeUmaVezCerta, OrcamentoCerto, DebitoCerto, RecebimentoCerto, BacklogCerto
   DEF Next, Requisicao, Avancar

LEMMA TipoPorMovimento ==
  ASSUME TypeOK, Movimento
  PROVE  TipoSessao'
BY DEF TypeOK, TipoSessao, Movimento

LEMMA CarregaPorMovimento ==
  ASSUME TypeOK, SessoesCarregam, PassoCerto
  PROVE  SessoesCarregam'
<1> SUFFICES ASSUME NEW x \in Sessoes
             PROVE  Carrega(pc'[x], dados'[x], pedidos', debitos', creditos')
  BY DEF SessoesCarregam
<1>1. Carrega(pc[x], dados[x], pedidos', debitos', creditos')
  BY CarregaDepois DEF TypeOK, TipoSessao, SessoesCarregam, PassoCerto, TipoHistoria
<1>2. CASE UNCHANGED <<pc, dados>>
  BY <1>1, <1>2
<1>3. ASSUME NEW s \in Sessoes, NEW r \in Rotulos, NEW d \in Dados,
             pc' = [pc EXCEPT ![s] = r], dados' = [dados EXCEPT ![s] = d],
             Carrega(r, d, pedidos', debitos', creditos')
      PROVE  Carrega(pc'[x], dados'[x], pedidos', debitos', creditos')
  BY <1>1, <1>3 DEF TypeOK, TipoSessao
<1>4. QED
  BY <1>2, <1>3 DEF PassoCerto, Movimento

-----------------------------------------------------------------------------
(* Reservations, supplier orders and debits.                               *)

\* A reservation is new only when the release makes it, of the item in hand.
LEMMA ReservasNovas ==
  ASSUME Next
  PROVE  \A r \in reservas' : \/ r \in reservas
                             \/ \E s \in Sessoes :
                                  /\ pc[s] = "liberar_reserva"
                                  /\ r = <<dados[s].ordem, dados[s].item[1], dados[s].item[2]>>
<1>1. PICK s \in Sessoes : Requisicao(s) \/ Avancar(s) \/ Interromper(s)
  BY DEF Next
<1>2. CASE LiberarReserva(s)
  BY <1>2 DEF LiberarReserva, SoLeitura
<1>3. CASE Requisicao(s)
  BY <1>3 DEF Requisicao, CreatePecaInsumo, UpdateEstoquePecaInsumo, DeletePecaInsumo, MoverOrdem,
     ListarServicosInsumos, AprovarOrcamento, DeletarOrdem, SolicitarPecasAoFornecedor,
     ReceberPecasDoFornecedor, SoLeitura
<1>4. CASE Avancar(s) /\ ~ LiberarReserva(s)
  BY <1>4 DEF Avancar, ListarGravar, OrcarLer, OrcarGravar, EnviarOrcamento, AprovarGravar,
     OsSemPecas, Verificar, DebitarLer, DebitarGravar, PecasReservadas, PecasIndisponiveis,
     ReceberLer, ReceberGravar, ReceberSalvar, ValidarBacklog, ValidarLer, LiberarExiste,
     LiberarLer, LiberarGravar, SoLeitura
<1>5. CASE Interromper(s)
  BY <1>5 DEF Interromper, SoLeitura
<1>6. QED
  BY <1>1, <1>2, <1>3, <1>4, <1>5

\* A supplier order becomes RECEBIDO only when its receipt saves it.
LEMMA RecebidosNovos ==
  ASSUME TypeOK, Next
  PROVE  \A d \in Pedidos : pedidos'[d].st = "RECEBIDO" =>
           \/ pedidos[d].st = "RECEBIDO"
           \/ \E s \in Sessoes : pc[s] = "receber_salvar" /\ d = dados[s].pedido
<1>1. PICK s \in Sessoes : Requisicao(s) \/ Avancar(s) \/ Interromper(s)
  BY DEF Next
<1>2. CASE ReceberSalvar(s)
  BY <1>2 DEF ReceberSalvar, TypeOK, TipoBanco
<1>3. CASE Requisicao(s)
  <2>1. ASSUME NEW x \in Pedidos, NEW l \in Encomendas, SolicitarPecasAoFornecedor(s, x, l)
        PROVE  \A d \in Pedidos : pedidos'[d].st = "RECEBIDO" => pedidos[d].st = "RECEBIDO"
    <3>1. pedidos' = [pedidos EXCEPT ![x] = [st |-> "PENDENTE", itens |-> l]]
      BY <2>1 DEF SolicitarPecasAoFornecedor
    <3>2. \A d \in Pedidos : pedidos'[d] = pedidos[d] \/ pedidos'[d].st = "PENDENTE"
      BY <3>1 DEF TypeOK, TipoBanco
    <3>3. QED
      BY <3>2
  <2>2. \/ UNCHANGED pedidos
        \/ \E x \in Pedidos, l \in Encomendas : SolicitarPecasAoFornecedor(s, x, l)
    BY <1>3 DEF Requisicao, CreatePecaInsumo, UpdateEstoquePecaInsumo, DeletePecaInsumo, MoverOrdem,
       ListarServicosInsumos, AprovarOrcamento, DeletarOrdem, ReceberPecasDoFornecedor, SoLeitura,
       catalogo
  <2>3. QED
    BY <2>1, <2>2
<1>4. CASE Avancar(s) /\ ~ ReceberSalvar(s)
  BY <1>4 DEF Avancar, ListarGravar, OrcarLer, OrcarGravar, EnviarOrcamento, AprovarGravar,
     OsSemPecas, Verificar, DebitarLer, DebitarGravar, PecasReservadas, PecasIndisponiveis,
     ReceberLer, ReceberGravar, ValidarBacklog, ValidarLer, LiberarExiste,
     LiberarLer, LiberarGravar, LiberarReserva, SoLeitura, catalogo
<1>5. CASE Interromper(s)
  BY <1>5 DEF Interromper, SoLeitura, catalogo
<1>6. QED
  BY <1>1, <1>2, <1>3, <1>4, <1>5

LEMMA ReservaPorPasso ==
  ASSUME Invariante, Next, Evolui, TipoHistoria'
  PROVE  ReservaLastreada'
<1> SUFFICES ASSUME NEW r \in reservas'
             PROVE  debitos'[r[1]][r[2]] >= r[3]
  BY DEF ReservaLastreada
<1> USE DEF Invariante, TypeOK
<1>1. ASSUME NEW o \in Ordens, NEW p \in Pecas, NEW q \in Nat, debitos[o][p] >= q
      PROVE  debitos'[o][p] >= q
  <2>1. debitos'[o][p] \in Nat /\ debitos[o][p] \in Nat /\ debitos'[o][p] >= debitos[o][p]
    BY DEF TipoHistoria, Evolui
  <2>2. QED
    BY <1>1, <2>1
<1>2. CASE r \in reservas
  <2>1. r[1] \in Ordens /\ r[2] \in Pecas /\ r[3] \in Nat /\ debitos[r[1]][r[2]] >= r[3]
    BY <1>2 DEF TipoBanco, ReservaLastreada
  <2>2. QED
    BY <1>1, <2>1
<1>3. ASSUME NEW s \in Sessoes, pc[s] = "liberar_reserva",
             r = <<dados[s].ordem, dados[s].item[1], dados[s].item[2]>>
      PROVE  debitos'[r[1]][r[2]] >= r[3]
  <2> DEFINE o == dados[s].ordem
             i == dados[s].item
  <2>1. /\ o \in Ordens /\ i[1] \in Pecas /\ i[2] \in Nat /\ i \in dados[s].lista
        /\ Carrega(pc[s], dados[s], pedidos, debitos, creditos)
    BY <1>3, SessaoCarrega DEF ComOrdem, ComItem
  <2>2. i \in Feitos("liberar_reserva", dados[s])
    BY <2>1 DEF Feitos
  <2>3. debitos[o][i[1]] >= i[2]
    BY <1>3, <2>1, <2>2 DEF Carrega, Debitando
  <2>4. debitos'[o][i[1]] >= i[2]
    BY <1>1, <2>1, <2>3
  <2>5. QED
    BY <1>3, <2>4
<1>4. QED
  BY <1>2, <1>3, ReservasNovas

LEMMA RecebidoPorPasso ==
  ASSUME Invariante, Next, Evolui, TipoHistoria'
  PROVE  RecebidoCompleto'
<1> SUFFICES ASSUME NEW d \in Pedidos, pedidos'[d].st = "RECEBIDO", NEW i \in pedidos'[d].itens
             PROVE  creditos'[d][i[1]] >= 1
  BY DEF RecebidoCompleto
<1> USE DEF Invariante, TypeOK
<1>1. /\ pedidos[d].st # "ausente" => i \in pedidos[d].itens
      /\ pedidos[d].itens \in Encomendas \cup {{}}
  BY DEF Evolui, TipoBanco, Pedido
<1>2. ASSUME pedidos[d].st # "ausente", creditos[d][i[1]] >= 1
      PROVE  creditos'[d][i[1]] >= 1
  <2>1. i[1] \in Pecas
    BY <1>1, <1>2, ItensDeLista
  <2>2. creditos'[d][i[1]] \in Nat /\ creditos[d][i[1]] \in Nat
        /\ creditos'[d][i[1]] >= creditos[d][i[1]]
    BY <2>1 DEF TipoHistoria, Evolui
  <2>3. QED
    BY <1>2, <2>2
<1>3. CASE pedidos[d].st = "RECEBIDO"
  BY <1>1, <1>2, <1>3 DEF RecebidoCompleto
<1>4. ASSUME NEW s \in Sessoes, pc[s] = "receber_salvar", d = dados[s].pedido
      PROVE  creditos'[d][i[1]] >= 1
  <2>1. Carrega("receber_salvar", dados[s], pedidos, debitos, creditos)
    BY <1>4, SessaoCarrega
  <2>2. /\ pedidos[d].st # "ausente" /\ dados[s].lista = pedidos[d].itens /\ dados[s].fila = {}
        /\ \A x \in Feitos("receber_salvar", dados[s]) : creditos[d][x[1]] >= 1
    BY <1>4, <2>1 DEF Carrega, Recebendo
  <2>3. i \in Feitos("receber_salvar", dados[s])
    BY <1>1, <2>2 DEF Feitos
  <2>4. QED
    BY <1>2, <2>2, <2>3
<1>5. QED
  BY <1>3, <1>4, RecebidosNovos

-----------------------------------------------------------------------------
(* The theorems.                                                           *)

LEMMA InvarianteInicial == Init => Invariante
<1> SUFFICES ASSUME Init
             PROVE  Invariante
  OBVIOUS
<1>1. TypeOK
  BY VazioTipo, Parametros
     DEF Init, TypeOK, TipoBanco, TipoSessao, TipoHistoria, Pedido, Rotulos, Situacao
<1>2. SessoesCarregam
  BY DEF Init, Vazio, SessoesCarregam, Carrega, ComOrdem, Recebendo, ComItem, Debitando
<1>3. ReservaLastreada /\ RecebidoCompleto
  BY DEF Init, ReservaLastreada, RecebidoCompleto
<1>4. QED
  BY <1>1, <1>2, <1>3 DEF Invariante

LEMMA InvariantePreservado ==
  ASSUME Invariante, [Next]_vars
  PROVE  Invariante'
<1>1. CASE UNCHANGED vars
  BY <1>1 DEF vars, ordem, catalogo, historia, Invariante, TypeOK, TipoBanco, TipoSessao,
     TipoHistoria, SessoesCarregam, ReservaLastreada, RecebidoCompleto
<1>2. CASE Next
  <2>1. PassoCerto
    BY <1>2, TodoPassoCerto DEF Invariante
  <2>2. TipoSessao'
    BY <2>1, TipoPorMovimento DEF PassoCerto, Invariante, TypeOK, TipoSessao
  <2>3. SessoesCarregam'
    BY <2>1, CarregaPorMovimento DEF Invariante
  <2>4. ReservaLastreada' /\ RecebidoCompleto'
    BY <1>2, <2>1, ReservaPorPasso, RecebidoPorPasso DEF PassoCerto
  <2>5. QED
    BY <2>1, <2>2, <2>3, <2>4 DEF PassoCerto, Invariante, TypeOK
<1>3. QED
  BY <1>1, <1>2

LEMMA InvarianteSempre == Spec => []Invariante
BY InvarianteInicial, InvariantePreservado, PTL DEF Spec

\* Rows keep the shape of the schema and no stock falls below zero, however
\* requests interleave and wherever they are cut short: a debit writes a
\* difference whose minuend it read itself.
THEOREM TipoCorreto == Spec => []TypeOK
BY InvarianteSempre, PTL DEF Invariante

\* Every reservation the release of waiting orders makes is backed by units
\* debited for that order: ReservaLastreada.
THEOREM ReservaSempreLastreada == Spec => []ReservaLastreada
BY InvarianteSempre, PTL DEF Invariante

\* PecasReservadas, which starts an execution, is emitted only with every item
\* of the list debited for the order: ReservadasDebitadas.
THEOREM ReservadasSempreDebitadas == Spec => []ReservadasDebitadas
<1>1. Invariante => ReservadasDebitadas
  <2> SUFFICES ASSUME Invariante, NEW s \in Sessoes, pc[s] = "reservadas", NEW i \in dados[s].lista
               PROVE  debitos[dados[s].ordem][i[1]] >= i[2]
    BY DEF ReservadasDebitadas
  <2>1. Carrega("reservadas", dados[s], pedidos, debitos, creditos)
    BY DEF Invariante, SessoesCarregam
  <2>2. i \in Feitos("reservadas", dados[s])
    BY <2>1 DEF Carrega, Feitos
  <2>3. QED
    BY <2>1, <2>2 DEF Carrega, Debitando
<1>2. QED
  BY <1>1, InvarianteSempre, PTL

\* A supplier order is saved as RECEBIDO only when each of its items has been
\* credited, although the credits are separate calls: RecebidoCompleto.
THEOREM RecebidoSempreCompleto == Spec => []RecebidoCompleto
BY InvarianteSempre, PTL DEF Invariante

=============================================================================
