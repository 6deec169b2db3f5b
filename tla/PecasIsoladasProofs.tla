------------------------- MODULE PecasIsoladasProofs -------------------------
(***************************************************************************)
(* Proofs about PecasInsumos when there is one request at a time, for      *)
(* every set of parts, of orders, of supplier orders and of item lists.    *)
(*                                                                         *)
(* First with requests that may be cut short: what a session read is still *)
(* so when it writes, and the stock is what its movements make it. Then    *)
(* with none cut short: the loops of the debit and of the release find     *)
(* every part that was seen before them, so no list is debited half way,   *)
(* and an order waits only while it lacks a part.                          *)
(***************************************************************************)
EXTENDS PecasInsumosProofs

UmaDeCadaVez == \E s \in Sessoes : \A t \in Sessoes : t = s

-----------------------------------------------------------------------------
(* Inductive invariants, each on top of those before it.                   *)

\* The foreign keys of OsPeca and PedidoFornecedorItem, under any interleaving.
ChavesPresentes ==
  /\ \A o \in Ordens : Cadastradas(itens[o])
  /\ \A d \in Pedidos : Cadastradas(pedidos[d].itens)

\* What is about to be written was computed from the row as it is.
LeituraFresca ==
  \A s \in Sessoes : pc[s] \in {"debitar_gravar", "liberar_gravar", "receber_gravar"} =>
    dados[s].lido = estoque[dados[s].item[1]]

\* Calls of the loop over the orders that wait.
Laco == {"validar_ler", "liberar_existe", "liberar_ler", "liberar_gravar", "liberar_reserva",
         "reservadas"}

\* What a session about to make the call r holds in d, where its are the items
\* of the orders, est the stock and res the reservations. The list is that of
\* the order; the stock covers the items the debit or the release has left, and
\* those the backlog has passed; the release has reserved the items behind it.
Cobre(r, d, its, est, res) ==
  /\ r \in Debitando \cup Laco => d.lista = its[d.ordem]
  /\ \A b \in d.backlog : b[2] = its[b[1]]
  /\ d.backlog # {} => r \in Laco
  /\ r \in Debitando => \A i \in d.lista \ Feitos(r, d) : est[i[1]] >= i[2]
  /\ r \in {"validar_ler", "liberar_existe"} => \A i \in d.lista \ d.fila : est[i[1]] >= i[2]
  /\ r = "liberar_existe" => d.fila = {}
  /\ r \in {"liberar_ler", "liberar_gravar", "liberar_reserva"} =>
       \A x \in res : x[1] = d.ordem => \E i \in d.lista \ d.fila : i[1] = x[2]

Cobertura ==
  \A s \in Sessoes : Cobre(pc[s], dados[s], itens, estoque, reservas)

\* A supplier order is received once, as long as its quantities are positive.
Positivo(d) == \A i \in pedidos[d].itens : i[2] > 0

Creditado(d, p) ==
  \E s \in Sessoes : /\ pc[s] \in Recebendo /\ dados[s].pedido = d
                     /\ \E i \in Feitos(pc[s], dados[s]) : i[1] = p

RecebimentoEmCurso ==
  /\ \A s \in Sessoes : pc[s] \in Recebendo => pedidos[dados[s].pedido].st = "PENDENTE"
  /\ \A d \in Pedidos, p \in Pecas :
       /\ pedidos[d].st = "ausente" => creditos[d][p] = 0
       /\ Positivo(d) /\ pedidos[d].st = "PENDENTE" /\ ~ Creditado(d, p) => creditos[d][p] = 0
       /\ Positivo(d) => creditos[d][p] <= 1

\* The order in hand, by the call the session makes next.
Orcando   == {"listar_gravar", "orcar_ler", "orcar_gravar", "enviar"}
Aprovando == {"verificar", "indisponiveis", "debitar_ler", "debitar_gravar"}

\* What holds of the order in the hands of a session about to make the call r,
\* given the status, the items and the budget of the orders.
EmMao(r, d, sit, its, orc, apr) ==
  LET o == d.ordem
      aprovada == sit[o] = "AWAITING_APPROVAL" /\ o \in apr
  IN
  /\ r \in Orcando => sit[o] \in {"em_analise", "AWAITING_APPROVAL"} /\ o \notin apr
  /\ r \in {"orcar_ler", "orcar_gravar"} => d.lista \in {{}, its[o]}
  /\ r = "aprovar_gravar" => sit[o] = "AWAITING_APPROVAL" /\ o \notin apr
  /\ r = "sem_pecas" => aprovada /\ orc[o] = {}
  /\ r \in Aprovando => aprovada /\ orc[o] # {}
  /\ r \in Laco \ {"reservadas"} => sit[o] = "AWAITING_PARTS"
  /\ r = "reservadas" => sit[o] = "AWAITING_PARTS" \/ (aprovada /\ orc[o] # {})
  /\ \A b \in d.backlog : sit[b[1]] = "AWAITING_PARTS" /\ b[1] # o

OrdemEmMao ==
  \A s \in Sessoes : EmMao(pc[s], dados[s], situacao, itens, orcado, aprovadas)

\* An approved budget charges the items, and its order has left the analysis
\* unless the approval is still under way.
Aprovadas ==
  /\ \A o \in Ordens : orcado[o] # {} =>
       \/ itens[o] = orcado[o]
       \/ \E s \in Sessoes : pc[s] \in {"orcar_ler", "orcar_gravar"} /\ dados[s].ordem = o
  /\ \A o \in aprovadas : situacao[o] \in {"em_analise", "AWAITING_APPROVAL"} =>
       \E s \in Sessoes : /\ pc[s] \in Aprovando \cup {"sem_pecas", "reservadas"}
                          /\ dados[s].ordem = o
  /\ \A o \in Ordens \ porWebhook : situacao[o] = "AWAITING_PARTS" =>
       o \in aprovadas /\ orcado[o] # {}

\* The units db debited for an order are those of a list, and no others.
Debitado(o, l, db) ==
  /\ \A i \in l : db[o][i[1]] = i[2]
  /\ \A p \in Pecas : (\A i \in l : i[1] # p) => db[o][p] = 0

DebitoEmCurso ==
  \A o \in Ordens \ porWebhook :
    /\ \A s \in Sessoes : pc[s] \in Debitando /\ dados[s].ordem = o =>
         Debitado(o, Feitos(pc[s], dados[s]), debitos)
    /\ (\A s \in Sessoes : pc[s] \in Debitando => dados[s].ordem # o) =>
         /\ situacao[o] \in {"em_analise", "AWAITING_APPROVAL", "AWAITING_PARTS"} =>
              Debitado(o, {}, debitos)
         /\ situacao[o] = "IN_PROGRESS" => Debitado(o, orcado[o], debitos)

\* An order that waits lacks a part, was left behind by a change of stock that
\* nobody follows up, or is going to be looked at.
Falta(o) == \E i \in itens[o] : estoque[i[1]] < i[2] \/ i[1] \in ajustadas \cup Pendentes

EsperaEmCurso ==
  /\ \A s \in Sessoes, o \in Ordens \ porWebhook : situacao[o] = "AWAITING_PARTS" =>
       \/ Falta(o) \/ pc[s] = "backlog"
       \/ pc[s] \in Laco /\ (dados[s].ordem = o \/ \E b \in dados[s].backlog : b[1] = o)
  /\ \A s \in Sessoes : pc[s] = "indisponiveis" =>
       \E i \in itens[dados[s].ordem] : estoque[i[1]] < i[2]

\* Under any interleaving: only positive quantities are reserved.
ReservasPositivas == \A r \in reservas : r[3] > 0

-----------------------------------------------------------------------------
(* What a move leaves in the hands of the session.                         *)

LEMMA TerminaFaz ==
  ASSUME TipoSessao, NEW s \in Sessoes, Termina(s)
  PROVE  pc'[s] = "livre" /\ dados'[s] = Vazio /\ dados'[s].backlog = {}
BY DEF TipoSessao, Termina, Vazio

LEMMA SegueFaz ==
  ASSUME TipoSessao, NEW s \in Sessoes, NEW r, Segue(s, r)
  PROVE  pc'[s] = r /\ dados'[s] = dados[s]
BY DEF TipoSessao, Segue

LEMMA ComecaFaz ==
  ASSUME TipoSessao, NEW s \in Sessoes, NEW r, NEW d, Comeca(s, r, d)
  PROVE  pc[s] = "livre" /\ pc'[s] = r /\ dados'[s] = d
BY DEF TipoSessao, Comeca

LEMMA LePecaFaz ==
  ASSUME TipoSessao, NEW s \in Sessoes, NEW i, NEW r, LePeca(s, i, r)
  PROVE  /\ pc'[s] = r /\ dados'[s].item = i /\ dados'[s].lido = estoque[i[1]]
         /\ dados'[s].ordem = dados[s].ordem /\ dados'[s].pedido = dados[s].pedido
         /\ dados'[s].lista = dados[s].lista /\ dados'[s].fila = dados[s].fila
         /\ dados'[s].backlog = dados[s].backlog
<1>1. dados[s] \in Dados
  BY DEF TipoSessao
<1>2. dados'[s] = [dados[s] EXCEPT !.item = i, !.lido = estoque[i[1]]] /\ pc'[s] = r
  BY DEF TipoSessao, LePeca
<1>3. QED
  BY <1>1, <1>2 DEF Dados

LEMMA PercorreFaz ==
  ASSUME TipoSessao, NEW s \in Sessoes, NEW l, NEW r, NEW vazia, Percorre(s, l, r, vazia)
  PROVE  /\ pc'[s] = IF l = {} THEN vazia ELSE r
         /\ dados'[s].ordem = dados[s].ordem /\ dados'[s].pedido = dados[s].pedido
         /\ dados'[s].lista = l /\ dados'[s].fila = l
         /\ dados'[s].backlog = dados[s].backlog
<1>1. dados[s] \in Dados
  BY DEF TipoSessao
<1>2. /\ dados'[s] = [dados[s] EXCEPT !.lista = l, !.fila = l, !.item = Nada]
      /\ pc'[s] = IF l = {} THEN vazia ELSE r
  BY DEF TipoSessao, Percorre
<1>3. QED
  BY <1>1, <1>2 DEF Dados

LEMMA ProximoItemFaz ==
  ASSUME TipoSessao, NEW s \in Sessoes, NEW r, NEW fim, ProximoItem(s, r, fim)
  PROVE  /\ pc'[s] = IF dados[s].fila \ {dados[s].item} = {} THEN fim ELSE r
         /\ dados'[s].fila = dados[s].fila \ {dados[s].item}
         /\ dados'[s].ordem = dados[s].ordem /\ dados'[s].pedido = dados[s].pedido
         /\ dados'[s].lista = dados[s].lista /\ dados'[s].backlog = dados[s].backlog
<1> DEFINE resto == dados[s].fila \ {dados[s].item}
<1>1. dados[s] \in Dados
  BY DEF TipoSessao
<1>2. /\ dados'[s] = [dados[s] EXCEPT !.fila = resto, !.item = Nada, !.lido = 0]
      /\ pc'[s] = IF resto = {} THEN fim ELSE r
  BY DEF TipoSessao, ProximoItem
<1>3. QED
  BY <1>1, <1>2 DEF Dados

LEMMA ProximaOrdemFaz ==
  ASSUME TipoSessao, NEW s \in Sessoes, NEW B \in SUBSET (Ordens \X Listas), ProximaOrdem(s, B)
  PROVE  \/ B = {} /\ pc'[s] = "livre" /\ dados'[s] = Vazio /\ dados'[s].backlog = {}
         \/ \E b \in B :
              /\ pc'[s] = IF b[2] = {} THEN "liberar_existe" ELSE "validar_ler"
              /\ dados'[s].ordem = b[1] /\ dados'[s].lista = b[2] /\ dados'[s].fila = b[2]
              /\ dados'[s].backlog = B \ {b}
<1>1. CASE B = {} /\ Termina(s)
  BY <1>1, TerminaFaz
<1>2. ASSUME NEW b \in B,
             pc' = [pc EXCEPT ![s] = IF b[2] = {} THEN "liberar_existe" ELSE "validar_ler"],
             dados' = [dados EXCEPT ![s] = [Vazio EXCEPT !.ordem = b[1], !.lista = b[2],
                                            !.fila = b[2], !.backlog = B \ {b}]]
      PROVE  /\ pc'[s] = IF b[2] = {} THEN "liberar_existe" ELSE "validar_ler"
             /\ dados'[s].ordem = b[1] /\ dados'[s].lista = b[2] /\ dados'[s].fila = b[2]
             /\ dados'[s].backlog = B \ {b}
  BY <1>2 DEF TipoSessao, Vazio
<1>3. QED
  BY <1>1, <1>2 DEF ProximaOrdem

\* The backlog passes an item of the order in hand.
LEMMA ValidarLerFaz ==
  ASSUME TipoSessao, NEW s \in Sessoes, NEW i,
         pc' = [pc EXCEPT ![s] = IF dados[s].fila = {i} THEN "liberar_existe" ELSE "validar_ler"],
         dados' = [dados EXCEPT ![s].fila = @ \ {i}]
  PROVE  /\ pc'[s] = IF dados[s].fila = {i} THEN "liberar_existe" ELSE "validar_ler"
         /\ dados'[s].fila = dados[s].fila \ {i} /\ dados'[s].lista = dados[s].lista
         /\ dados'[s].ordem = dados[s].ordem /\ dados'[s].backlog = dados[s].backlog
<1>1. dados[s] \in Dados /\ dados'[s] = [dados[s] EXCEPT !.fila = @ \ {i}]
  BY DEF TipoSessao
<1>2. QED
  BY <1>1 DEF TipoSessao, Dados

-----------------------------------------------------------------------------
(* Foreign keys, under any interleaving.                                   *)

\* Who writes the rows that refer to parts, and the rows of parts.
LEMMA ReferenciasEscritas ==
  ASSUME NEW s \in Sessoes, Requisicao(s) \/ Avancar(s) \/ Interromper(s)
  PROVE  \/ UNCHANGED <<cadastro, itens, pedidos>>
         \/ \E p \in Pecas, q \in Ajustes : CreatePecaInsumo(s, p, q)
         \/ \E p \in Pecas : DeletePecaInsumo(s, p)
         \/ \E o \in Ordens : DeletarOrdem(s, o)
         \/ \E d \in Pedidos, l \in Encomendas : SolicitarPecasAoFornecedor(s, d, l)
         \/ ListarGravar(s) \/ ReceberSalvar(s)
<1>1. CASE Requisicao(s)
  BY <1>1 DEF Requisicao, UpdateEstoquePecaInsumo, MoverOrdem, ListarServicosInsumos,
     AprovarOrcamento, ReceberPecasDoFornecedor, SoLeitura, ordem, catalogo
<1>2. CASE Avancar(s)
  BY <1>2 DEF Avancar, OrcarLer, OrcarGravar, EnviarOrcamento, AprovarGravar, OsSemPecas, Verificar,
     DebitarLer, DebitarGravar, PecasReservadas, PecasIndisponiveis, ReceberLer, ReceberGravar,
     ValidarBacklog, ValidarLer, LiberarExiste, LiberarLer, LiberarGravar, LiberarReserva,
     SoLeitura, ordem, catalogo
<1>3. CASE Interromper(s)
  BY <1>3 DEF Interromper, SoLeitura, ordem, catalogo
<1>4. QED
  BY <1>1, <1>2, <1>3

LEMMA ChavesPorPasso ==
  ASSUME TypeOK, SessoesCarregam, ChavesPresentes, Next
  PROVE  ChavesPresentes'
<1> USE DEF TypeOK
<1>1. PICK s \in Sessoes : Requisicao(s) \/ Avancar(s) \/ Interromper(s)
  BY DEF Next
<1>2. /\ \A o \in Ordens : \A i \in itens[o] : i[1] \in Pecas
      /\ \A d \in Pedidos : \A i \in pedidos[d].itens : i[1] \in Pecas
  BY ItensDeLista DEF TipoBanco, Pedido
<1>3. CASE UNCHANGED <<cadastro, itens, pedidos>>
  BY <1>3 DEF ChavesPresentes, Cadastradas
<1>4. ASSUME NEW p \in Pecas, NEW q \in Ajustes, CreatePecaInsumo(s, p, q)
      PROVE  ChavesPresentes'
  BY <1>2, <1>4 DEF CreatePecaInsumo, TipoBanco, ChavesPresentes, Cadastradas, ordem
<1>5. ASSUME NEW p \in Pecas, DeletePecaInsumo(s, p)
      PROVE  ChavesPresentes'
  BY <1>2, <1>5 DEF DeletePecaInsumo, TipoBanco, ChavesPresentes, Cadastradas, ordem
<1>6. ASSUME NEW o \in Ordens, DeletarOrdem(s, o)
      PROVE  ChavesPresentes'
  BY <1>6 DEF DeletarOrdem, TipoBanco, ChavesPresentes, Cadastradas, catalogo
<1>7. ASSUME NEW d \in Pedidos, NEW l \in Encomendas, SolicitarPecasAoFornecedor(s, d, l)
      PROVE  ChavesPresentes'
  BY <1>7 DEF SolicitarPecasAoFornecedor, TipoBanco, ChavesPresentes, Cadastradas, ordem
<1>8. CASE ListarGravar(s)
  <2>1. dados[s].ordem \in Ordens
    BY <1>8, SessaoCarrega DEF ListarGravar, ComOrdem
  <2>2. QED
    BY <1>8, <2>1 DEF ListarGravar, SoLeitura, ordem, TipoBanco, ChavesPresentes, Cadastradas, catalogo
<1>9. CASE ReceberSalvar(s)
  <2>1. \A d \in Pedidos : pedidos'[d].itens = pedidos[d].itens
    BY <1>9 DEF ReceberSalvar, TipoBanco, Pedido
  <2>2. QED
    BY <1>9, <2>1 DEF ReceberSalvar, ordem, ChavesPresentes, Cadastradas
<1>10. QED
  BY <1>1, <1>3, <1>4, <1>5, <1>6, <1>7, <1>8, <1>9, ReferenciasEscritas

-----------------------------------------------------------------------------
(* The balance of the stock, one request at a time.                        *)

Saldo == LeituraFresca /\ SaldoFiel

Gravando == {"debitar_gravar", "liberar_gravar", "receber_gravar"}

\* The session is the only one there is: what it does is what happens.
LEMMA Sozinha ==
  ASSUME UmaDeCadaVez, NEW s \in Sessoes
  PROVE  \A t \in Sessoes : t = s
BY DEF UmaDeCadaVez

\* A write of the stock adds to the row what it adds to the balance.
LEMMA SaldoPorEscrita ==
  ASSUME TypeOK, UmaDeCadaVez, Saldo, NEW s \in Sessoes, pc[s] \in Gravando,
         dados[s].item[1] \in Pecas, NEW delta \in Int, Escreve(s, delta), pc'[s] \notin Gravando
  PROVE  Saldo'
<1>1. dados[s].lido = estoque[dados[s].item[1]] /\ estoque[dados[s].item[1]] = saldo[dados[s].item[1]]
  BY DEF Saldo, LeituraFresca, SaldoFiel, Gravando
<1>2. SaldoFiel'
  BY <1>1 DEF Saldo, SaldoFiel, Escreve, TypeOK, TipoBanco, TipoHistoria
<1>3. LeituraFresca'
  BY Sozinha DEF LeituraFresca, Gravando
<1>4. QED
  BY <1>2, <1>3 DEF Saldo

LEMMA SaldoPorLeitura ==
  ASSUME UmaDeCadaVez, Saldo, NEW s \in Sessoes, UNCHANGED <<estoque, saldo>>,
         \/ pc'[s] \notin Gravando
         \/ \E i, r : LePeca(s, i, r)
         \/ UNCHANGED <<pc, dados>>,
         TipoSessao
  PROVE  Saldo'
<1>1. SaldoFiel'
  BY DEF Saldo, SaldoFiel
<1>2. LeituraFresca'
  BY Sozinha, LePecaFaz DEF Saldo, LeituraFresca, Gravando
<1>3. QED
  BY <1>1, <1>2 DEF Saldo

\* Who writes the stock, and which call a session comes to.
LEMMA EstoqueMovido ==
  ASSUME TypeOK, SessoesCarregam, NEW s \in Sessoes, Requisicao(s) \/ Avancar(s) \/ Interromper(s)
  PROVE  \/ /\ UNCHANGED <<estoque, saldo>>
            /\ \/ pc'[s] \notin Gravando
               \/ \E i, r : LePeca(s, i, r)
               \/ UNCHANGED <<pc, dados>>
         \/ \E p \in Pecas, q \in Ajustes :
              CreatePecaInsumo(s, p, q) \/ UpdateEstoquePecaInsumo(s, p, q)
         \/ \E p \in Pecas : DeletePecaInsumo(s, p)
         \/ DebitarGravar(s) /\ Debita(s) /\ pc'[s] \notin Gravando
         \/ LiberarGravar(s) /\ Debita(s) /\ pc'[s] \notin Gravando
         \/ ReceberGravar(s) /\ pc'[s] \notin Gravando
<1> USE DEF TypeOK
<1>1. CASE Requisicao(s)
  <2>1. CASE \/ \E o \in Ordens, l \in Listas : ListarServicosInsumos(s, o, l)
             \/ \E o \in Ordens : AprovarOrcamento(s, o)
             \/ \E d \in Pedidos : ReceberPecasDoFornecedor(s, d)
    <3>1. pc'[s] \in {"orcar_ler", "listar_gravar", "aprovar_gravar", "receber_ler"}
      BY <2>1 DEF ListarServicosInsumos, AprovarOrcamento, ReceberPecasDoFornecedor, Comeca,
         TipoSessao
    <3>2. QED
      BY <2>1, <3>1 DEF ListarServicosInsumos, AprovarOrcamento, ReceberPecasDoFornecedor,
         SoLeitura, Gravando
  <2>2. QED
    BY <1>1, <2>1 DEF Requisicao, MoverOrdem, DeletarOrdem, SolicitarPecasAoFornecedor, DeUmaVez
<1>2. ASSUME ProximaOrdem(s, dados[s].backlog)
      PROVE  pc'[s] \notin Gravando
  BY <1>2, ProximaOrdemFaz, SessaoCarrega DEF Gravando
<1>3. CASE ListarGravar(s) \/ OrcarLer(s) \/ OrcarGravar(s) \/ EnviarOrcamento(s) \/ AprovarGravar(s)
           \/ OsSemPecas(s) \/ PecasIndisponiveis(s) \/ ReceberSalvar(s)
  BY <1>3, SegueFaz, TerminaFaz DEF ListarGravar, OrcarLer, OrcarGravar, EnviarOrcamento,
     AprovarGravar, OsSemPecas, PecasIndisponiveis, ReceberSalvar, SoLeitura, Gravando
<1>4. CASE Verificar(s) \/ LiberarExiste(s)
  BY <1>2, <1>4, SegueFaz, PercorreFaz DEF Verificar, LiberarExiste, SoLeitura, Gravando
<1>5. CASE DebitarLer(s) \/ ReceberLer(s) \/ LiberarLer(s)
  BY <1>2, <1>5, TerminaFaz DEF DebitarLer, ReceberLer, LiberarLer, SoLeitura, Gravando
<1>6. CASE DebitarGravar(s)
  BY <1>6, TerminaFaz, ProximoItemFaz DEF DebitarGravar, SoLeitura, Gravando
<1>7. CASE LiberarGravar(s)
  BY <1>2, <1>7, SegueFaz DEF LiberarGravar, SoLeitura, Gravando
<1>8. CASE ReceberGravar(s)
  BY <1>8, ProximoItemFaz DEF ReceberGravar, Gravando
<1>9. CASE PecasReservadas(s)
  BY <1>2, <1>9 DEF PecasReservadas
<1>10. CASE ValidarBacklog(s)
  <2>1. {<<o, itens[o]>> : o \in {x \in Ordens : situacao[x] = "AWAITING_PARTS"}}
          \in SUBSET (Ordens \X Listas)
    BY DEF TipoBanco
  <2>2. QED
    BY <1>10, <2>1, ProximaOrdemFaz DEF ValidarBacklog, Gravando
<1>11. CASE ValidarLer(s)
  BY <1>2, <1>11, TerminaFaz, ValidarLerFaz DEF ValidarLer, SoLeitura, Gravando
<1>12. CASE LiberarReserva(s)
  BY <1>2, <1>12, ProximoItemFaz DEF LiberarReserva, SoLeitura, Gravando
<1>13. CASE Interromper(s)
  BY <1>2, <1>13, TerminaFaz DEF Interromper, SoLeitura, Gravando
<1>14. QED
  BY <1>1, <1>3, <1>4, <1>5, <1>6, <1>7, <1>8, <1>9, <1>10, <1>11, <1>12, <1>13 DEF Avancar

LEMMA SaldoPorPasso ==
  ASSUME TypeOK, SessoesCarregam, UmaDeCadaVez, Saldo, Next
  PROVE  Saldo'
<1> USE DEF TypeOK
<1>1. PICK s \in Sessoes : Requisicao(s) \/ Avancar(s) \/ Interromper(s)
  BY DEF Next
<1>2. CASE /\ UNCHANGED <<estoque, saldo>>
           /\ \/ pc'[s] \notin Gravando
              \/ \E i, r : LePeca(s, i, r)
              \/ UNCHANGED <<pc, dados>>
  BY <1>2, SaldoPorLeitura
<1>3. ASSUME NEW p \in Pecas, NEW q, estoque' = [estoque EXCEPT ![p] = q],
             saldo' = [saldo EXCEPT ![p] = q], DeUmaVez(s)
      PROVE  Saldo'
  <2>1. SaldoFiel'
    BY <1>3 DEF Saldo, SaldoFiel, TipoBanco, TipoHistoria
  <2>2. LeituraFresca'
    BY <1>3, Sozinha DEF LeituraFresca, DeUmaVez
  <2>3. QED
    BY <2>1, <2>2 DEF Saldo
<1>4. CASE DebitarGravar(s) /\ Debita(s) /\ pc'[s] \notin Gravando
  BY <1>4, SaldoPorEscrita, SessaoCarrega DEF DebitarGravar, Debita, Gravando, ComItem
<1>5. CASE LiberarGravar(s) /\ Debita(s) /\ pc'[s] \notin Gravando
  BY <1>5, SaldoPorEscrita, SessaoCarrega DEF LiberarGravar, Debita, Gravando, ComItem
<1>6. CASE ReceberGravar(s) /\ pc'[s] \notin Gravando
  BY <1>6, SaldoPorEscrita, SessaoCarrega DEF ReceberGravar, Gravando, ComItem
<1>7. QED
  BY <1>1, <1>2, <1>3, <1>4, <1>5, <1>6, EstoqueMovido
     DEF CreatePecaInsumo, UpdateEstoquePecaInsumo, DeletePecaInsumo

\* The stock is what its movements make it, when requests do not overlap, even
\* if they are cut short: SaldoFiel.
THEOREM SaldoSempreFiel ==
  ASSUME UmaDeCadaVez
  PROVE  Spec => []SaldoFiel
<1>1. Init => Saldo
  BY DEF Init, Saldo, LeituraFresca, SaldoFiel
<1>2. Invariante /\ Saldo /\ [Next]_vars => Saldo'
  <2>1. Invariante /\ Saldo /\ Next => Saldo'
    BY SaldoPorPasso DEF Invariante
  <2>2. Saldo /\ UNCHANGED vars => Saldo'
    BY DEF vars, Saldo, LeituraFresca, SaldoFiel
  <2>3. QED
    BY <2>1, <2>2
<1>3. Saldo => SaldoFiel
  BY DEF Saldo
<1>4. QED
  BY <1>1, <1>2, <1>3, InvarianteSempre, PTL DEF Spec

-----------------------------------------------------------------------------
(* What was looked at is there.                                            *)

\* The debit and the release go by every item: no part is short, none is
\* missing and no reservation is there yet.
LEMMA SemDesvio ==
  ASSUME TypeOK, SessoesCarregam, ChavesPresentes, Cobertura, NEW s \in Sessoes
  PROVE  /\ pc[s] \in {"debitar_ler", "liberar_ler"} => \A i \in dados[s].fila : PodeDebitar(i)
         /\ pc[s] \in {"debitar_gravar", "liberar_gravar"} => PodeLer(dados[s].item)
         /\ pc[s] = "validar_ler" => \A i \in dados[s].fila : PodeLer(i)
         /\ pc[s] = "liberar_reserva" =>
              ~ \E r \in reservas : r[1] = dados[s].ordem /\ r[2] = dados[s].item[1]
<1> USE SessaoCarrega DEF TypeOK
<1>1. Cobre(pc[s], dados[s], itens, estoque, reservas)
  BY DEF Cobertura
<1>2. ASSUME pc[s] \in Debitando \cup Laco, NEW i \in dados[s].fila
      PROVE  PodeLer(i) /\ i[2] > 0 /\ i \in dados[s].lista
  <2>1. /\ dados[s].ordem \in Ordens /\ dados[s].lista = itens[dados[s].ordem]
        /\ i \in dados[s].lista /\ dados[s].lista \in Listas
    BY <1>1, <1>2 DEF Cobre, ComOrdem, Debitando, Laco
  <2>2. QED
    BY <2>1, ItensDeLista DEF ChavesPresentes, Cadastradas, PodeLer
<1>3. ASSUME pc[s] \in {"debitar_ler", "liberar_ler"}, NEW i \in dados[s].fila
      PROVE  PodeDebitar(i)
  <2>1. pc[s] \in Debitando /\ i \notin Feitos(pc[s], dados[s])
    BY <1>3 DEF Debitando, Feitos
  <2>2. QED
    BY <1>1, <1>2, <1>3, <2>1 DEF Cobre, PodeDebitar
<1>4. ASSUME pc[s] \in {"debitar_gravar", "liberar_gravar"}
      PROVE  PodeLer(dados[s].item)
  BY <1>2, <1>4 DEF Debitando, ComItem
<1>5. ASSUME pc[s] = "liberar_reserva", NEW r \in reservas, r[1] = dados[s].ordem,
             r[2] = dados[s].item[1]
      PROVE  FALSE
  <2>1. PICK i \in dados[s].lista \ dados[s].fila : i[1] = r[2]
    BY <1>1, <1>5 DEF Cobre
  <2>2. /\ dados[s].lista \in Listas /\ dados[s].item \in dados[s].lista
        /\ dados[s].item \in dados[s].fila
    BY <1>5 DEF ComOrdem, ComItem
  <2>3. i = dados[s].item
    BY <1>5, <2>1, <2>2, Parametros DEF Unica
  <2>4. QED
    BY <2>1, <2>2, <2>3
<1>6. QED
  BY <1>2, <1>3, <1>4, <1>5 DEF Laco

\* Calls outside the two loops ask for nothing.
LEMMA CobreFora ==
  ASSUME NEW r, r \notin Debitando \cup Laco, NEW d, d.backlog = {}, NEW its, NEW est, NEW res
  PROVE  Cobre(r, d, its, est, res)
BY DEF Cobre, Debitando, Laco

\* The next order of the backlog, whose list is whole.
LEMMA CobreProxima ==
  ASSUME TypeOK, NEW s \in Sessoes, NEW B \in SUBSET (Ordens \X Listas), ProximaOrdem(s, B),
         \A b \in B : b[2] = itens[b[1]]
  PROVE  Cobre(pc'[s], dados'[s], itens, estoque', reservas')
<1>1. CASE pc'[s] = "livre" /\ dados'[s].backlog = {}
  BY <1>1, CobreFora DEF Debitando, Laco
<1>2. ASSUME NEW b \in B, pc'[s] = IF b[2] = {} THEN "liberar_existe" ELSE "validar_ler",
             dados'[s].ordem = b[1], dados'[s].lista = b[2], dados'[s].fila = b[2],
             dados'[s].backlog = B \ {b}
      PROVE  Cobre(pc'[s], dados'[s], itens, estoque', reservas')
  BY <1>2 DEF Cobre, Debitando, Laco
<1>3. QED
  BY <1>1, <1>2, ProximaOrdemFaz DEF TypeOK

\* Of a list with one item per part, a debit leaves the others as they are.
LEMMA OutrosItens ==
  ASSUME TypeOK, NEW s \in Sessoes, dados[s].lista \in Listas, dados[s].fila \subseteq dados[s].lista,
         dados[s].item \in dados[s].fila, NEW delta, Escreve(s, delta),
         NEW i \in dados[s].lista, i # dados[s].item
  PROVE  estoque'[i[1]] = estoque[i[1]] /\ i[1] # dados[s].item[1]
<1>1. i[1] # dados[s].item[1] /\ i[1] \in Pecas
  BY Parametros, ItensDeLista DEF Unica
<1>2. QED
  BY <1>1 DEF Escreve, TypeOK, TipoBanco

LEMMA CobrePorPasso ==
  ASSUME TypeOK, SessoesCarregam, ChavesPresentes, UmaDeCadaVez, Cobertura, Next
  PROVE  Cobertura'
<1> USE DEF TypeOK
<1>1. PICK s \in Sessoes : Requisicao(s) \/ Avancar(s) \/ Interromper(s)
  BY DEF Next
<1> DEFINE d == dados[s]
           e == dados'[s]
           Certo == Cobre(pc'[s], dados'[s], itens', estoque', reservas')
<1>2. SUFFICES Certo
  BY Sozinha DEF Cobertura
<1>3. /\ Cobre(pc[s], d, itens, estoque, reservas)
      /\ d \in Dados /\ Carrega(pc[s], d, pedidos, debitos, creditos) /\ d.fila \subseteq d.lista
      /\ d.backlog \in SUBSET (Ordens \X Listas)
  BY SessaoCarrega DEF Cobertura
<1>4. \A b \in d.backlog : b[2] = itens[b[1]]
  BY <1>3 DEF Cobre
<1>5. pc[s] \notin Laco => d.backlog = {}
  BY <1>3 DEF Cobre
<1>6. ASSUME ProximaOrdem(s, d.backlog), UNCHANGED itens
      PROVE  Certo
  BY <1>3, <1>4, <1>6, CobreProxima
<1>7. ASSUME UNCHANGED <<pc, dados>>, pc[s] = "livre"
      PROVE  Certo
  BY <1>5, <1>7, CobreFora DEF Debitando, Laco
<1>8. ASSUME pc[s] \notin Laco, NEW r, r \notin Debitando \cup Laco, Segue(s, r)
      PROVE  Certo
  BY <1>5, <1>8, SegueFaz, CobreFora
<1>9. ASSUME Termina(s)
      PROVE  Certo
  BY <1>9, TerminaFaz, CobreFora DEF Debitando, Laco
<1>10. CASE Requisicao(s)
  <2>1. ASSUME NEW o \in Ordens, NEW l \in Listas, ListarServicosInsumos(s, o, l)
        PROVE  Certo
    <3>1. pc'[s] \in {"orcar_ler", "listar_gravar"} /\ e = [Vazio EXCEPT !.ordem = o, !.lista = l]
      BY <2>1 DEF ListarServicosInsumos, Comeca, TipoSessao
    <3>2. QED
      BY <3>1, CobreFora DEF Vazio, Debitando, Laco
  <2>2. ASSUME NEW o \in Ordens, AprovarOrcamento(s, o)
        PROVE  Certo
    <3>1. pc'[s] = "aprovar_gravar" /\ e = [Vazio EXCEPT !.ordem = o]
      BY <2>2 DEF AprovarOrcamento, Comeca, TipoSessao
    <3>2. QED
      BY <3>1, CobreFora DEF Vazio, Debitando, Laco
  <2>3. ASSUME NEW x \in Pedidos, ReceberPecasDoFornecedor(s, x)
        PROVE  Certo
    <3>1. pc'[s] = "receber_ler" /\ e = [Vazio EXCEPT !.pedido = x, !.lista = pedidos[x].itens,
                                                      !.fila = pedidos[x].itens]
      BY <2>3 DEF ReceberPecasDoFornecedor, Comeca, TipoSessao
    <3>2. QED
      BY <3>1, CobreFora DEF Vazio, Debitando, Laco
  <2>4. QED
    BY <1>7, <1>10, <2>1, <2>2, <2>3 DEF Requisicao, CreatePecaInsumo, UpdateEstoquePecaInsumo,
       DeletePecaInsumo, MoverOrdem, DeletarOrdem, SolicitarPecasAoFornecedor, DeUmaVez
<1>11. CASE ListarGravar(s) \/ OrcarLer(s) \/ OrcarGravar(s) \/ EnviarOrcamento(s)
            \/ AprovarGravar(s) \/ OsSemPecas(s) \/ PecasIndisponiveis(s) \/ ReceberSalvar(s)
  BY <1>8, <1>9, <1>11 DEF ListarGravar, OrcarLer, OrcarGravar, EnviarOrcamento, AprovarGravar,
     OsSemPecas, PecasIndisponiveis, ReceberSalvar, Debitando, Laco
<1>12. CASE ReceberLer(s) \/ ReceberGravar(s)
  <2>1. pc[s] \notin Laco
    BY <1>12 DEF ReceberLer, ReceberGravar, Laco
  <2>2. CASE Termina(s)
    BY <1>9, <2>2
  <2>3. ASSUME NEW i, LePeca(s, i, "receber_gravar")
        PROVE  Certo
    BY <1>5, <2>1, <2>3, LePecaFaz, CobreFora DEF Debitando, Laco
  <2>4. CASE ProximoItem(s, "receber_ler", "receber_salvar")
    BY <1>5, <2>1, <2>4, ProximoItemFaz, CobreFora DEF Debitando, Laco
  <2>5. QED
    BY <1>12, <2>2, <2>3, <2>4 DEF ReceberLer, ReceberGravar
<1>13. CASE Verificar(s)
  <2>1. CASE Segue(s, "indisponiveis")
    BY <1>8, <1>13, <2>1 DEF Verificar, Debitando, Laco
  <2>2. CASE /\ Percorre(s, itens[d.ordem], "debitar_ler", "reservadas")
             /\ ~ \E i \in itens[d.ordem] : estoque[i[1]] < i[2]
    <3>1. d.ordem \in Ordens /\ itens[d.ordem] \in Listas /\ d.backlog = {}
      BY <1>5, <1>13, SessaoCarrega DEF Verificar, ComOrdem, TipoBanco, Laco
    <3>2. \A i \in itens[d.ordem] : estoque[i[1]] \in Nat /\ i[2] \in Nat
      BY <3>1, ItensDeLista DEF TipoBanco
    <3>3. /\ pc'[s] \in {"debitar_ler", "reservadas"}
          /\ e.ordem = d.ordem /\ e.lista = itens[d.ordem] /\ e.fila = itens[d.ordem] /\ e.backlog = {}
      BY <2>2, <3>1, PercorreFaz
    <3>4. UNCHANGED <<itens, estoque, reservas>>
      BY <1>13 DEF Verificar, SoLeitura, ordem
    <3>5. \A i \in e.lista : estoque'[i[1]] >= i[2]
      BY <2>2, <3>2, <3>3, <3>4
    <3>6. QED
      BY <3>3, <3>4, <3>5 DEF Cobre, Debitando, Laco
  <2>3. QED
    BY <1>13, <2>1, <2>2 DEF Verificar
<1>14. CASE DebitarLer(s) \/ LiberarLer(s)
  <2>1. UNCHANGED <<itens, estoque, reservas>>
    BY <1>14 DEF DebitarLer, LiberarLer, SoLeitura, ordem
  <2>2. CASE Termina(s) \/ ProximaOrdem(s, d.backlog)
    BY <1>6, <1>9, <2>1, <2>2
  <2>3. ASSUME NEW i \in d.fila, NEW r, LePeca(s, i, r),
               \/ pc[s] = "debitar_ler" /\ r = "debitar_gravar"
               \/ pc[s] = "liberar_ler" /\ r = "liberar_gravar"
        PROVE  Certo
    <3>1. /\ pc'[s] = r /\ e.ordem = d.ordem /\ e.lista = d.lista /\ e.fila = d.fila
          /\ e.backlog = d.backlog
      BY <2>3, LePecaFaz
    <3>2. Feitos(r, e) = Feitos(pc[s], d)
      BY <2>3, <3>1 DEF Feitos
    <3>3. QED
      BY <1>3, <2>1, <2>3, <3>1, <3>2 DEF Cobre, Debitando, Laco
  <2>4. QED
    BY <1>14, <2>2, <2>3 DEF DebitarLer, LiberarLer
<1>15. CASE DebitarGravar(s) \/ LiberarGravar(s)
  <2>1. UNCHANGED <<itens, reservas>>
    BY <1>15 DEF DebitarGravar, LiberarGravar, SoLeitura, ordem
  <2>2. CASE Termina(s) \/ ProximaOrdem(s, d.backlog)
    BY <1>6, <1>9, <2>1, <2>2
  <2>3. CASE /\ Debita(s) /\ pc[s] \in {"debitar_gravar", "liberar_gravar"}
             /\ \/ pc[s] = "debitar_gravar" /\ ProximoItem(s, "debitar_ler", "reservadas")
                \/ pc[s] = "liberar_gravar" /\ Segue(s, "liberar_reserva")
    <3>1. /\ d.lista \in Listas /\ d.item \in d.fila /\ d.item \in d.lista
      BY <2>3, SessaoCarrega DEF ComOrdem, ComItem
    <3>2. \A i \in d.lista : i # d.item => estoque'[i[1]] = estoque[i[1]]
      BY <1>3, <2>3, <3>1, OutrosItens DEF Debita
    <3>3. \A i \in d.fila : estoque[i[1]] >= i[2]
      BY <1>3, <2>3 DEF Cobre, Debitando, Feitos
    <3>4. /\ e.ordem = d.ordem /\ e.lista = d.lista /\ e.backlog = d.backlog
          /\ d.lista \ Feitos(pc'[s], e) \subseteq d.fila \ {d.item}
          /\ \/ pc[s] = "debitar_gravar" /\ pc'[s] \in {"debitar_ler", "reservadas"}
             \/ pc[s] = "liberar_gravar" /\ pc'[s] = "liberar_reserva" /\ e.fila = d.fila
      BY <1>3, <2>3, ProximoItemFaz, SegueFaz DEF Feitos
    <3>5. \A i \in e.lista \ Feitos(pc'[s], e) : estoque'[i[1]] >= i[2]
      BY <1>3, <3>2, <3>3, <3>4
    <3>6. QED
      BY <1>3, <2>1, <3>4, <3>5 DEF Cobre, Debitando, Laco
  <2>4. QED
    BY <1>15, <2>2, <2>3 DEF DebitarGravar, LiberarGravar
<1>16. CASE PecasReservadas(s)
  BY <1>6, <1>16 DEF PecasReservadas
<1>17. CASE ValidarBacklog(s)
  <2> DEFINE B == {<<o, itens[o]>> : o \in {x \in Ordens : situacao[x] = "AWAITING_PARTS"}}
  <2>1. B \in SUBSET (Ordens \X Listas) /\ \A b \in B : b[2] = itens[b[1]]
    BY DEF TipoBanco
  <2>2. ProximaOrdem(s, B) /\ UNCHANGED itens
    BY <1>17 DEF ValidarBacklog, ordem
  <2>3. QED
    BY <2>1, <2>2, CobreProxima
<1>18. CASE ValidarLer(s)
  <2>1. UNCHANGED <<itens, estoque, reservas>> /\ pc[s] = "validar_ler"
    BY <1>18 DEF ValidarLer, SoLeitura, ordem
  <2>2. CASE Termina(s) \/ ProximaOrdem(s, d.backlog)
    BY <1>6, <1>9, <2>1, <2>2
  <2>3. ASSUME NEW i \in d.fila, ~ (estoque[i[1]] < i[2]),
               pc' = [pc EXCEPT ![s] = IF d.fila = {i} THEN "liberar_existe" ELSE "validar_ler"],
               dados' = [dados EXCEPT ![s].fila = @ \ {i}]
        PROVE  Certo
    <3>1. /\ pc'[s] = IF d.fila = {i} THEN "liberar_existe" ELSE "validar_ler"
          /\ e.fila = d.fila \ {i} /\ e.lista = d.lista /\ e.ordem = d.ordem
          /\ e.backlog = d.backlog
      BY <2>3, ValidarLerFaz
    <3>2. d.lista \in Listas /\ i \in d.lista
      BY <1>3, <2>1, SessaoCarrega DEF ComOrdem
    <3>3. i[2] \in Nat /\ estoque[i[1]] \in Nat
      BY <3>2, ItensDeLista DEF TipoBanco
    <3>4. estoque[i[1]] >= i[2]
      BY <2>3, <3>3
    <3>5. QED
      BY <1>3, <2>1, <3>1, <3>4 DEF Cobre, Debitando, Laco
  <2>4. QED
    BY <1>18, <2>2, <2>3 DEF ValidarLer
<1>19. CASE LiberarExiste(s)
  <2>1. UNCHANGED <<itens, estoque, reservas>> /\ pc[s] = "liberar_existe"
    BY <1>19 DEF LiberarExiste, SoLeitura, ordem
  <2>2. CASE ProximaOrdem(s, d.backlog)
    BY <1>6, <2>1, <2>2
  <2>3. CASE /\ Percorre(s, d.lista, "liberar_ler", "reservadas")
             /\ ~ \E r \in reservas : r[1] = d.ordem
    <3>1. /\ pc'[s] \in {"liberar_ler", "reservadas"} /\ e.ordem = d.ordem
          /\ e.lista = d.lista /\ e.fila = d.lista /\ e.backlog = d.backlog
      BY <2>3, PercorreFaz
    <3>2. QED
      BY <1>3, <2>1, <2>3, <3>1 DEF Cobre, Debitando, Laco
  <2>4. QED
    BY <1>19, <2>2, <2>3 DEF LiberarExiste
<1>20. CASE LiberarReserva(s)
  <2>1. UNCHANGED <<itens, estoque>> /\ pc[s] = "liberar_reserva"
    BY <1>20 DEF LiberarReserva, SoLeitura, ordem
  <2>2. CASE ProximaOrdem(s, d.backlog)
    BY <1>6, <2>1, <2>2
  <2>3. CASE /\ reservas' = reservas \cup {<<d.ordem, d.item[1], d.item[2]>>}
             /\ ProximoItem(s, "liberar_ler", "reservadas")
    <3>1. d.item \in d.fila
      BY <2>1, SessaoCarrega DEF ComItem
    <3>2. /\ pc'[s] \in {"liberar_ler", "reservadas"} /\ e.ordem = d.ordem
          /\ e.lista = d.lista /\ e.fila = d.fila \ {d.item} /\ e.backlog = d.backlog
      BY <2>3, ProximoItemFaz
    <3>3. Feitos(pc'[s], e) = Feitos(pc[s], d)
      BY <2>1, <3>2 DEF Feitos
    <3>4. \A x \in reservas' : x[1] = d.ordem => \E i \in e.lista \ e.fila : i[1] = x[2]
      BY <1>3, <2>1, <2>3, <3>1, <3>2 DEF Cobre
    <3>5. QED
      BY <1>3, <2>1, <3>2, <3>3, <3>4 DEF Cobre, Debitando, Laco
  <2>4. QED
    BY <1>20, <2>2, <2>3 DEF LiberarReserva
<1>21. CASE Interromper(s)
  BY <1>6, <1>9, <1>21 DEF Interromper, SoLeitura, ordem
<1>22. QED
  BY <1>1, <1>10, <1>11, <1>12, <1>13, <1>14, <1>15, <1>16, <1>17, <1>18, <1>19, <1>20, <1>21
     DEF Avancar

-----------------------------------------------------------------------------
(* The receipt of a supplier order, when no request is cut short.          *)

\* Who has to do with receipts.
LEMMA ForaDoRecebimento ==
  ASSUME TypeOK, SessoesCarregam, NEW s \in Sessoes, Requisicao(s) \/ Avancar(s)
  PROVE  \/ UNCHANGED <<pedidos, creditos>> /\ pc[s] \notin Recebendo /\ pc'[s] \notin Recebendo
         \/ \E d \in Pedidos, l \in Encomendas : SolicitarPecasAoFornecedor(s, d, l)
         \/ \E d \in Pedidos : ReceberPecasDoFornecedor(s, d)
         \/ ReceberLer(s) \/ ReceberGravar(s) \/ ReceberSalvar(s)
<1> USE DEF TypeOK
<1>1. ASSUME ProximaOrdem(s, dados[s].backlog)
      PROVE  pc'[s] \notin Recebendo
  BY <1>1, ProximaOrdemFaz, SessaoCarrega DEF Recebendo
<1>2. CASE Requisicao(s)
  <2>1. CASE \/ \E o \in Ordens, l \in Listas : ListarServicosInsumos(s, o, l)
             \/ \E o \in Ordens : AprovarOrcamento(s, o)
    <3>1. pc'[s] \in {"orcar_ler", "listar_gravar", "aprovar_gravar"} /\ pc[s] = "livre"
      BY <2>1 DEF ListarServicosInsumos, AprovarOrcamento, Comeca, TipoSessao
    <3>2. QED
      BY <2>1, <3>1 DEF ListarServicosInsumos, AprovarOrcamento, SoLeitura, catalogo, historia,
         Recebendo
  <2>2. QED
    BY <1>2, <2>1 DEF Requisicao, CreatePecaInsumo, UpdateEstoquePecaInsumo, DeletePecaInsumo,
       MoverOrdem, DeletarOrdem, DeUmaVez, catalogo, historia, Recebendo
<1>3. CASE ListarGravar(s) \/ OrcarLer(s) \/ OrcarGravar(s) \/ EnviarOrcamento(s) \/ AprovarGravar(s)
           \/ OsSemPecas(s) \/ PecasIndisponiveis(s)
  BY <1>3, SegueFaz, TerminaFaz DEF ListarGravar, OrcarLer, OrcarGravar, EnviarOrcamento,
     AprovarGravar, OsSemPecas, PecasIndisponiveis, SoLeitura, Recebendo, catalogo, historia
<1>4. CASE Verificar(s) \/ LiberarExiste(s)
  BY <1>1, <1>4, SegueFaz, PercorreFaz DEF Verificar, LiberarExiste, SoLeitura, Recebendo, catalogo,
     historia
<1>5. CASE DebitarLer(s) \/ LiberarLer(s)
  BY <1>1, <1>5, TerminaFaz, LePecaFaz DEF DebitarLer, LiberarLer, SoLeitura, Recebendo, catalogo,
     historia
<1>6. CASE DebitarGravar(s)
  BY <1>6, TerminaFaz, ProximoItemFaz DEF DebitarGravar, Debita, SoLeitura, Recebendo, catalogo,
     historia
<1>7. CASE LiberarGravar(s)
  BY <1>1, <1>7, SegueFaz DEF LiberarGravar, Debita, SoLeitura, Recebendo, catalogo, historia
<1>8. CASE PecasReservadas(s)
  BY <1>1, <1>8 DEF PecasReservadas, Recebendo, catalogo, historia
<1>9. CASE ValidarBacklog(s)
  <2>1. {<<o, itens[o]>> : o \in {x \in Ordens : situacao[x] = "AWAITING_PARTS"}}
          \in SUBSET (Ordens \X Listas)
    BY DEF TipoBanco
  <2>2. QED
    BY <1>9, <2>1, ProximaOrdemFaz DEF ValidarBacklog, Recebendo, catalogo
<1>10. CASE ValidarLer(s)
  BY <1>1, <1>10, TerminaFaz, ValidarLerFaz DEF ValidarLer, SoLeitura, Recebendo, catalogo, historia
<1>11. CASE LiberarReserva(s)
  BY <1>1, <1>11, ProximoItemFaz DEF LiberarReserva, SoLeitura, Recebendo, catalogo, historia
<1>12. QED
  BY <1>2, <1>3, <1>4, <1>5, <1>6, <1>7, <1>8, <1>9, <1>10, <1>11 DEF Avancar

LEMMA RecebimentoPorPasso ==
  ASSUME TypeOK, SessoesCarregam, ChavesPresentes, UmaDeCadaVez, ~ ComFalhas,
         RecebimentoEmCurso, Next
  PROVE  RecebimentoEmCurso'
<1> USE DEF TypeOK
<1>1. PICK s \in Sessoes : Requisicao(s) \/ Avancar(s)
  BY DEF Next, Interromper
<1> DEFINE x == dados[s].pedido
           i == dados[s].item
<1>2. \A d \in Pedidos, p \in Pecas :
        Creditado(d, p) <=> /\ pc[s] \in Recebendo /\ x = d
                            /\ \E j \in Feitos(pc[s], dados[s]) : j[1] = p
  BY Sozinha DEF Creditado
<1>3. \A d \in Pedidos, p \in Pecas :
        Creditado(d, p)' <=> /\ pc'[s] \in Recebendo /\ dados'[s].pedido = d
                             /\ \E j \in Feitos(pc'[s], dados'[s]) : j[1] = p
  BY Sozinha DEF Creditado
<1>4. ASSUME pc'[s] \in Recebendo => pedidos'[dados'[s].pedido].st = "PENDENTE",
             \A d \in Pedidos, p \in Pecas :
               /\ pedidos'[d].st = "ausente" => creditos'[d][p] = 0
               /\ Positivo(d)' /\ pedidos'[d].st = "PENDENTE" /\ ~ Creditado(d, p)' =>
                    creditos'[d][p] = 0
               /\ Positivo(d)' => creditos'[d][p] <= 1
      PROVE  RecebimentoEmCurso'
  BY <1>4, Sozinha DEF RecebimentoEmCurso
<1>5. /\ pc[s] \in Recebendo => /\ pedidos[x].st = "PENDENTE" /\ x \in Pedidos
                                /\ dados[s].lista = pedidos[x].itens
      /\ dados[s].fila \subseteq dados[s].lista
  BY SessaoCarrega DEF Carrega, RecebimentoEmCurso
<1>6. \A d \in Pedidos, p \in Pecas :
        /\ creditos[d][p] \in Nat
        /\ pedidos[d].st = "ausente" => creditos[d][p] = 0
        /\ Positivo(d) /\ pedidos[d].st = "PENDENTE" /\ ~ Creditado(d, p) => creditos[d][p] = 0
        /\ Positivo(d) => creditos[d][p] <= 1
  BY DEF RecebimentoEmCurso, TipoHistoria
<1>7. UNCHANGED pedidos => \A d \in Pedidos : Positivo(d)' <=> Positivo(d)
  BY DEF Positivo
<1>8. CASE UNCHANGED <<pedidos, creditos>> /\ pc[s] \notin Recebendo /\ pc'[s] \notin Recebendo
  BY <1>2, <1>3, <1>4, <1>6, <1>7, <1>8
<1>9. ASSUME NEW d \in Pedidos, NEW l \in Encomendas, SolicitarPecasAoFornecedor(s, d, l)
      PROVE  RecebimentoEmCurso'
  <2>1. /\ pc[s] = "livre" /\ UNCHANGED <<pc, dados, creditos>> /\ pedidos[d].st = "ausente"
        /\ pedidos' = [pedidos EXCEPT ![d] = [st |-> "PENDENTE", itens |-> l]]
    BY <1>9 DEF SolicitarPecasAoFornecedor, DeUmaVez, historia
  <2>2. pedidos'[d].st = "PENDENTE" /\ \A y \in Pedidos : y # d => pedidos'[y] = pedidos[y]
    BY <2>1 DEF TipoBanco
  <2>3. \A p \in Pecas : creditos'[d][p] = 0
    BY <1>6, <2>1
  <2>4. \A y \in Pedidos : y # d => (Positivo(y)' <=> Positivo(y))
    BY <2>2 DEF Positivo
  <2>5. pc[s] \notin Recebendo /\ pc'[s] \notin Recebendo
    BY <2>1 DEF Recebendo
  <2>6. ASSUME NEW y \in Pedidos, NEW p \in Pecas
        PROVE  /\ pedidos'[y].st = "ausente" => creditos'[y][p] = 0
               /\ Positivo(y)' /\ pedidos'[y].st = "PENDENTE" => creditos'[y][p] = 0
               /\ Positivo(y)' => creditos'[y][p] <= 1
    BY <1>2, <1>6, <2>1, <2>2, <2>3, <2>4, <2>5
  <2>7. QED
    BY <1>4, <2>5, <2>6
<1>10. ASSUME NEW d \in Pedidos, ReceberPecasDoFornecedor(s, d)
       PROVE  RecebimentoEmCurso'
  <2>1. pedidos[d].itens \in SUBSET Item
    <3>1. pedidos[d].itens \in Encomendas \cup {{}}
      BY DEF TipoBanco, Pedido
    <3>2. QED
      BY <3>1, ItensDeLista
  <2>2. /\ pc'[s] = "receber_ler" /\ pc[s] = "livre"
        /\ dados'[s] = [Vazio EXCEPT !.pedido = d, !.lista = pedidos[d].itens,
                                     !.fila = pedidos[d].itens]
        /\ pedidos[d].st = "PENDENTE" /\ UNCHANGED <<pedidos, creditos>>
    BY <1>10 DEF ReceberPecasDoFornecedor, Comeca, TipoSessao, SoLeitura, catalogo, historia
  <2>3. /\ dados'[s].pedido = d /\ Feitos(pc'[s], dados'[s]) = {} /\ pc[s] \notin Recebendo
    BY <2>2 DEF Vazio, Feitos, Recebendo
  <2>4. QED
    BY <1>2, <1>3, <1>4, <1>6, <1>7, <2>2, <2>3
<1>11. CASE ReceberLer(s)
  <2>1. pc[s] = "receber_ler" /\ UNCHANGED <<pedidos, creditos>>
    BY <1>11 DEF ReceberLer, SoLeitura, catalogo, historia
  <2>2. ASSUME NEW j \in dados[s].fila, LePeca(s, j, "receber_gravar")
        PROVE  RecebimentoEmCurso'
    <3>1. /\ pc'[s] = "receber_gravar" /\ dados'[s].pedido = x
          /\ dados'[s].lista = dados[s].lista /\ dados'[s].fila = dados[s].fila
      BY <2>2, LePecaFaz
    <3>2. Feitos(pc'[s], dados'[s]) = Feitos(pc[s], dados[s])
      BY <2>1, <3>1 DEF Feitos
    <3>3. pc[s] \in Recebendo /\ pc'[s] \in Recebendo
      BY <2>1, <3>1 DEF Recebendo
    <3>4. QED
      BY <1>2, <1>3, <1>4, <1>5, <1>6, <1>7, <2>1, <3>1, <3>2, <3>3
  <2>3. ASSUME NEW j \in dados[s].fila, ~ (PodeLer(j) /\ j[2] > 0), Termina(s)
        PROVE  RecebimentoEmCurso'
    <3>1. pc[s] \in Recebendo /\ pc'[s] \notin Recebendo
      BY <2>1, <2>3, TerminaFaz DEF Recebendo
    <3>2. j \in pedidos[x].itens /\ x \in Pedidos
      BY <1>5, <2>3, <3>1
    <3>3. ~ Positivo(x)
      BY <2>3, <3>2 DEF ChavesPresentes, Cadastradas, PodeLer, Positivo
    <3>4. QED
      BY <1>2, <1>3, <1>4, <1>6, <1>7, <2>1, <3>1, <3>3
  <2>4. QED
    BY <1>11, <2>2, <2>3 DEF ReceberLer
<1>12. CASE ReceberGravar(s)
  <2>1. /\ pc[s] = "receber_gravar" /\ UNCHANGED pedidos
        /\ creditos' = [creditos EXCEPT ![x][i[1]] = @ + 1]
        /\ ProximoItem(s, "receber_ler", "receber_salvar")
    BY <1>12 DEF ReceberGravar, catalogo
  <2>2. /\ x \in Pedidos /\ pedidos[x].st = "PENDENTE" /\ dados[s].lista = pedidos[x].itens
        /\ i \in dados[s].fila /\ i \in dados[s].lista /\ i[1] \in Pecas
    BY <1>5, <2>1, SessaoCarrega DEF Recebendo, ComItem
  <2>3. /\ pc'[s] \in {"receber_ler", "receber_salvar"} /\ dados'[s].pedido = x
        /\ dados'[s].lista = dados[s].lista /\ dados'[s].fila = dados[s].fila \ {i}
    BY <2>1, ProximoItemFaz
  <2>4. Feitos(pc'[s], dados'[s]) = Feitos(pc[s], dados[s]) \cup {i}
    BY <2>1, <2>2, <2>3 DEF Feitos
  <2>5. Unica(dados[s].lista)
    <3>1. pedidos[x].itens \in Encomendas \cup {{}}
      BY <2>2 DEF TipoBanco, Pedido
    <3>2. QED
      BY <2>2, <3>1, Parametros DEF Unica
  <2>6. ~ Creditado(x, i[1])
    <3>1. \A j \in Feitos(pc[s], dados[s]) : j \in dados[s].lista /\ j # i
      BY <2>1, <2>2 DEF Feitos
    <3>2. QED
      BY <1>2, <2>2, <2>5, <3>1 DEF Unica
  <2>7. \A d \in Pedidos, p \in Pecas :
          creditos'[d][p] = IF d = x /\ p = i[1] THEN creditos[d][p] + 1 ELSE creditos[d][p]
    BY <2>1, <2>2 DEF TipoHistoria
  <2>8. pc[s] \in Recebendo /\ pc'[s] \in Recebendo
    BY <2>1, <2>3 DEF Recebendo
  <2>9. \A d \in Pedidos, p \in Pecas :
          Creditado(d, p)' <=> Creditado(d, p) \/ (d = x /\ p = i[1])
    BY <1>2, <1>3, <2>3, <2>4, <2>8
  <2>10. ASSUME NEW d \in Pedidos, NEW p \in Pecas
         PROVE  /\ pedidos'[d].st = "ausente" => creditos'[d][p] = 0
                /\ Positivo(d)' /\ pedidos'[d].st = "PENDENTE" /\ ~ Creditado(d, p)' =>
                     creditos'[d][p] = 0
                /\ Positivo(d)' => creditos'[d][p] <= 1
    <3>1. CASE d = x /\ p = i[1]
      BY <1>6, <1>7, <2>1, <2>2, <2>6, <2>7, <2>9, <3>1
    <3>2. CASE ~ (d = x /\ p = i[1])
      BY <1>6, <1>7, <2>1, <2>7, <2>9, <3>2
    <3>3. QED
      BY <3>1, <3>2
  <2>11. QED
    BY <1>4, <2>1, <2>2, <2>3, <2>10
<1>13. CASE ReceberSalvar(s)
  <2>1. /\ pc[s] = "receber_salvar" /\ pc'[s] = "backlog" /\ UNCHANGED creditos
        /\ pedidos' = [pedidos EXCEPT ![x].st = "RECEBIDO"]
    BY <1>13, SegueFaz DEF ReceberSalvar, historia
  <2>2. x \in Pedidos /\ pc[s] \in Recebendo /\ pc'[s] \notin Recebendo
    BY <1>5, <2>1 DEF Recebendo
  <2>3. pedidos'[x].st = "RECEBIDO" /\ pedidos'[x].itens = pedidos[x].itens
    BY <2>1, <2>2 DEF TipoBanco, Pedido
  <2>4. \A d \in Pedidos : d # x => pedidos'[d] = pedidos[d]
    BY <2>1, <2>2 DEF TipoBanco
  <2>5. \A d \in Pedidos : Positivo(d)' <=> Positivo(d)
    BY <2>3, <2>4 DEF Positivo
  <2>6. \A d \in Pedidos, p \in Pecas : Creditado(d, p) => d = x
    BY <1>2
  <2>7. QED
    BY <1>4, <1>6, <2>1, <2>2, <2>3, <2>4, <2>5, <2>6
<1>14. QED
  BY <1>1, <1>4, <1>8, <1>9, <1>10, <1>11, <1>12, <1>13, ForaDoRecebimento

-----------------------------------------------------------------------------
(* The order in hand and the budgets, when no request is cut short.        *)

\* Calls that have no order in hand, or a session that ends.
LEMMA EmMaoFora ==
  ASSUME NEW r, NEW d, d.backlog = {}, r \notin Orcando \cup Aprovando \cup Laco,
         r \notin {"aprovar_gravar", "sem_pecas"}, NEW sit, NEW its, NEW orc, NEW apr
  PROVE  EmMao(r, d, sit, its, orc, apr)
BY DEF EmMao, Orcando, Aprovando, Laco

\* The next order of the backlog waits for parts.
LEMMA EmMaoProxima ==
  ASSUME TypeOK, NEW s \in Sessoes, NEW B \in SUBSET (Ordens \X Listas), ProximaOrdem(s, B),
         \A b \in B : b[2] = itens[b[1]] /\ situacao'[b[1]] = "AWAITING_PARTS"
  PROVE  EmMao(pc'[s], dados'[s], situacao', itens', orcado', aprovadas')
<1>1. CASE pc'[s] = "livre" /\ dados'[s].backlog = {}
  BY <1>1, EmMaoFora DEF Orcando, Aprovando, Laco
<1>2. ASSUME NEW b \in B, pc'[s] = IF b[2] = {} THEN "liberar_existe" ELSE "validar_ler",
             dados'[s].ordem = b[1], dados'[s].lista = b[2], dados'[s].fila = b[2],
             dados'[s].backlog = B \ {b}
      PROVE  EmMao(pc'[s], dados'[s], situacao', itens', orcado', aprovadas')
  <2>1. \A x \in B \ {b} : x[1] # b[1]
    <3> SUFFICES ASSUME NEW x \in B, x[1] = b[1]
                 PROVE  x = b
      OBVIOUS
    <3>1. x = <<x[1], x[2]>> /\ b = <<b[1], b[2]>> /\ x[2] = itens[x[1]] /\ b[2] = itens[b[1]]
      OBVIOUS
    <3>2. QED
      BY <3>1
  <2>2. QED
    BY <1>2, <2>1 DEF EmMao, Orcando, Aprovando, Laco
<1>3. QED
  BY <1>1, <1>2, ProximaOrdemFaz DEF TypeOK

\* The orders stand still and the session keeps to its order.
LEMMA AprovadasParado ==
  ASSUME UmaDeCadaVez, Aprovadas, NEW s \in Sessoes, UNCHANGED ordem, porWebhook \subseteq porWebhook',
         pc[s] \in {"orcar_ler", "orcar_gravar"} =>
           pc'[s] \in {"orcar_ler", "orcar_gravar"} /\ dados'[s].ordem = dados[s].ordem,
         pc[s] \in Aprovando \cup {"sem_pecas"} =>
           pc'[s] \in Aprovando \cup {"sem_pecas", "reservadas"} /\ dados'[s].ordem = dados[s].ordem,
         pc[s] = "reservadas" => pc'[s] = "reservadas" /\ dados'[s].ordem = dados[s].ordem
  PROVE  Aprovadas'
BY Sozinha DEF Aprovadas, ordem

OrdensCertas == OrdemEmMao /\ Aprovadas

\* Calls and requests that leave the orders alone.
LEMMA OrdemNasLeituras ==
  ASSUME TypeOK, SessoesCarregam, ChavesPresentes, Cobertura, UmaDeCadaVez, OrdensCertas,
         NEW s \in Sessoes,
         \/ \E p \in Pecas, q \in Ajustes :
              CreatePecaInsumo(s, p, q) \/ UpdateEstoquePecaInsumo(s, p, q)
         \/ \E p \in Pecas : DeletePecaInsumo(s, p)
         \/ \E d \in Pedidos, l \in Encomendas : SolicitarPecasAoFornecedor(s, d, l)
         \/ \E d \in Pedidos : ReceberPecasDoFornecedor(s, d)
         \/ \E o \in Ordens, l \in Listas : ListarServicosInsumos(s, o, l)
         \/ \E o \in Ordens : AprovarOrcamento(s, o)
         \/ OrcarLer(s) \/ Verificar(s) \/ DebitarLer(s) \/ DebitarGravar(s)
         \/ ReceberLer(s) \/ ReceberGravar(s) \/ ReceberSalvar(s)
         \/ ValidarBacklog(s) \/ ValidarLer(s)
         \/ LiberarExiste(s) \/ LiberarLer(s) \/ LiberarGravar(s) \/ LiberarReserva(s)
  PROVE  OrdensCertas'
<1> USE DEF TypeOK
<1> DEFINE d == dados[s]
           e == dados'[s]
           Certo == EmMao(pc'[s], e, situacao', itens', orcado', aprovadas')
<1>1. Certo => OrdemEmMao'
  BY Sozinha DEF OrdemEmMao
<1>2. /\ EmMao(pc[s], d, situacao, itens, orcado, aprovadas) /\ Aprovadas
      /\ d.backlog \in SUBSET (Ordens \X Listas)
      /\ \A b \in d.backlog : b[2] = itens[b[1]] /\ situacao[b[1]] = "AWAITING_PARTS"
      /\ pc[s] \notin Laco => d.backlog = {}
  BY SessaoCarrega DEF OrdensCertas, OrdemEmMao, EmMao, Cobertura, Cobre
<1>3. ASSUME UNCHANGED <<ordem, porWebhook>>, UNCHANGED <<pc, dados>>
      PROVE  OrdensCertas'
  BY <1>1, <1>2, <1>3, AprovadasParado DEF OrdensCertas, ordem
<1>4. ASSUME UNCHANGED <<ordem, porWebhook>>, ProximaOrdem(s, d.backlog),
             pc[s] \in Laco \ {"reservadas"}
      PROVE  OrdensCertas'
  <2>1. Certo
    BY <1>2, <1>4, EmMaoProxima DEF ordem
  <2>2. Aprovadas'
    BY <1>2, <1>4, AprovadasParado DEF Laco, Aprovando
  <2>3. QED
    BY <1>1, <2>1, <2>2 DEF OrdensCertas
<1>5. ASSUME UNCHANGED <<ordem, porWebhook>>,
             pc[s] \notin Laco \cup Aprovando \cup Orcando \cup {"sem_pecas"},
             e.backlog = {}, pc'[s] \notin Orcando \cup Aprovando \cup Laco,
             pc'[s] \notin {"aprovar_gravar", "sem_pecas"}
      PROVE  OrdensCertas'
  <2>1. Certo
    BY <1>5, EmMaoFora
  <2>2. Aprovadas'
    BY <1>2, <1>5, AprovadasParado DEF Laco, Aprovando, Orcando
  <2>3. QED
    BY <1>1, <2>1, <2>2 DEF OrdensCertas
<1>6. ASSUME UNCHANGED <<ordem, porWebhook>>, e.ordem = d.ordem, e.backlog = d.backlog,
             \/ pc[s] \in Aprovando /\ pc'[s] \in Aprovando \cup {"reservadas"}
             \/ pc[s] \in Laco \ {"reservadas"} /\ pc'[s] \in Laco
      PROVE  OrdensCertas'
  <2>1. Certo
    BY <1>2, <1>6 DEF EmMao, Aprovando, Orcando, Laco, ordem
  <2>2. Aprovadas'
    BY <1>2, <1>6, AprovadasParado DEF Laco, Aprovando
  <2>3. QED
    BY <1>1, <2>1, <2>2 DEF OrdensCertas
<1>7. CASE \/ \E p \in Pecas, q \in Ajustes :
                CreatePecaInsumo(s, p, q) \/ UpdateEstoquePecaInsumo(s, p, q)
           \/ \E p \in Pecas : DeletePecaInsumo(s, p)
           \/ \E x \in Pedidos, l \in Encomendas : SolicitarPecasAoFornecedor(s, x, l)
  BY <1>3, <1>7 DEF CreatePecaInsumo, UpdateEstoquePecaInsumo, DeletePecaInsumo, DeUmaVez,
     SolicitarPecasAoFornecedor, historia
<1>8. ASSUME NEW x \in Pedidos, ReceberPecasDoFornecedor(s, x)
      PROVE  OrdensCertas'
  <2>1. /\ pc[s] = "livre" /\ pc'[s] = "receber_ler" /\ UNCHANGED <<ordem, porWebhook>>
        /\ e = [Vazio EXCEPT !.pedido = x, !.lista = pedidos[x].itens, !.fila = pedidos[x].itens]
    BY <1>8 DEF ReceberPecasDoFornecedor, Comeca, TipoSessao, SoLeitura, historia
  <2>2. e.backlog = {}
    BY <2>1 DEF Vazio
  <2>3. QED
    BY <1>5, <2>1, <2>2 DEF Orcando, Aprovando, Laco
<1>9. ASSUME NEW o \in Ordens, NEW l \in Listas, ListarServicosInsumos(s, o, l)
      PROVE  OrdensCertas'
  <2>1. /\ pc[s] = "livre" /\ pc'[s] = (IF l = {} THEN "orcar_ler" ELSE "listar_gravar")
        /\ e = [Vazio EXCEPT !.ordem = o, !.lista = l] /\ UNCHANGED <<ordem, porWebhook>>
        /\ situacao[o] \in {"em_analise", "AWAITING_APPROVAL"}
    BY <1>9 DEF ListarServicosInsumos, Comeca, TipoSessao, SoLeitura, historia
  <2>2. e.ordem = o /\ e.lista = l /\ e.backlog = {}
    BY <2>1 DEF Vazio
  <2>3. o \notin aprovadas
    BY <1>2, <2>1, Sozinha DEF Aprovadas, Aprovando
  <2>4. Certo
    BY <2>1, <2>2, <2>3 DEF EmMao, Orcando, Aprovando, Laco, ordem
  <2>5. Aprovadas'
    BY <1>2, <2>1, AprovadasParado DEF Aprovando
  <2>6. QED
    BY <1>1, <2>4, <2>5 DEF OrdensCertas
<1>10. ASSUME NEW o \in Ordens, AprovarOrcamento(s, o)
       PROVE  OrdensCertas'
  <2>1. /\ pc[s] = "livre" /\ pc'[s] = "aprovar_gravar" /\ e = [Vazio EXCEPT !.ordem = o]
        /\ UNCHANGED <<ordem, porWebhook>> /\ situacao[o] = "AWAITING_APPROVAL" /\ o \notin aprovadas
    BY <1>10 DEF AprovarOrcamento, Comeca, TipoSessao, SoLeitura, historia
  <2>2. e.ordem = o /\ e.backlog = {}
    BY <2>1 DEF Vazio
  <2>3. Certo
    BY <2>1, <2>2 DEF EmMao, Orcando, Aprovando, Laco, ordem
  <2>4. Aprovadas'
    BY <1>2, <2>1, AprovadasParado DEF Aprovando
  <2>5. QED
    BY <1>1, <2>3, <2>4 DEF OrdensCertas
<1>11. CASE OrcarLer(s)
  <2>1. /\ pc[s] = "orcar_ler" /\ pc'[s] = "orcar_gravar" /\ e = d /\ UNCHANGED <<ordem, porWebhook>>
    BY <1>2, <1>11, SegueFaz DEF OrcarLer, EmMao, Orcando, SoLeitura, historia
  <2>2. Certo
    BY <1>2, <2>1 DEF EmMao, Orcando, Aprovando, Laco, ordem
  <2>3. Aprovadas'
    BY <1>2, <2>1, AprovadasParado DEF Aprovando
  <2>4. QED
    BY <1>1, <2>2, <2>3 DEF OrdensCertas
<1>12. CASE Verificar(s)
  <2>1. pc[s] \in Aprovando /\ UNCHANGED <<ordem, porWebhook>>
    BY <1>12 DEF Verificar, SoLeitura, Aprovando, historia
  <2>2. /\ e.ordem = d.ordem /\ e.backlog = d.backlog
        /\ pc'[s] \in {"indisponiveis", "debitar_ler", "reservadas"}
    BY <1>12, SegueFaz, PercorreFaz DEF Verificar
  <2>3. QED
    BY <1>6, <2>1, <2>2 DEF Aprovando
<1>13. CASE DebitarLer(s)
  <2>1. PICK i \in d.fila : LePeca(s, i, "debitar_gravar")
    BY <1>13, SemDesvio DEF DebitarLer
  <2>2. /\ e.ordem = d.ordem /\ e.backlog = d.backlog /\ pc'[s] = "debitar_gravar"
        /\ pc[s] = "debitar_ler" /\ UNCHANGED <<ordem, porWebhook>>
    BY <1>13, <2>1, LePecaFaz DEF DebitarLer, SoLeitura, historia
  <2>3. QED
    BY <1>6, <2>2 DEF Aprovando
<1>14. CASE DebitarGravar(s)
  <2>1. /\ Debita(s) /\ ProximoItem(s, "debitar_ler", "reservadas") /\ UNCHANGED ordem
        /\ pc[s] = "debitar_gravar"
    BY <1>14, SemDesvio DEF DebitarGravar
  <2>2. /\ e.ordem = d.ordem /\ e.backlog = d.backlog /\ pc'[s] \in {"debitar_ler", "reservadas"}
        /\ UNCHANGED porWebhook
    BY <2>1, ProximoItemFaz DEF Debita
  <2>3. QED
    BY <1>6, <2>1, <2>2 DEF Aprovando
<1>15. CASE ReceberLer(s) \/ ReceberGravar(s) \/ ReceberSalvar(s)
  <2>1. /\ pc[s] \in {"receber_ler", "receber_gravar", "receber_salvar"}
        /\ UNCHANGED <<ordem, porWebhook>>
    BY <1>15 DEF ReceberLer, ReceberGravar, ReceberSalvar, SoLeitura, historia
  <2>2. /\ pc'[s] \in {"livre", "receber_ler", "receber_gravar", "receber_salvar", "backlog"}
        /\ e.backlog = {}
    <3>1. d.backlog = {}
      BY <1>2, <2>1 DEF Laco
    <3>2. QED
      BY <1>15, <3>1, TerminaFaz, LePecaFaz, ProximoItemFaz, SegueFaz
         DEF ReceberLer, ReceberGravar, ReceberSalvar
  <2>3. QED
    BY <1>5, <2>1, <2>2 DEF Orcando, Aprovando, Laco
<1>16. CASE ValidarBacklog(s)
  <2> DEFINE B == {<<o, itens[o]>> : o \in {x \in Ordens : situacao[x] = "AWAITING_PARTS"}}
  <2>1. /\ B \in SUBSET (Ordens \X Listas)
        /\ \A b \in B : b[2] = itens[b[1]] /\ situacao[b[1]] = "AWAITING_PARTS"
    BY DEF TipoBanco
  <2>2. ProximaOrdem(s, B) /\ UNCHANGED <<ordem, porWebhook>> /\ pc[s] = "backlog"
    BY <1>16 DEF ValidarBacklog
  <2>3. Certo
    BY <2>1, <2>2, EmMaoProxima DEF ordem
  <2>4. Aprovadas'
    BY <1>2, <2>2, AprovadasParado DEF Aprovando
  <2>5. QED
    BY <1>1, <2>3, <2>4 DEF OrdensCertas
<1>17. CASE ValidarLer(s)
  <2>1. pc[s] = "validar_ler" /\ UNCHANGED <<ordem, porWebhook>> /\ pc[s] \in Laco \ {"reservadas"}
    BY <1>17 DEF ValidarLer, SoLeitura, historia, Laco
  <2>2. ASSUME NEW i,
               pc' = [pc EXCEPT ![s] = IF d.fila = {i} THEN "liberar_existe" ELSE "validar_ler"],
               dados' = [dados EXCEPT ![s].fila = @ \ {i}]
        PROVE  OrdensCertas'
    BY <1>6, <2>1, <2>2, ValidarLerFaz DEF Laco
  <2>3. QED
    BY <1>4, <1>17, <2>1, <2>2, SemDesvio DEF ValidarLer
<1>18. CASE LiberarExiste(s)
  <2>1. UNCHANGED <<ordem, porWebhook>> /\ pc[s] \in Laco \ {"reservadas"}
    BY <1>18 DEF LiberarExiste, SoLeitura, historia, Laco
  <2>2. CASE Percorre(s, d.lista, "liberar_ler", "reservadas")
    BY <1>6, <2>1, <2>2, PercorreFaz DEF Laco
  <2>3. QED
    BY <1>4, <1>18, <2>1, <2>2 DEF LiberarExiste
<1>19. CASE LiberarLer(s)
  <2>1. UNCHANGED <<ordem, porWebhook>> /\ pc[s] \in Laco \ {"reservadas"}
    BY <1>19 DEF LiberarLer, SoLeitura, historia, Laco
  <2>2. ASSUME NEW i, LePeca(s, i, "liberar_gravar")
        PROVE  OrdensCertas'
    BY <1>6, <2>1, <2>2, LePecaFaz DEF Laco
  <2>3. QED
    BY <1>4, <1>19, <2>1, <2>2 DEF LiberarLer
<1>20. CASE LiberarGravar(s)
  <2>1. UNCHANGED <<ordem, porWebhook>> /\ pc[s] \in Laco \ {"reservadas"}
    BY <1>20 DEF LiberarGravar, Debita, SoLeitura, historia, Laco
  <2>2. CASE Segue(s, "liberar_reserva")
    BY <1>6, <2>1, <2>2, SegueFaz DEF Laco
  <2>3. QED
    BY <1>4, <1>20, <2>1, <2>2 DEF LiberarGravar
<1>21. CASE LiberarReserva(s)
  <2>1. UNCHANGED <<ordem, porWebhook>> /\ pc[s] \in Laco \ {"reservadas"}
    BY <1>21 DEF LiberarReserva, SoLeitura, historia, Laco
  <2>2. CASE ProximoItem(s, "liberar_ler", "reservadas")
    BY <1>6, <2>1, <2>2, ProximoItemFaz DEF Laco
  <2>3. QED
    BY <1>4, <1>21, <2>1, <2>2 DEF LiberarReserva
<1>22. QED
  BY <1>7, <1>8, <1>9, <1>10, <1>11, <1>12, <1>13, <1>14, <1>15, <1>16, <1>17, <1>18, <1>19, <1>20, <1>21

\* Calls and requests that write the orders.
LEMMA OrdemNasEscritas ==
  ASSUME TypeOK, SessoesCarregam, ChavesPresentes, Cobertura, UmaDeCadaVez, OrdensCertas,
         NEW s \in Sessoes,
         \/ \E o \in Ordens, st \in Situacao : MoverOrdem(s, o, st)
         \/ \E o \in Ordens : DeletarOrdem(s, o)
         \/ ListarGravar(s) \/ OrcarGravar(s) \/ EnviarOrcamento(s) \/ AprovarGravar(s)
         \/ OsSemPecas(s) \/ PecasReservadas(s) \/ PecasIndisponiveis(s)
  PROVE  OrdensCertas'
<1> USE DEF TypeOK
<1> DEFINE d == dados[s]
           e == dados'[s]
           o == dados[s].ordem
           Certo == EmMao(pc'[s], e, situacao', itens', orcado', aprovadas')
<1>1. Certo => OrdemEmMao'
  BY Sozinha DEF OrdemEmMao
<1>2. /\ EmMao(pc[s], d, situacao, itens, orcado, aprovadas) /\ Aprovadas
      /\ d.backlog \in SUBSET (Ordens \X Listas)
      /\ \A b \in d.backlog : /\ b[2] = itens[b[1]] /\ situacao[b[1]] = "AWAITING_PARTS"
                              /\ b[1] # o
      /\ pc[s] \notin Laco => d.backlog = {}
      /\ pc[s] \in ComOrdem => o \in Ordens /\ d.lista \in Listas
  BY SessaoCarrega DEF OrdensCertas, OrdemEmMao, EmMao, Cobertura, Cobre
<1>3. \A x \in Ordens : orcado[x] # {} =>
        itens[x] = orcado[x] \/ (pc[s] \in {"orcar_ler", "orcar_gravar"} /\ o = x)
  BY <1>2, Sozinha DEF Aprovadas
<1>4. \A x \in aprovadas : situacao[x] \in {"em_analise", "AWAITING_APPROVAL"} =>
        pc[s] \in Aprovando \cup {"sem_pecas", "reservadas"} /\ o = x
  BY <1>2, Sozinha DEF Aprovadas
<1>5. \A x \in Ordens \ porWebhook : situacao[x] = "AWAITING_PARTS" =>
        x \in aprovadas /\ orcado[x] # {}
  BY <1>2 DEF Aprovadas
<1>6. ASSUME Termina(s)
      PROVE  pc'[s] = "livre" /\ Certo
  BY <1>6, TerminaFaz, EmMaoFora DEF Orcando, Aprovando, Laco
<1>7. ASSUME UNCHANGED <<pc, dados>>, pc[s] = "livre"
      PROVE  Certo
  BY <1>2, <1>7, EmMaoFora DEF Orcando, Aprovando, Laco
<1>8. ASSUME NEW x \in Ordens, NEW st \in Situacao, MoverOrdem(s, x, st)
      PROVE  OrdensCertas'
  <2>1. /\ pc[s] = "livre" /\ UNCHANGED <<pc, dados, itens, orcado, aprovadas>>
        /\ situacao' = [situacao EXCEPT ![x] = st]
        /\ <<situacao[x], st>> \in Movimentos \cup MovimentosWebhook
        /\ porWebhook' = IF <<situacao[x], st>> \in MovimentosWebhook
                         THEN porWebhook \cup {x} ELSE porWebhook
    BY <1>8 DEF MoverOrdem, DeUmaVez
  <2>2. \A y \in Ordens : situacao'[y] = IF y = x THEN st ELSE situacao[y]
    BY <2>1 DEF TipoBanco
  <2>3. \A y \in aprovadas : situacao[y] \notin {"em_analise", "AWAITING_APPROVAL"}
    BY <1>4, <2>1 DEF Aprovando
  <2>4. x \in aprovadas => st \notin {"em_analise", "AWAITING_APPROVAL"}
    BY <2>1, <2>3 DEF Movimentos, MovimentosWebhook
  <2>5. st = "AWAITING_PARTS" => x \in porWebhook'
    BY <2>1 DEF Movimentos, MovimentosWebhook
  <2>6. \A y \in aprovadas : situacao'[y] \notin {"em_analise", "AWAITING_APPROVAL"}
    BY <2>2, <2>3, <2>4 DEF TipoBanco
  <2>7. \A y \in Ordens \ porWebhook' : situacao'[y] = "AWAITING_PARTS" =>
          y \in aprovadas /\ orcado[y] # {}
    BY <1>5, <2>1, <2>2, <2>5
  <2>8. Aprovadas'
    BY <1>3, <2>1, <2>6, <2>7 DEF Aprovadas
  <2>9. QED
    BY <1>1, <1>7, <2>1, <2>8 DEF OrdensCertas
<1>9. ASSUME NEW x \in Ordens, DeletarOrdem(s, x)
      PROVE  OrdensCertas'
  <2>1. /\ pc[s] = "livre" /\ UNCHANGED <<pc, dados, porWebhook>>
        /\ situacao' = [situacao EXCEPT ![x] = "removida"] /\ aprovadas' = aprovadas \ {x}
        /\ itens' = [itens EXCEPT ![x] = {}] /\ orcado' = [orcado EXCEPT ![x] = {}]
    BY <1>9 DEF DeletarOrdem, DeUmaVez, historia
  <2>2. /\ situacao'[x] = "removida" /\ orcado'[x] = {}
        /\ \A y \in Ordens : y # x => /\ situacao'[y] = situacao[y] /\ itens'[y] = itens[y]
                                      /\ orcado'[y] = orcado[y]
    BY <2>1 DEF TipoBanco
  <2>3. \A y \in Ordens : orcado'[y] # {} => itens'[y] = orcado'[y]
    BY <1>3, <2>1, <2>2
  <2>4. \A y \in aprovadas' : situacao'[y] \notin {"em_analise", "AWAITING_APPROVAL"}
    BY <1>4, <2>1, <2>2 DEF TipoBanco, Aprovando
  <2>5. \A y \in Ordens \ porWebhook' : situacao'[y] = "AWAITING_PARTS" =>
          y \in aprovadas' /\ orcado'[y] # {}
    BY <1>5, <2>1, <2>2
  <2>6. Aprovadas'
    BY <2>3, <2>4, <2>5 DEF Aprovadas
  <2>7. QED
    BY <1>1, <1>7, <2>1, <2>6 DEF OrdensCertas
<1>10. CASE ListarGravar(s)
  <2>1. /\ pc[s] = "listar_gravar" /\ o \in Ordens /\ o \notin aprovadas /\ d.backlog = {}
        /\ situacao[o] \in {"em_analise", "AWAITING_APPROVAL"}
    BY <1>2, <1>10 DEF ListarGravar, ComOrdem, EmMao, Orcando, Laco
  <2>2. CASE Termina(s) /\ SoLeitura
    BY <1>1, <1>2, <1>6, <2>1, <2>2, AprovadasParado DEF OrdensCertas, SoLeitura, historia, Aprovando
  <2>3. CASE /\ itens' = [itens EXCEPT ![o] = d.lista] /\ Segue(s, "orcar_ler")
             /\ UNCHANGED <<situacao, orcado, aprovadas, historia>>
    <3>1. pc'[s] = "orcar_ler" /\ e = d
      BY <2>3, SegueFaz
    <3>2. itens'[o] = d.lista /\ \A y \in Ordens : y # o => itens'[y] = itens[y]
      BY <2>1, <2>3 DEF TipoBanco
    <3>3. Certo
      BY <2>1, <2>3, <3>1, <3>2 DEF EmMao, Orcando, Aprovando, Laco
    <3>4. \A y \in Ordens : orcado'[y] # {} => itens'[y] = orcado'[y] \/ (pc'[s] = "orcar_ler" /\ e.ordem = y)
      BY <1>3, <2>1, <2>3, <3>1, <3>2
    <3>5. \A y \in aprovadas' : situacao'[y] \notin {"em_analise", "AWAITING_APPROVAL"}
      BY <1>4, <2>1, <2>3 DEF Aprovando
    <3>6. Aprovadas'
      BY <1>5, <2>3, <3>4, <3>5 DEF Aprovadas, historia
    <3>7. QED
      BY <1>1, <3>3, <3>6 DEF OrdensCertas
  <2>4. QED
    BY <1>10, <2>2, <2>3 DEF ListarGravar
<1>11. CASE OrcarGravar(s)
  <2>1. /\ pc[s] = "orcar_gravar" /\ o \in Ordens /\ o \notin aprovadas /\ d.backlog = {}
        /\ situacao[o] \in {"em_analise", "AWAITING_APPROVAL"} /\ d.lista \in {{}, itens[o]}
    BY <1>2, <1>11 DEF OrcarGravar, ComOrdem, EmMao, Orcando, Laco
  <2>2. /\ orcado' = [orcado EXCEPT ![o] = d.lista] /\ aprovadas' = aprovadas \ {o}
        /\ UNCHANGED <<situacao, itens, porWebhook>> /\ pc'[s] = "enviar" /\ e = d
    BY <1>11, <2>1, SegueFaz DEF OrcarGravar, historia
  <2>3. orcado'[o] = d.lista /\ \A y \in Ordens : y # o => orcado'[y] = orcado[y]
    BY <2>1, <2>2 DEF TipoBanco
  <2>4. Certo
    BY <2>1, <2>2 DEF EmMao, Orcando, Aprovando, Laco
  <2>5. \A y \in Ordens : orcado'[y] # {} => itens'[y] = orcado'[y]
    BY <1>3, <2>1, <2>2, <2>3
  <2>6. \A y \in aprovadas' : situacao'[y] \notin {"em_analise", "AWAITING_APPROVAL"}
    BY <1>4, <2>1, <2>2 DEF Aprovando
  <2>7. \A y \in Ordens \ porWebhook' : situacao'[y] = "AWAITING_PARTS" =>
          y \in aprovadas' /\ orcado'[y] # {}
    BY <1>5, <2>1, <2>2, <2>3
  <2>8. Aprovadas'
    BY <2>5, <2>6, <2>7 DEF Aprovadas
  <2>9. QED
    BY <1>1, <2>4, <2>8 DEF OrdensCertas
<1>12. CASE EnviarOrcamento(s)
  <2>1. /\ pc[s] = "enviar" /\ o \in Ordens /\ o \notin aprovadas
        /\ situacao[o] \in {"em_analise", "AWAITING_APPROVAL"}
    BY <1>2, <1>12 DEF EnviarOrcamento, ComOrdem, EmMao, Orcando
  <2>2. /\ UNCHANGED <<itens, orcado, aprovadas, porWebhook>> /\ Termina(s)
        /\ situacao'[o] = "AWAITING_APPROVAL" /\ \A y \in Ordens : y # o => situacao'[y] = situacao[y]
    BY <1>12, <2>1 DEF EnviarOrcamento, historia, TipoBanco
  <2>3. \A y \in Ordens : orcado'[y] # {} => itens'[y] = orcado'[y]
    BY <1>3, <2>1, <2>2
  <2>4. \A y \in aprovadas' : situacao'[y] \notin {"em_analise", "AWAITING_APPROVAL"}
    BY <1>4, <2>1, <2>2 DEF TipoBanco, Aprovando
  <2>5. \A y \in Ordens \ porWebhook' : situacao'[y] = "AWAITING_PARTS" =>
          y \in aprovadas' /\ orcado'[y] # {}
    BY <1>5, <2>1, <2>2
  <2>6. Aprovadas'
    BY <2>3, <2>4, <2>5 DEF Aprovadas
  <2>7. QED
    BY <1>1, <1>6, <2>2, <2>6 DEF OrdensCertas
<1>13. CASE AprovarGravar(s)
  <2>1. /\ pc[s] = "aprovar_gravar" /\ o \in Ordens /\ o \notin aprovadas /\ d.backlog = {}
        /\ situacao[o] = "AWAITING_APPROVAL"
    BY <1>2, <1>13 DEF AprovarGravar, ComOrdem, EmMao, Laco
  <2>2. /\ aprovadas' = aprovadas \cup {o} /\ UNCHANGED <<situacao, itens, orcado, porWebhook>>
        /\ pc'[s] = (IF orcado[o] = {} THEN "sem_pecas" ELSE "verificar") /\ e = d
    BY <1>13, <2>1, SegueFaz DEF AprovarGravar, historia
  <2>3. Certo
    BY <2>1, <2>2 DEF EmMao, Orcando, Aprovando, Laco
  <2>4. \A y \in Ordens : orcado'[y] # {} => itens'[y] = orcado'[y]
    BY <1>3, <2>1, <2>2
  <2>5. \A y \in aprovadas' : situacao'[y] \in {"em_analise", "AWAITING_APPROVAL"} =>
          pc'[s] \in Aprovando \cup {"sem_pecas"} /\ e.ordem = y
    BY <1>4, <2>1, <2>2 DEF Aprovando
  <2>6. \A y \in Ordens \ porWebhook' : situacao'[y] = "AWAITING_PARTS" =>
          y \in aprovadas' /\ orcado'[y] # {}
    BY <1>5, <2>1, <2>2
  <2>7. Aprovadas'
    BY <2>4, <2>5, <2>6 DEF Aprovadas
  <2>8. QED
    BY <1>1, <2>3, <2>7 DEF OrdensCertas
<1>14. CASE OsSemPecas(s) \/ PecasIndisponiveis(s) \/ PecasReservadas(s)
  <2>1. /\ pc[s] \in {"sem_pecas", "indisponiveis", "reservadas"} /\ o \in Ordens
        /\ UNCHANGED <<itens, orcado, aprovadas, porWebhook>>
        /\ situacao[o] \in {"AWAITING_APPROVAL", "AWAITING_PARTS"}
    BY <1>2, <1>14 DEF OsSemPecas, PecasIndisponiveis, PecasReservadas, ComOrdem, EmMao, Aprovando,
       historia
  <2>2. /\ situacao'[o] \in {"IN_PROGRESS", "AWAITING_PARTS"}
        /\ situacao'[o] = "AWAITING_PARTS" => o \in aprovadas /\ orcado[o] # {}
        /\ \A y \in Ordens : y # o => situacao'[y] = situacao[y]
    <3>1. CASE OsSemPecas(s)
      BY <1>2, <2>1, <3>1 DEF OsSemPecas, EmMao, TipoBanco
    <3>2. CASE PecasIndisponiveis(s)
      BY <1>2, <2>1, <3>2 DEF PecasIndisponiveis, EmMao, Aprovando, TipoBanco
    <3>3. CASE PecasReservadas(s)
      BY <2>1, <3>3 DEF PecasReservadas, TipoBanco
    <3>4. QED
      BY <1>14, <3>1, <3>2, <3>3
  <2>3. \A y \in Ordens : orcado'[y] # {} => itens'[y] = orcado'[y]
    BY <1>3, <2>1
  <2>4. \A y \in aprovadas' : situacao'[y] \notin {"em_analise", "AWAITING_APPROVAL"}
    BY <1>4, <2>1, <2>2 DEF TipoBanco
  <2>5. \A y \in Ordens \ porWebhook' : situacao'[y] = "AWAITING_PARTS" =>
          y \in aprovadas' /\ orcado'[y] # {}
    BY <1>5, <2>1, <2>2
  <2>6. Aprovadas'
    BY <2>3, <2>4, <2>5 DEF Aprovadas
  <2>7. CASE Termina(s)
    BY <1>1, <1>6, <2>6, <2>7 DEF OrdensCertas
  <2>8. CASE ProximaOrdem(s, d.backlog)
    <3>1. \A b \in d.backlog : b[2] = itens[b[1]] /\ situacao'[b[1]] = "AWAITING_PARTS"
      BY <1>2, <2>2
    <3>2. Certo
      BY <1>2, <2>8, <3>1, EmMaoProxima
    <3>3. QED
      BY <1>1, <2>6, <3>2 DEF OrdensCertas
  <2>9. QED
    BY <1>14, <2>7, <2>8 DEF OsSemPecas, PecasIndisponiveis, PecasReservadas
<1>15. QED
  BY <1>8, <1>9, <1>10, <1>11, <1>12, <1>13, <1>14

LEMMA OrdensPorPasso ==
  ASSUME TypeOK, SessoesCarregam, ChavesPresentes, Cobertura, UmaDeCadaVez, ~ ComFalhas,
         OrdensCertas, Next
  PROVE  OrdensCertas'
<1>1. PICK s \in Sessoes : Requisicao(s) \/ Avancar(s)
  BY DEF Next, Interromper
<1>2. CASE Requisicao(s)
  BY <1>2, OrdemNasLeituras, OrdemNasEscritas DEF Requisicao
<1>3. CASE Avancar(s)
  BY <1>3, OrdemNasLeituras, OrdemNasEscritas DEF Avancar
<1>4. QED
  BY <1>1, <1>2, <1>3

-----------------------------------------------------------------------------
(* The units debited for each order, when no request is cut short.         *)

\* The debit and the release are elsewhere, and the order moves among the
\* statuses for which nothing is debited, or its budget has no parts.
LEMMA DebitoFora ==
  ASSUME UmaDeCadaVez, DebitoEmCurso, NEW s \in Sessoes,
         UNCHANGED debitos, porWebhook \subseteq porWebhook',
         pc[s] \notin Debitando, pc'[s] \notin Debitando,
         \A o \in Ordens \ porWebhook' :
           /\ situacao'[o] \in {"em_analise", "AWAITING_APPROVAL", "AWAITING_PARTS"} =>
                situacao[o] \in {"em_analise", "AWAITING_APPROVAL", "AWAITING_PARTS"}
           /\ situacao'[o] = "IN_PROGRESS" =>
                \/ situacao[o] = "IN_PROGRESS" /\ orcado'[o] = orcado[o]
                \/ /\ situacao[o] \in {"em_analise", "AWAITING_APPROVAL", "AWAITING_PARTS"}
                   /\ orcado'[o] = {}
  PROVE  DebitoEmCurso'
BY Sozinha DEF DebitoEmCurso

\* The debit or the release goes on, to the same extent or by an item.
LEMMA DebitoDentro ==
  ASSUME UmaDeCadaVez, DebitoEmCurso, NEW s \in Sessoes,
         UNCHANGED <<debitos, situacao, orcado, porWebhook>>,
         pc[s] \in Debitando, pc'[s] \in Debitando,
         dados'[s].ordem = dados[s].ordem,
         Feitos(pc'[s], dados'[s]) = Feitos(pc[s], dados[s])
  PROVE  DebitoEmCurso'
BY Sozinha DEF DebitoEmCurso

LEMMA DebitoDeUmItem ==
  ASSUME TypeOK, SessoesCarregam, UmaDeCadaVez, DebitoEmCurso, NEW s \in Sessoes,
         pc[s] \in {"debitar_gravar", "liberar_gravar"}, Debita(s), UNCHANGED ordem,
         pc'[s] \in Debitando, dados'[s].ordem = dados[s].ordem,
         Feitos(pc'[s], dados'[s]) = Feitos(pc[s], dados[s]) \cup {dados[s].item}
  PROVE  DebitoEmCurso'
<1> DEFINE o == dados[s].ordem
           i == dados[s].item
           F == Feitos(pc[s], dados[s])
<1>1. /\ o \in Ordens /\ dados[s].lista \in Listas /\ i \in dados[s].fila /\ i \in dados[s].lista
      /\ i[1] \in Pecas /\ i[2] \in Nat
  BY SessaoCarrega DEF ComOrdem, ComItem
<1>2. debitos' = [debitos EXCEPT ![o][i[1]] = @ + i[2]] /\ UNCHANGED porWebhook
  BY DEF Debita
<1>3. \A x \in Ordens, p \in Pecas :
        debitos'[x][p] = IF x = o /\ p = i[1] THEN debitos[x][p] + i[2] ELSE debitos[x][p]
  BY <1>1, <1>2 DEF TypeOK, TipoHistoria
<1>4. pc[s] \in Debitando
  BY DEF Debitando
<1>5. \A j \in F : j[1] \in Pecas /\ j[1] # i[1]
  <2>1. \A j \in F : j \in dados[s].lista /\ j # i
    BY <1>1 DEF Feitos
  <2>2. QED
    BY <1>1, <2>1, Parametros, ItensDeLista DEF Unica
<1>6. ASSUME o \notin porWebhook
      PROVE  Debitado(o, F \cup {i}, debitos')
  <2>1. Debitado(o, F, debitos)
    BY <1>1, <1>4, <1>6 DEF DebitoEmCurso
  <2>2. debitos[o][i[1]] = 0
    BY <1>1, <1>5, <2>1 DEF Debitado
  <2>3. debitos'[o][i[1]] = i[2]
    BY <1>1, <1>3, <2>2
  <2>4. \A j \in F : debitos'[o][j[1]] = j[2]
    BY <1>1, <1>3, <1>5, <2>1 DEF Debitado
  <2>5. ASSUME NEW p \in Pecas, \A j \in F \cup {i} : j[1] # p
        PROVE  debitos'[o][p] = 0
    BY <1>1, <1>3, <2>1, <2>5 DEF Debitado
  <2>6. QED
    BY <2>3, <2>4, <2>5 DEF Debitado
<1>7. \A x \in Ordens : \A l : x # o /\ (\A j \in l : j[1] \in Pecas) =>
        (Debitado(x, l, debitos) <=> Debitado(x, l, debitos'))
  BY <1>3 DEF Debitado
<1>8. \A x \in Ordens : \A j \in orcado[x] : j[1] \in Pecas
  BY ItensDeLista DEF TypeOK, TipoBanco
<1>9. ASSUME NEW x \in Ordens \ porWebhook', x # o
      PROVE  /\ situacao[x] \in {"em_analise", "AWAITING_APPROVAL", "AWAITING_PARTS"} =>
                  Debitado(x, {}, debitos')
             /\ situacao[x] = "IN_PROGRESS" => Debitado(x, orcado[x], debitos')
  <2>1. x \in Ordens \ porWebhook /\ \A t \in Sessoes : dados[t].ordem # x
    BY <1>2, <1>9, Sozinha
  <2>2. QED
    BY <1>7, <1>8, <1>9, <2>1 DEF DebitoEmCurso
<1>10. QED
  BY <1>2, <1>6, <1>9, Sozinha DEF DebitoEmCurso, ordem

LEMMA DebitoPorPasso ==
  ASSUME TypeOK, SessoesCarregam, ChavesPresentes, Cobertura, UmaDeCadaVez, ~ ComFalhas,
         OrdensCertas, DebitoEmCurso, Next
  PROVE  DebitoEmCurso'
<1> USE DEF TypeOK
<1>1. PICK s \in Sessoes : Requisicao(s) \/ Avancar(s)
  BY DEF Next, Interromper
<1> DEFINE d == dados[s]
           e == dados'[s]
           o == dados[s].ordem
<1>2. /\ EmMao(pc[s], d, situacao, itens, orcado, aprovadas) /\ Aprovadas
      /\ Cobre(pc[s], d, itens, estoque, reservas)
      /\ Carrega(pc[s], d, pedidos, debitos, creditos)
      /\ d.backlog \in SUBSET (Ordens \X Listas) /\ d.fila \subseteq d.lista
      /\ pc[s] \in ComOrdem => o \in Ordens /\ d.lista \in Listas
  BY SessaoCarrega DEF OrdensCertas, OrdemEmMao, Cobertura
<1>3. ASSUME ProximaOrdem(s, d.backlog) \/ Termina(s)
      PROVE  pc'[s] \notin Debitando
  BY <1>2, <1>3, ProximaOrdemFaz, TerminaFaz DEF Debitando
<1>4. ASSUME UNCHANGED <<ordem, porWebhook, debitos>>, pc[s] \notin Debitando, pc'[s] \notin Debitando
      PROVE  DebitoEmCurso'
  <2>1. UNCHANGED <<situacao, orcado>>
    BY <1>4 DEF ordem
  <2>2. QED
    BY <1>4, <2>1, DebitoFora
<1>5. CASE Requisicao(s)
  <2>1. ASSUME NEW x \in Ordens, NEW st \in Situacao, MoverOrdem(s, x, st)
        PROVE  DebitoEmCurso'
    <3>1. /\ pc[s] = "livre" /\ UNCHANGED <<pc, dados, orcado, debitos>>
          /\ <<situacao[x], st>> \in Movimentos \cup MovimentosWebhook
          /\ porWebhook' = IF <<situacao[x], st>> \in MovimentosWebhook
                           THEN porWebhook \cup {x} ELSE porWebhook
          /\ \A y \in Ordens : situacao'[y] = IF y = x THEN st ELSE situacao[y]
      BY <2>1 DEF MoverOrdem, DeUmaVez, TipoBanco
    <3>2. x \notin porWebhook' => <<situacao[x], st>> \in Movimentos
      BY <3>1
    <3>3. \A y \in Ordens \ porWebhook' :
            /\ situacao'[y] \in {"em_analise", "AWAITING_APPROVAL", "AWAITING_PARTS"} =>
                 situacao[y] \in {"em_analise", "AWAITING_APPROVAL", "AWAITING_PARTS"}
            /\ situacao'[y] = "IN_PROGRESS" => situacao[y] = "IN_PROGRESS"
      BY <3>1, <3>2 DEF Movimentos
    <3>4. pc[s] \notin Debitando /\ pc'[s] \notin Debitando
      BY <3>1 DEF Debitando
    <3>5. QED
      BY <3>1, <3>3, <3>4, DebitoFora
  <2>2. ASSUME NEW x \in Ordens, DeletarOrdem(s, x)
        PROVE  DebitoEmCurso'
    <3>1. /\ pc[s] = "livre" /\ UNCHANGED <<pc, dados, debitos, porWebhook>>
          /\ situacao'[x] = "removida"
          /\ \A y \in Ordens : y # x => situacao'[y] = situacao[y] /\ orcado'[y] = orcado[y]
      BY <2>2 DEF DeletarOrdem, DeUmaVez, historia, TipoBanco
    <3>2. pc[s] \notin Debitando /\ pc'[s] \notin Debitando
      BY <3>1 DEF Debitando
    <3>3. QED
      BY <3>1, <3>2, DebitoFora
  <2>3. CASE \/ \E x \in Ordens, l \in Listas : ListarServicosInsumos(s, x, l)
             \/ \E x \in Ordens : AprovarOrcamento(s, x)
             \/ \E x \in Pedidos : ReceberPecasDoFornecedor(s, x)
    <3>1. /\ pc[s] = "livre" /\ UNCHANGED <<ordem, porWebhook, debitos>>
          /\ pc'[s] \in {"orcar_ler", "listar_gravar", "aprovar_gravar", "receber_ler"}
      BY <2>3 DEF ListarServicosInsumos, AprovarOrcamento, ReceberPecasDoFornecedor, Comeca,
         TipoSessao, SoLeitura, historia
    <3>2. QED
      BY <1>4, <3>1 DEF Debitando
  <2>4. CASE \/ \E p \in Pecas, q \in Ajustes :
                  CreatePecaInsumo(s, p, q) \/ UpdateEstoquePecaInsumo(s, p, q)
             \/ \E p \in Pecas : DeletePecaInsumo(s, p)
             \/ \E x \in Pedidos, l \in Encomendas : SolicitarPecasAoFornecedor(s, x, l)
    <3>1. pc[s] = "livre" /\ UNCHANGED <<pc, ordem, porWebhook, debitos>>
      BY <2>4 DEF CreatePecaInsumo, UpdateEstoquePecaInsumo, DeletePecaInsumo,
         SolicitarPecasAoFornecedor, DeUmaVez, historia
    <3>2. QED
      BY <1>4, <3>1 DEF Debitando
  <2>5. QED
    BY <1>5, <2>1, <2>2, <2>3, <2>4 DEF Requisicao
<1>6. CASE \/ OrcarLer(s) \/ ReceberLer(s) \/ ReceberGravar(s) \/ ReceberSalvar(s)
           \/ ValidarBacklog(s) \/ ValidarLer(s)
  <2>1. pc[s] \notin Debitando /\ UNCHANGED <<ordem, porWebhook, debitos>>
    BY <1>6 DEF OrcarLer, ReceberLer, ReceberGravar, ReceberSalvar, ValidarBacklog, ValidarLer,
       SoLeitura, historia, Debitando
  <2>2. pc'[s] \notin Debitando
    <3>1. CASE OrcarLer(s) \/ ReceberLer(s) \/ ReceberGravar(s) \/ ReceberSalvar(s)
      BY <3>1, SegueFaz, TerminaFaz, LePecaFaz, ProximoItemFaz
         DEF OrcarLer, ReceberLer, ReceberGravar, ReceberSalvar, Debitando
    <3>2. CASE ValidarBacklog(s)
      <4>1. {<<x, itens[x]>> : x \in {y \in Ordens : situacao[y] = "AWAITING_PARTS"}}
              \in SUBSET (Ordens \X Listas)
        BY DEF TipoBanco
      <4>2. QED
        BY <3>2, <4>1, ProximaOrdemFaz DEF ValidarBacklog, Debitando
    <3>3. CASE ValidarLer(s)
      BY <1>3, <3>3, ValidarLerFaz DEF ValidarLer, Debitando
    <3>4. QED
      BY <1>6, <3>1, <3>2, <3>3
  <2>3. QED
    BY <1>4, <2>1, <2>2
<1>7. CASE ListarGravar(s) \/ OrcarGravar(s) \/ EnviarOrcamento(s) \/ AprovarGravar(s)
  <2>1. pc[s] \in Orcando \cup {"aprovar_gravar"} /\ o \in Ordens
    BY <1>2, <1>7 DEF ListarGravar, OrcarGravar, EnviarOrcamento, AprovarGravar, Orcando, ComOrdem
  <2>2. situacao[o] \in {"em_analise", "AWAITING_APPROVAL"}
    BY <1>2, <2>1 DEF EmMao
  <2>3. /\ UNCHANGED <<debitos, porWebhook>>
        /\ \A y \in Ordens : y # o => situacao'[y] = situacao[y] /\ orcado'[y] = orcado[y]
        /\ situacao'[o] \in {"em_analise", "AWAITING_APPROVAL"}
    BY <1>7, <2>1, <2>2 DEF ListarGravar, OrcarGravar, EnviarOrcamento, AprovarGravar, TipoBanco,
       SoLeitura, ordem, historia
  <2>4. pc[s] \notin Debitando /\ pc'[s] \notin Debitando
    BY <1>7, SegueFaz, TerminaFaz DEF ListarGravar, OrcarGravar, EnviarOrcamento, AprovarGravar,
       Debitando
  <2>5. QED
    BY <2>2, <2>3, <2>4, DebitoFora
<1>8. CASE OsSemPecas(s) \/ PecasIndisponiveis(s)
  <2>1. /\ pc[s] \in {"sem_pecas", "indisponiveis"} /\ o \in Ordens /\ Termina(s)
        /\ UNCHANGED <<debitos, porWebhook, orcado>>
        /\ \A y \in Ordens : y # o => situacao'[y] = situacao[y]
    BY <1>2, <1>8 DEF OsSemPecas, PecasIndisponiveis, ComOrdem, historia, TipoBanco
  <2>2. /\ situacao[o] = "AWAITING_APPROVAL"
        /\ situacao'[o] = "IN_PROGRESS" => orcado[o] = {}
    BY <1>2, <1>8, <2>1 DEF OsSemPecas, PecasIndisponiveis, EmMao, Aprovando, TipoBanco
  <2>3. pc[s] \notin Debitando /\ pc'[s] \notin Debitando
    BY <1>3, <2>1 DEF Debitando
  <2>4. QED
    BY <2>1, <2>2, <2>3, DebitoFora
<1>9. CASE Verificar(s) \/ LiberarExiste(s)
  <2>1. /\ pc[s] \in {"verificar", "liberar_existe"} /\ o \in Ordens /\ pc[s] \notin Debitando
        /\ UNCHANGED <<ordem, situacao, orcado, porWebhook, debitos>>
        /\ situacao[o] \in {"AWAITING_APPROVAL", "AWAITING_PARTS"}
    BY <1>2, <1>9 DEF Verificar, LiberarExiste, SoLeitura, ordem, historia, ComOrdem, Debitando,
       EmMao, Aprovando, Laco
  <2>2. CASE pc'[s] \notin Debitando
    BY <1>4, <2>1, <2>2
  <2>3. ASSUME NEW l, NEW r \in {"debitar_ler", "liberar_ler"}, Percorre(s, l, r, "reservadas")
        PROVE  DebitoEmCurso'
    <3>1. /\ pc'[s] \in {"debitar_ler", "liberar_ler", "reservadas"} /\ e.ordem = o
          /\ e.lista = l /\ e.fila = l
      BY <2>3, PercorreFaz
    <3>2. pc'[s] \in Debitando /\ Feitos(pc'[s], e) = {}
      BY <3>1 DEF Debitando, Feitos
    <3>3. QED
      BY <2>1, <3>1, <3>2, Sozinha DEF DebitoEmCurso
  <2>4. QED
    BY <1>3, <1>9, <2>2, <2>3, SegueFaz DEF Verificar, LiberarExiste, Debitando
<1>10. CASE DebitarLer(s) \/ LiberarLer(s)
  <2>1. pc[s] \in {"debitar_ler", "liberar_ler"} /\ UNCHANGED <<debitos, situacao, orcado, porWebhook>>
    BY <1>10 DEF DebitarLer, LiberarLer, SoLeitura, ordem, historia
  <2>2. PICK i \in d.fila, r \in {"debitar_gravar", "liberar_gravar"} : LePeca(s, i, r)
    BY <1>10, SemDesvio DEF DebitarLer, LiberarLer
  <2>3. /\ pc'[s] \in {"debitar_gravar", "liberar_gravar"} /\ e.ordem = o
        /\ e.lista = d.lista /\ e.fila = d.fila
    BY <2>2, LePecaFaz
  <2>4. /\ pc[s] \in Debitando /\ pc'[s] \in Debitando
        /\ Feitos(pc'[s], e) = Feitos(pc[s], d)
    BY <2>1, <2>3 DEF Debitando, Feitos
  <2>5. QED
    BY <2>1, <2>3, <2>4, DebitoDentro
<1>11. CASE DebitarGravar(s) \/ LiberarGravar(s)
  <2>1. /\ pc[s] \in {"debitar_gravar", "liberar_gravar"} /\ Debita(s) /\ UNCHANGED ordem
        /\ \/ ProximoItem(s, "debitar_ler", "reservadas") /\ pc[s] = "debitar_gravar"
           \/ Segue(s, "liberar_reserva") /\ pc[s] = "liberar_gravar"
    BY <1>11, SemDesvio DEF DebitarGravar, LiberarGravar
  <2>2. /\ e.ordem = o /\ e.lista = d.lista
        /\ \/ pc'[s] \in {"debitar_ler", "reservadas"} /\ e.fila = d.fila \ {d.item}
           \/ pc'[s] = "liberar_reserva" /\ e = d
    BY <2>1, ProximoItemFaz, SegueFaz
  <2>3. d.item \in d.fila /\ d.fila \subseteq d.lista
    BY <2>1, SessaoCarrega DEF ComItem
  <2>4. Feitos(pc'[s], e) = Feitos(pc[s], d) \cup {d.item} /\ pc'[s] \in Debitando
    BY <2>1, <2>2, <2>3 DEF Feitos, Debitando
  <2>5. QED
    BY <2>1, <2>2, <2>4, DebitoDeUmItem
<1>12. CASE LiberarReserva(s)
  <2>1. /\ pc[s] = "liberar_reserva" /\ ProximoItem(s, "liberar_ler", "reservadas")
        /\ UNCHANGED <<debitos, situacao, orcado, porWebhook>>
    BY <1>12, SemDesvio DEF LiberarReserva, ordem, historia
  <2>2. /\ pc'[s] \in {"liberar_ler", "reservadas"} /\ e.ordem = o
        /\ e.lista = d.lista /\ e.fila = d.fila \ {d.item}
    BY <2>1, ProximoItemFaz
  <2>3. /\ pc[s] \in Debitando /\ pc'[s] \in Debitando
        /\ Feitos(pc'[s], e) = Feitos(pc[s], d)
    BY <2>1, <2>2 DEF Debitando, Feitos
  <2>4. QED
    BY <2>1, <2>2, <2>3, DebitoDentro
<1>13. CASE PecasReservadas(s)
  <2>1. /\ pc[s] = "reservadas" /\ o \in Ordens /\ UNCHANGED <<debitos, porWebhook, orcado>>
        /\ \A y \in Ordens : y # o => situacao'[y] = situacao[y]
    BY <1>2, <1>13 DEF PecasReservadas, ComOrdem, historia, TipoBanco
  <2>2. situacao'[o] = "IN_PROGRESS"
    BY <1>2, <1>13, <2>1 DEF PecasReservadas, EmMao, TipoBanco
  <2>3. pc'[s] \notin Debitando /\ pc[s] \in Debitando
    BY <1>3, <1>13, <2>1 DEF PecasReservadas, Debitando
  <2>4. Feitos(pc[s], d) = itens[o]
    BY <1>2, <2>1 DEF Carrega, Cobre, Feitos, Debitando
  <2>5. o \notin porWebhook => itens[o] = orcado[o]
    BY <1>2, <2>1, Sozinha DEF EmMao, Aprovadas
  <2>6. o \notin porWebhook => Debitado(o, orcado[o], debitos)
    BY <2>1, <2>3, <2>4, <2>5 DEF DebitoEmCurso
  <2>7. ASSUME NEW y \in Ordens \ porWebhook, y # o
        PROVE  /\ situacao[y] \in {"em_analise", "AWAITING_APPROVAL", "AWAITING_PARTS"} =>
                    Debitado(y, {}, debitos)
               /\ situacao[y] = "IN_PROGRESS" => Debitado(y, orcado[y], debitos)
    <3>1. \A t \in Sessoes : dados[t].ordem # y
      BY <2>7, Sozinha
    <3>2. QED
      BY <2>7, <3>1 DEF DebitoEmCurso
  <2>8. QED
    BY <2>1, <2>2, <2>3, <2>6, <2>7, Sozinha DEF DebitoEmCurso
<1>14. QED
  BY <1>1, <1>5, <1>6, <1>7, <1>8, <1>9, <1>10, <1>11, <1>12, <1>13 DEF Avancar

-----------------------------------------------------------------------------
(* The orders that wait, when no request is cut short.                     *)

LEMMA ReservasPositivasPorPasso ==
  ASSUME TypeOK, SessoesCarregam, ReservasPositivas, Next
  PROVE  ReservasPositivas'
<1> SUFFICES ASSUME NEW r \in reservas'
             PROVE  r[3] > 0
  BY DEF ReservasPositivas
<1>1. ASSUME NEW s \in Sessoes, pc[s] = "liberar_reserva",
             r = <<dados[s].ordem, dados[s].item[1], dados[s].item[2]>>
      PROVE  r[3] > 0
  BY <1>1, SessaoCarrega DEF ComItem
<1>2. QED
  BY <1>1, ReservasNovas DEF ReservasPositivas

\* Nothing is reserved for an order that waits and was not debited.
LEMMA SemReserva ==
  ASSUME TypeOK, ReservaLastreada, ReservasPositivas, DebitoEmCurso,
         NEW o \in Ordens \ porWebhook, situacao[o] = "AWAITING_PARTS",
         \A s \in Sessoes : pc[s] \in Debitando => dados[s].ordem # o
  PROVE  ~ \E r \in reservas : r[1] = o
<1> SUFFICES ASSUME NEW r \in reservas, r[1] = o
             PROVE  FALSE
  OBVIOUS
<1>1. r[2] \in Pecas /\ r[3] \in Nat /\ r[3] > 0 /\ debitos[o][r[2]] >= r[3]
  BY DEF TypeOK, TipoBanco, ReservaLastreada, ReservasPositivas
<1>2. debitos[o][r[2]] = 0
  BY <1>1 DEF DebitoEmCurso, Debitado
<1>3. QED
  BY <1>1, <1>2

\* A shortage lasts while stock comes only by hand or from a receipt under way.
FaltaDura ==
  /\ \A p \in Pecas : cadastro[p] = "cadastrada" =>
       estoque'[p] <= estoque[p] \/ p \in ajustadas' \cup Pendentes'
  /\ ajustadas \subseteq ajustadas' /\ Pendentes \subseteq Pendentes'

LEMMA FaltaDepois ==
  ASSUME TypeOK, TypeOK', ChavesPresentes, FaltaDura, NEW o \in Ordens, Falta(o), itens'[o] = itens[o]
  PROVE  Falta(o)'
<1>1. PICK i \in itens[o] : estoque[i[1]] < i[2] \/ i[1] \in ajustadas \cup Pendentes
  BY DEF Falta
<1>2. i[1] \in Pecas /\ i[2] \in Nat /\ cadastro[i[1]] = "cadastrada"
  BY ItensDeLista DEF TypeOK, TipoBanco, ChavesPresentes, Cadastradas
<1>3. estoque[i[1]] \in Nat /\ estoque'[i[1]] \in Nat
  BY <1>2 DEF TypeOK, TipoBanco
<1>4. estoque'[i[1]] < i[2] \/ i[1] \in ajustadas' \cup Pendentes'
  BY <1>1, <1>2, <1>3 DEF FaltaDura
<1>5. QED
  BY <1>4 DEF Falta

\* Where an order is looked at next.
Vista(s, o) ==
  \/ pc[s] = "backlog"
  \/ pc[s] \in Laco /\ (dados[s].ordem = o \/ \E b \in dados[s].backlog : b[1] = o)

LEMMA EsperaPorFalta ==
  ASSUME TypeOK, TypeOK', ChavesPresentes, UmaDeCadaVez, EsperaEmCurso, FaltaDura,
         NEW s \in Sessoes, pc'[s] # "indisponiveis",
         \A o \in Ordens \ porWebhook' : situacao'[o] = "AWAITING_PARTS" =>
           \/ Vista(s, o)'
           \/ Falta(o) /\ itens'[o] = itens[o]
           \/ /\ o \notin porWebhook /\ situacao[o] = "AWAITING_PARTS" /\ itens'[o] = itens[o]
              /\ ~ Vista(s, o)
  PROVE  EsperaEmCurso'
<1>1. ASSUME NEW o \in Ordens \ porWebhook', situacao'[o] = "AWAITING_PARTS", ~ Vista(s, o)'
      PROVE  Falta(o)'
  <2>1. Falta(o) /\ itens'[o] = itens[o]
    BY <1>1 DEF EsperaEmCurso, Vista
  <2>2. QED
    BY <2>1, FaltaDepois
<1>2. QED
  BY <1>1, Sozinha DEF EsperaEmCurso, Vista

\* The orders of the backlog are looked at next.
LEMMA VistaProxima ==
  ASSUME TypeOK, NEW s \in Sessoes, NEW B \in SUBSET (Ordens \X Listas), ProximaOrdem(s, B),
         NEW b \in B
  PROVE  Vista(s, b[1])'
<1>1. PICK c \in B : /\ pc'[s] = IF c[2] = {} THEN "liberar_existe" ELSE "validar_ler"
                     /\ dados'[s].ordem = c[1] /\ dados'[s].backlog = B \ {c}
  BY ProximaOrdemFaz DEF TypeOK
<1>2. pc'[s] \in Laco
  BY <1>1 DEF Laco
<1>3. QED
  BY <1>1, <1>2 DEF Vista

\* A call that reads, or writes the orders, leaves the shortages alone.
LEMMA FaltaParada ==
  ASSUME TypeOK, UNCHANGED <<estoque, pedidos, creditos, ajustadas>>
  PROVE  FaltaDura
<1>1. Pendentes' = Pendentes
  BY DEF Pendentes
<1>2. QED
  BY <1>1 DEF FaltaDura, TypeOK, TipoBanco

LEMMA EsperaPorPasso ==
  ASSUME TypeOK, TypeOK', SessoesCarregam, ReservaLastreada, ReservasPositivas,
         ChavesPresentes, Saldo, Cobertura, UmaDeCadaVez, ~ ComFalhas,
         RecebimentoEmCurso, OrdensCertas, DebitoEmCurso, EsperaEmCurso, Next
  PROVE  EsperaEmCurso'
<1> USE DEF TypeOK
<1>1. PICK s \in Sessoes : Requisicao(s) \/ Avancar(s)
  BY DEF Next, Interromper
<1> DEFINE d == dados[s]
           e == dados'[s]
           o == dados[s].ordem
<1>2. /\ EmMao(pc[s], d, situacao, itens, orcado, aprovadas)
      /\ Cobre(pc[s], d, itens, estoque, reservas)
      /\ d.backlog \in SUBSET (Ordens \X Listas) /\ d.fila \subseteq d.lista
      /\ pc[s] \in ComOrdem => o \in Ordens /\ d.lista \in Listas
  BY SessaoCarrega DEF OrdensCertas, OrdemEmMao, Cobertura
\* Outside the backlog and its loop, the orders that wait are those that did.
<1>3. ASSUME FaltaDura, pc[s] \notin Laco \cup {"backlog"}, pc'[s] # "indisponiveis",
             \A x \in Ordens \ porWebhook' : situacao'[x] = "AWAITING_PARTS" =>
               /\ x \notin porWebhook /\ situacao[x] = "AWAITING_PARTS" /\ itens'[x] = itens[x]
      PROVE  EsperaEmCurso'
  BY <1>3, EsperaPorFalta DEF Vista
\* In the loop, with the same order in hand.
<1>4. ASSUME FaltaDura, UNCHANGED <<situacao, itens, porWebhook>>, pc[s] \in Laco, pc'[s] \in Laco,
             e.ordem = o, e.backlog = d.backlog
      PROVE  EsperaEmCurso'
  <2>1. pc'[s] # "indisponiveis" /\ \A x : Vista(s, x) => Vista(s, x)'
    BY <1>4 DEF Vista, Laco
  <2>2. QED
    BY <1>4, <2>1, EsperaPorFalta
\* In the loop, from one order to the next.
<1>5. ASSUME FaltaDura, pc[s] \in Laco, ProximaOrdem(s, d.backlog), UNCHANGED <<itens, porWebhook>>,
             \A x \in Ordens : x # o => situacao'[x] = situacao[x],
             o \in Ordens \ porWebhook /\ situacao'[o] = "AWAITING_PARTS" => Falta(o)
      PROVE  EsperaEmCurso'
  <2>1. \A b \in d.backlog : Vista(s, b[1])'
    BY <1>2, <1>5, VistaProxima
  <2>2. pc'[s] # "indisponiveis"
    BY <1>2, <1>5, ProximaOrdemFaz
  <2>3. pc[s] # "backlog"
    BY <1>5 DEF Laco
  <2>4. \A x : Vista(s, x) => x = o \/ \E b \in d.backlog : b[1] = x
    BY <2>3 DEF Vista
  <2>5. QED
    BY <1>5, <2>1, <2>2, <2>4, EsperaPorFalta
<1>6. CASE Requisicao(s)
  <2>1. ASSUME NEW p \in Pecas, NEW q \in Ajustes, CreatePecaInsumo(s, p, q)
        PROVE  EsperaEmCurso'
    <3>1. /\ cadastro[p] = "ausente" /\ estoque' = [estoque EXCEPT ![p] = q] /\ pc[s] = "livre"
          /\ UNCHANGED <<pc, situacao, itens, pedidos, creditos, ajustadas, porWebhook>>
      BY <2>1 DEF CreatePecaInsumo, DeUmaVez, ordem, historia
    <3>2. FaltaDura
      BY <3>1 DEF FaltaDura, Pendentes, TipoBanco
    <3>3. QED
      BY <1>3, <3>1, <3>2 DEF Laco
  <2>2. ASSUME NEW p \in Pecas, NEW q \in Ajustes, UpdateEstoquePecaInsumo(s, p, q)
        PROVE  EsperaEmCurso'
    <3>1. /\ estoque' = [estoque EXCEPT ![p] = q] /\ pc[s] = "livre" /\ q \in Nat
          /\ ajustadas' = (IF q > estoque[p] THEN ajustadas \cup {p} ELSE ajustadas)
          /\ UNCHANGED <<pc, situacao, itens, pedidos, creditos, porWebhook>>
      BY <2>2, Parametros DEF UpdateEstoquePecaInsumo, DeUmaVez, ordem, catalogo
    <3>2. ajustadas \subseteq ajustadas' /\ Pendentes' = Pendentes
      BY <3>1 DEF Pendentes
    <3>3. \A x \in Pecas : estoque[x] \in Nat /\ estoque'[x] = IF x = p THEN q ELSE estoque[x]
      BY <3>1 DEF TipoBanco
    <3>4. \A x \in Pecas : estoque'[x] <= estoque[x] \/ x \in ajustadas'
      BY <3>1, <3>3
    <3>5. FaltaDura
      BY <3>2, <3>4 DEF FaltaDura
    <3>6. QED
      BY <1>3, <3>1, <3>5 DEF Laco
  <2>3. ASSUME NEW p \in Pecas, DeletePecaInsumo(s, p)
        PROVE  EsperaEmCurso'
    <3>1. /\ estoque' = [estoque EXCEPT ![p] = 0] /\ pc[s] = "livre"
          /\ UNCHANGED <<pc, situacao, itens, pedidos, creditos, ajustadas, porWebhook>>
      BY <2>3 DEF DeletePecaInsumo, DeUmaVez, ordem, historia
    <3>2. FaltaDura
      BY <3>1 DEF FaltaDura, Pendentes, TipoBanco
    <3>3. QED
      BY <1>3, <3>1, <3>2 DEF Laco
  <2>4. ASSUME NEW x \in Pedidos, NEW l \in Encomendas, SolicitarPecasAoFornecedor(s, x, l)
        PROVE  EsperaEmCurso'
    <3>1. /\ pedidos[x].st = "ausente" /\ pc[s] = "livre"
          /\ \A y \in Pedidos : y # x => pedidos'[y] = pedidos[y]
          /\ UNCHANGED <<pc, situacao, itens, estoque, creditos, ajustadas, porWebhook>>
      BY <2>4 DEF SolicitarPecasAoFornecedor, DeUmaVez, ordem, historia, TipoBanco
    <3>2. Pendentes \subseteq Pendentes'
      BY <3>1 DEF Pendentes
    <3>3. FaltaDura
      BY <3>1, <3>2 DEF FaltaDura, TipoBanco
    <3>4. QED
      BY <1>3, <3>1, <3>3 DEF Laco
  <2>5. ASSUME NEW x \in Ordens, NEW st \in Situacao, MoverOrdem(s, x, st)
        PROVE  EsperaEmCurso'
    <3>1. /\ pc[s] = "livre" /\ UNCHANGED <<pc, itens, estoque, pedidos, creditos, ajustadas>>
          /\ <<situacao[x], st>> \in Movimentos \cup MovimentosWebhook
          /\ porWebhook' = IF <<situacao[x], st>> \in MovimentosWebhook
                           THEN porWebhook \cup {x} ELSE porWebhook
          /\ \A y \in Ordens : situacao'[y] = IF y = x THEN st ELSE situacao[y]
      BY <2>5 DEF MoverOrdem, DeUmaVez, TipoBanco, catalogo
    <3>2. st = "AWAITING_PARTS" => x \in porWebhook'
      BY <3>1 DEF Movimentos, MovimentosWebhook
    <3>3. FaltaDura
      BY <3>1, FaltaParada
    <3>4. QED
      BY <1>3, <3>1, <3>2, <3>3 DEF Laco
  <2>6. ASSUME NEW x \in Ordens, DeletarOrdem(s, x)
        PROVE  EsperaEmCurso'
    <3>1. /\ pc[s] = "livre" /\ UNCHANGED <<pc, estoque, pedidos, creditos, ajustadas, porWebhook>>
          /\ situacao'[x] = "removida"
          /\ \A y \in Ordens : y # x => situacao'[y] = situacao[y] /\ itens'[y] = itens[y]
      BY <2>6 DEF DeletarOrdem, DeUmaVez, TipoBanco, catalogo, historia
    <3>2. FaltaDura
      BY <3>1, FaltaParada
    <3>3. QED
      BY <1>3, <3>1, <3>2 DEF Laco
  <2>7. CASE \/ \E x \in Ordens, l \in Listas : ListarServicosInsumos(s, x, l)
             \/ \E x \in Ordens : AprovarOrcamento(s, x)
             \/ \E x \in Pedidos : ReceberPecasDoFornecedor(s, x)
    <3>1. /\ pc[s] = "livre" /\ pc'[s] \in {"orcar_ler", "listar_gravar", "aprovar_gravar", "receber_ler"}
          /\ UNCHANGED <<situacao, itens, estoque, pedidos, creditos, ajustadas, porWebhook>>
      BY <2>7 DEF ListarServicosInsumos, AprovarOrcamento, ReceberPecasDoFornecedor, Comeca,
         TipoSessao, SoLeitura, ordem, catalogo, historia
    <3>2. FaltaDura
      BY <3>1, FaltaParada
    <3>3. QED
      BY <1>3, <3>1, <3>2 DEF Laco
  <2>8. QED
    BY <1>6, <2>1, <2>2, <2>3, <2>4, <2>5, <2>6, <2>7 DEF Requisicao
<1>7. CASE ListarGravar(s) \/ OrcarLer(s) \/ OrcarGravar(s) \/ EnviarOrcamento(s) \/ AprovarGravar(s)
           \/ OsSemPecas(s)
  <2>1. /\ pc[s] \in Orcando \cup {"aprovar_gravar", "sem_pecas"} /\ o \in Ordens
        /\ UNCHANGED <<estoque, pedidos, creditos, ajustadas, porWebhook>>
    BY <1>2, <1>7 DEF ListarGravar, OrcarLer, OrcarGravar, EnviarOrcamento, AprovarGravar, OsSemPecas,
       Orcando, ComOrdem, SoLeitura, ordem, catalogo, historia
  <2>2. pc'[s] # "indisponiveis"
    BY <1>7, SegueFaz, TerminaFaz DEF ListarGravar, OrcarLer, OrcarGravar, EnviarOrcamento,
       AprovarGravar, OsSemPecas
  <2>3. situacao[o] \in {"em_analise", "AWAITING_APPROVAL"}
    BY <1>2, <2>1 DEF EmMao
  <2>4. /\ situacao'[o] # "AWAITING_PARTS"
        /\ \A x \in Ordens : x # o => situacao'[x] = situacao[x] /\ itens'[x] = itens[x]
    BY <1>7, <2>1, <2>3 DEF ListarGravar, OrcarLer, OrcarGravar, EnviarOrcamento, AprovarGravar,
       OsSemPecas, SoLeitura, ordem, TipoBanco
  <2>5. QED
    BY <1>3, <2>1, <2>2, <2>4, FaltaParada DEF Orcando, Laco
<1>8. CASE Verificar(s)
  <2>1. /\ pc[s] = "verificar" /\ o \in Ordens
        /\ UNCHANGED <<situacao, itens, estoque, pedidos, creditos, ajustadas, porWebhook>>
    BY <1>2, <1>8 DEF Verificar, ComOrdem, SoLeitura, ordem, catalogo, historia
  <2>2. CASE Segue(s, "indisponiveis") /\ \E i \in itens[o] : estoque[i[1]] < i[2]
    <3>1. pc'[s] = "indisponiveis" /\ e = d
      BY <2>2, SegueFaz
    <3>2. \E i \in itens'[e.ordem] : estoque'[i[1]] < i[2]
      BY <2>1, <2>2, <3>1
    <3>3. \A x \in Ordens \ porWebhook' : situacao'[x] = "AWAITING_PARTS" => Falta(x)
      BY <2>1 DEF EsperaEmCurso, Laco
    <3>4. \A x \in Ordens \ porWebhook' : situacao'[x] = "AWAITING_PARTS" => Falta(x)'
      BY <2>1, <3>3, FaltaParada, FaltaDepois
    <3>5. QED
      BY <3>1, <3>2, <3>4, Sozinha DEF EsperaEmCurso
  <2>3. CASE Percorre(s, itens[o], "debitar_ler", "reservadas")
    <3>1. pc'[s] \in {"debitar_ler", "reservadas"}
      BY <2>3, PercorreFaz
    <3>2. QED
      BY <1>3, <2>1, <3>1, FaltaParada DEF Laco
  <2>4. QED
    BY <1>8, <2>2, <2>3 DEF Verificar
<1>9. CASE PecasIndisponiveis(s)
  <2>1. /\ pc[s] = "indisponiveis" /\ o \in Ordens /\ Termina(s)
        /\ UNCHANGED <<itens, estoque, pedidos, creditos, ajustadas, porWebhook>>
        /\ \A x \in Ordens : x # o => situacao'[x] = situacao[x]
    BY <1>2, <1>9 DEF PecasIndisponiveis, ComOrdem, catalogo, historia, TipoBanco
  <2>2. Falta(o) /\ pc'[s] # "indisponiveis"
    BY <2>1, TerminaFaz DEF EsperaEmCurso, Falta
  <2>3. \A x : ~ Vista(s, x)
    BY <2>1 DEF Vista, Laco
  <2>4. FaltaDura
    BY <2>1, FaltaParada
  <2>5. QED
    BY <2>1, <2>2, <2>3, <2>4, EsperaPorFalta
<1>10. CASE DebitarLer(s) \/ ReceberLer(s)
  <2>1. /\ pc[s] \in {"debitar_ler", "receber_ler"}
        /\ UNCHANGED <<situacao, itens, estoque, pedidos, creditos, ajustadas, porWebhook>>
        /\ pc'[s] # "indisponiveis"
    BY <1>10, TerminaFaz, LePecaFaz DEF DebitarLer, ReceberLer, SoLeitura, ordem, catalogo, historia
  <2>2. QED
    BY <1>3, <2>1, FaltaParada DEF Laco
<1>11. ASSUME Debita(s), pc[s] \in {"debitar_gravar", "liberar_gravar"}, UNCHANGED catalogo
       PROVE  FaltaDura
  <2>1. /\ d.lido = estoque[d.item[1]] /\ d.item[1] \in Pecas /\ d.item[2] \in Nat
        /\ estoque' = [estoque EXCEPT ![d.item[1]] = d.lido + (- d.item[2])]
        /\ UNCHANGED <<pedidos, creditos, ajustadas>>
    BY <1>11, SessaoCarrega DEF Saldo, LeituraFresca, Debita, Escreve, ComItem, catalogo
  <2>2. \A p \in Pecas : estoque[p] \in Nat /\ estoque'[p] <= estoque[p]
    BY <2>1 DEF TipoBanco
  <2>3. Pendentes' = Pendentes
    BY <2>1 DEF Pendentes
  <2>4. QED
    BY <2>1, <2>2, <2>3 DEF FaltaDura
<1>12. CASE DebitarGravar(s)
  <2>1. /\ pc[s] = "debitar_gravar" /\ Debita(s) /\ UNCHANGED <<ordem, catalogo>>
        /\ ProximoItem(s, "debitar_ler", "reservadas")
    BY <1>12, SemDesvio DEF DebitarGravar
  <2>2. /\ pc'[s] # "indisponiveis" /\ UNCHANGED <<situacao, itens, porWebhook>>
    BY <2>1, ProximoItemFaz DEF Debita, ordem
  <2>3. QED
    BY <1>3, <1>11, <2>1, <2>2 DEF Laco
<1>13. CASE ReceberGravar(s)
  <2> DEFINE x == d.pedido
             p == d.item[1]
  <2>1. /\ pc[s] = "receber_gravar" /\ x \in Pedidos /\ p \in Pecas /\ pedidos[x].st = "PENDENTE"
    BY <1>13, SessaoCarrega DEF ReceberGravar, ComItem, Carrega, Recebendo, RecebimentoEmCurso
  <2>2. /\ estoque' = [estoque EXCEPT ![p] = d.lido + d.item[2]]
        /\ creditos' = [creditos EXCEPT ![x][p] = @ + 1]
        /\ ProximoItem(s, "receber_ler", "receber_salvar")
        /\ UNCHANGED <<situacao, itens, pedidos, ajustadas, porWebhook>>
    BY <1>13 DEF ReceberGravar, Escreve, ordem, catalogo
  <2>3. \A y \in Pedidos, q \in Pecas : /\ creditos[y][q] \in Nat
                                        /\ creditos'[y][q] = IF y = x /\ q = p THEN creditos[y][q] + 1
                                                             ELSE creditos[y][q]
    BY <2>1, <2>2 DEF TipoHistoria
  <2>4. Pendentes \subseteq Pendentes' /\ p \in Pendentes'
    BY <2>1, <2>2, <2>3 DEF Pendentes
  <2>5. \A q \in Pecas : estoque[q] \in Nat /\ (q # p => estoque'[q] = estoque[q])
    BY <2>2 DEF TipoBanco
  <2>6. FaltaDura
    BY <2>2, <2>4, <2>5 DEF FaltaDura
  <2>7. pc'[s] # "indisponiveis"
    BY <2>2, ProximoItemFaz
  <2>8. QED
    BY <1>3, <2>1, <2>2, <2>6, <2>7 DEF Laco
<1>14. CASE ReceberSalvar(s)
  <2>1. pc'[s] = "backlog"
    BY <1>14, SegueFaz DEF ReceberSalvar
  <2>2. QED
    BY <2>1, Sozinha DEF EsperaEmCurso
<1>15. CASE ValidarBacklog(s)
  <2> DEFINE B == {<<x, itens[x]>> : x \in {y \in Ordens : situacao[y] = "AWAITING_PARTS"}}
  <2>1. B \in SUBSET (Ordens \X Listas) /\ ProximaOrdem(s, B) /\ UNCHANGED situacao
    BY <1>15 DEF ValidarBacklog, ordem, TipoBanco
  <2>2. \A x \in Ordens : situacao'[x] = "AWAITING_PARTS" => Vista(s, x)'
    <3> SUFFICES ASSUME NEW x \in Ordens, situacao[x] = "AWAITING_PARTS"
                 PROVE  Vista(s, x)'
      BY <2>1
    <3>1. <<x, itens[x]>> \in B /\ <<x, itens[x]>>[1] = x
      OBVIOUS
    <3> HIDE DEF B
    <3>2. QED
      BY <2>1, <3>1, VistaProxima
  <2>3. pc'[s] # "indisponiveis"
    BY <2>1, ProximaOrdemFaz
  <2>4. QED
    BY <2>2, <2>3, Sozinha DEF EsperaEmCurso, Vista
<1>16. CASE ValidarLer(s)
  <2>1. /\ pc[s] = "validar_ler" /\ pc[s] \in Laco /\ o \in Ordens
        /\ UNCHANGED <<situacao, itens, estoque, pedidos, creditos, ajustadas, porWebhook>>
    BY <1>2, <1>16 DEF ValidarLer, Laco, ComOrdem, SoLeitura, ordem, catalogo, historia
  <2>2. FaltaDura /\ d.lista = itens[o]
    BY <1>2, <2>1, FaltaParada DEF Cobre
  <2>3. ASSUME NEW i \in d.fila,
               pc' = [pc EXCEPT ![s] = IF d.fila = {i} THEN "liberar_existe" ELSE "validar_ler"],
               dados' = [dados EXCEPT ![s].fila = @ \ {i}]
        PROVE  EsperaEmCurso'
    <3>1. pc'[s] \in Laco /\ e.ordem = o /\ e.backlog = d.backlog
      BY <2>3, ValidarLerFaz DEF Laco
    <3>2. QED
      BY <1>4, <2>1, <2>2, <3>1
  <2>4. ASSUME NEW i \in d.fila, estoque[i[1]] < i[2], ProximaOrdem(s, d.backlog)
        PROVE  EsperaEmCurso'
    <3>1. Falta(o)
      BY <1>2, <2>2, <2>4 DEF Falta
    <3>2. QED
      BY <1>5, <2>1, <2>2, <2>4, <3>1
  <2>5. QED
    BY <1>16, <2>1, <2>3, <2>4, SemDesvio DEF ValidarLer
<1>17. CASE LiberarExiste(s)
  <2>1. /\ pc[s] = "liberar_existe" /\ pc[s] \in Laco /\ pc[s] \notin Debitando /\ o \in Ordens
        /\ UNCHANGED <<situacao, itens, estoque, pedidos, creditos, ajustadas, porWebhook>>
        /\ situacao[o] = "AWAITING_PARTS"
    BY <1>2, <1>17 DEF LiberarExiste, Laco, Debitando, ComOrdem, SoLeitura, ordem, catalogo, historia,
       EmMao
  <2>2. FaltaDura
    BY <2>1, FaltaParada
  <2>3. CASE Percorre(s, d.lista, "liberar_ler", "reservadas")
    <3>1. pc'[s] \in Laco /\ e.ordem = o /\ e.backlog = d.backlog
      BY <2>3, PercorreFaz DEF Laco
    <3>2. QED
      BY <1>4, <2>1, <2>2, <3>1
  <2>4. CASE ProximaOrdem(s, d.backlog) /\ \E r \in reservas : r[1] = o
    <3>1. o \in porWebhook
      BY <2>1, <2>4, Sozinha, SemReserva
    <3>2. QED
      BY <1>5, <2>1, <2>2, <2>4, <3>1
  <2>5. QED
    BY <1>17, <2>3, <2>4 DEF LiberarExiste
<1>18. CASE LiberarLer(s) \/ LiberarGravar(s) \/ LiberarReserva(s)
  <2>1. /\ pc[s] \in {"liberar_ler", "liberar_gravar", "liberar_reserva"}
        /\ UNCHANGED <<situacao, itens, porWebhook>>
    BY <1>18 DEF LiberarLer, LiberarGravar, LiberarReserva, Debita, SoLeitura, ordem, historia
  <2>2. /\ e.ordem = o /\ e.backlog = d.backlog /\ pc[s] \in Laco /\ pc'[s] \in Laco
    <3>1. CASE LiberarLer(s)
      BY <3>1, SemDesvio, LePecaFaz DEF LiberarLer, Laco
    <3>2. CASE LiberarGravar(s)
      BY <3>2, SemDesvio, SegueFaz DEF LiberarGravar, Laco
    <3>3. CASE LiberarReserva(s)
      BY <3>3, SemDesvio, ProximoItemFaz DEF LiberarReserva, Laco
    <3>4. QED
      BY <1>18, <3>1, <3>2, <3>3
  <2>3. FaltaDura
    <3>1. CASE LiberarGravar(s)
      BY <1>11, <3>1, SemDesvio DEF LiberarGravar
    <3>2. CASE LiberarLer(s) \/ LiberarReserva(s)
      <4>1. UNCHANGED <<estoque, pedidos, creditos, ajustadas>>
        BY <3>2 DEF LiberarLer, LiberarReserva, SoLeitura, catalogo, historia
      <4>2. QED
        BY <4>1, FaltaParada
    <3>3. QED
      BY <1>18, <3>1, <3>2
  <2>4. QED
    BY <1>4, <2>1, <2>2, <2>3
<1>19. CASE PecasReservadas(s)
  <2>1. /\ pc[s] = "reservadas" /\ pc[s] \in Laco /\ o \in Ordens /\ ProximaOrdem(s, d.backlog)
        /\ UNCHANGED <<itens, estoque, pedidos, creditos, ajustadas, porWebhook>>
        /\ \A x \in Ordens : x # o => situacao'[x] = situacao[x]
    BY <1>2, <1>19 DEF PecasReservadas, Laco, ComOrdem, catalogo, historia, TipoBanco
  <2>2. situacao'[o] = "IN_PROGRESS"
    BY <1>2, <1>19, <2>1 DEF PecasReservadas, EmMao, TipoBanco
  <2>3. QED
    BY <1>5, <2>1, <2>2, FaltaParada
<1>20. QED
  BY <1>1, <1>6, <1>7, <1>8, <1>9, <1>10, <1>12, <1>13, <1>14, <1>15, <1>16, <1>17, <1>18, <1>19
     DEF Avancar

-----------------------------------------------------------------------------
(* The theorems about requests that do not overlap and are not cut short.  *)

Isolado ==
  /\ Invariante /\ ChavesPresentes /\ Saldo /\ Cobertura
  /\ RecebimentoEmCurso /\ OrdensCertas /\ DebitoEmCurso
  /\ ReservasPositivas /\ EsperaEmCurso

LEMMA IsoladoInicial == Init => Isolado
<1> SUFFICES ASSUME Init
             PROVE  Isolado
  OBVIOUS
<1>1. Invariante
  BY InvarianteInicial
<1>2. ChavesPresentes /\ Saldo /\ ReservasPositivas
  BY DEF Init, ChavesPresentes, Cadastradas, Saldo, LeituraFresca, SaldoFiel, ReservasPositivas
<1>3. \A s \in Sessoes : pc[s] = "livre" /\ dados[s].backlog = {}
  BY DEF Init, Vazio
<1>4. Cobertura
  BY <1>3, CobreFora DEF Cobertura, Debitando, Laco
<1>5. RecebimentoEmCurso
  BY <1>3 DEF Init, RecebimentoEmCurso, Recebendo
<1>6. OrdemEmMao
  BY <1>3, EmMaoFora DEF OrdemEmMao, Orcando, Aprovando, Laco
<1>7. Aprovadas
  BY DEF Init, Aprovadas
<1>8. DebitoEmCurso
  BY <1>3 DEF Init, DebitoEmCurso, Debitado, Debitando
<1>9. EsperaEmCurso
  BY <1>3 DEF Init, EsperaEmCurso
<1>10. QED
  BY <1>1, <1>2, <1>4, <1>5, <1>6, <1>7, <1>8, <1>9 DEF Isolado, OrdensCertas

LEMMA IsoladoPreservado ==
  ASSUME UmaDeCadaVez, ~ ComFalhas, Isolado, [Next]_vars
  PROVE  Isolado'
<1>1. CASE UNCHANGED vars
  <2>1. Invariante'
    BY <1>1, InvariantePreservado DEF Isolado
  <2>2. (ChavesPresentes /\ Saldo /\ Cobertura /\ ReservasPositivas)'
    BY <1>1 DEF Isolado, vars, ordem, catalogo, historia, ChavesPresentes, Cadastradas, Saldo,
       LeituraFresca, SaldoFiel, Cobertura, ReservasPositivas
  <2>3. RecebimentoEmCurso'
    BY <1>1 DEF Isolado, vars, catalogo, historia, RecebimentoEmCurso, Positivo, Creditado
  <2>4. (OrdensCertas /\ DebitoEmCurso)'
    BY <1>1 DEF Isolado, vars, ordem, historia, OrdensCertas, OrdemEmMao, Aprovadas, DebitoEmCurso
  <2>5. EsperaEmCurso'
    BY <1>1 DEF Isolado, vars, ordem, catalogo, historia, EsperaEmCurso, Falta, Pendentes
  <2>6. QED
    BY <2>1, <2>2, <2>3, <2>4, <2>5 DEF Isolado
<1>2. CASE Next
  <2>1. Invariante'
    BY <1>2, InvariantePreservado DEF Isolado
  <2>2. QED
    BY <1>2, <2>1, ChavesPorPasso, SaldoPorPasso, CobrePorPasso, RecebimentoPorPasso, OrdensPorPasso,
       DebitoPorPasso, ReservasPositivasPorPasso, EsperaPorPasso DEF Isolado, Invariante
<1>3. QED
  BY <1>1, <1>2

LEMMA IsoladoSempre ==
  ASSUME UmaDeCadaVez, ~ ComFalhas
  PROVE  Spec => []Isolado
<1>1. Isolado /\ [Next]_vars => Isolado'
  BY IsoladoPreservado
<1>2. QED
  BY <1>1, IsoladoInicial, PTL DEF Spec

\* A supplier order with positive quantities is credited once: the receipt it
\* takes finds its parts registered and does not fail half way.
THEOREM RecebimentoSempreUnico ==
  ASSUME UmaDeCadaVez, ~ ComFalhas
  PROVE  Spec => []RecebimentoUnicoPositivo
<1>1. Isolado => RecebimentoUnicoPositivo
  BY DEF Isolado, RecebimentoEmCurso, RecebimentoUnicoPositivo, Positivo
<1>2. QED
  BY <1>1, IsoladoSempre, PTL

\* The items that the stock is debited by are those the approved budget charges,
\* although they are written by two calls: AprovadoIgualItens.
THEOREM AprovadoSempreIgual ==
  ASSUME UmaDeCadaVez, ~ ComFalhas
  PROVE  Spec => []AprovadoIgualItens
<1>1. Isolado => AprovadoIgualItens
  <2> SUFFICES ASSUME Isolado, NEW o \in aprovadas, orcado[o] # {}
               PROVE  itens[o] = orcado[o]
    BY DEF AprovadoIgualItens
  <2>1. o \in Ordens
    BY DEF Isolado, Invariante, TypeOK, TipoBanco
  <2>2. \A s \in Sessoes : pc[s] \in {"orcar_ler", "orcar_gravar"} => dados[s].ordem # o
    BY DEF Isolado, OrdensCertas, OrdemEmMao, EmMao, Orcando
  <2>3. QED
    BY <2>1, <2>2 DEF Isolado, OrdensCertas, Aprovadas
<1>2. QED
  BY <1>1, IsoladoSempre, PTL

\* Between requests an order that this module started has the parts of its budget
\* debited, each one once, and one it did not start has none: DebitoExato.
THEOREM DebitoSempreExato ==
  ASSUME UmaDeCadaVez, ~ ComFalhas
  PROVE  Spec => []DebitoExato
<1>1. Isolado => DebitoExato
  <2> SUFFICES ASSUME Isolado, Quieto, NEW o \in Ordens \ porWebhook
               PROVE  /\ situacao[o] = "IN_PROGRESS" => Debitado(o, orcado[o], debitos)
                      /\ situacao[o] \in {"em_analise", "AWAITING_APPROVAL", "AWAITING_PARTS"} =>
                           Debitado(o, {}, debitos)
    BY DEF DebitoExato, Debitado
  <2>1. \A s \in Sessoes : pc[s] \notin Debitando
    BY DEF Quieto, Debitando
  <2>2. QED
    BY <2>1 DEF Isolado, DebitoEmCurso
<1>2. QED
  BY <1>1, IsoladoSempre, PTL

\* No lost wake-up: between requests an order waits only while a part is short,
\* or after a change of stock that nobody follows up: EsperaJustificada.
THEOREM EsperaSempreJustificada ==
  ASSUME UmaDeCadaVez, ~ ComFalhas
  PROVE  Spec => []EsperaJustificada
<1>1. Isolado => EsperaJustificada
  <2> SUFFICES ASSUME Isolado, Quieto, NEW o \in Ordens \ porWebhook,
                      situacao[o] = "AWAITING_PARTS", EmEstoque(o)
               PROVE  \E i \in itens[o] : i[1] \in ajustadas \cup Pendentes
    BY DEF EsperaJustificada
  <2>1. PICK s \in Sessoes : pc[s] = "livre"
    BY DEF UmaDeCadaVez, Quieto
  <2>2. Falta(o)
    BY <2>1 DEF Isolado, EsperaEmCurso, Laco
  <2>3. \A i \in itens[o] : estoque[i[1]] >= i[2] /\ estoque[i[1]] \in Nat /\ i[2] \in Nat
    BY ItensDeLista DEF EmEstoque, Isolado, Invariante, TypeOK, TipoBanco
  <2>4. QED
    BY <2>2, <2>3 DEF Falta
<1>2. QED
  BY <1>1, IsoladoSempre, PTL

=============================================================================
