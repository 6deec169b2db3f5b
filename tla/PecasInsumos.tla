---------------------------- MODULE PecasInsumos ----------------------------
(***************************************************************************)
(* The stock of parts, as src/src/modules/pecas-insumos moves it: the      *)
(* debit that follows the approval of a budget, the orders to suppliers    *)
(* and their receipt, and the release of the orders that wait for parts.   *)
(*                                                                         *)
(* A change of stock is a read of the row (findOne) and, an await later, a *)
(* write of the quantity computed from what was read (updateEstoque); no   *)
(* transaction spans the two, nor the items of a list. As in OrdemServico, *)
(* a session is one request, pc[s] names its next database call and one    *)
(* action is one call with the code up to the next. Handlers are awaited   *)
(* but their exceptions are swallowed by the event bus.                    *)
(*                                                                         *)
(* Service orders appear as far as they bear on the stock: the items they  *)
(* list, whether the budget was approved, and the status in six classes.   *)
(* With one session there is one request at a time in the whole service.   *)
(***************************************************************************)
EXTENDS Integers, FiniteSets

CONSTANTS
  Pecas, Ordens, Pedidos,  \* identifiers of parts, orders, supplier orders
  Sessoes,                 \* requests in flight at the same time
  Listas,                  \* item lists of service orders
  Encomendas,              \* item lists of supplier orders
  Ajustes,                 \* quantities the administrator sets by hand
  MaxRecebimentos,         \* bound: times a part of a supplier order is credited
  MaxDebitos,              \* bound: units debited for an order before an approval
  Nada,                    \* no order, no supplier order, no item
  ComFalhas                \* TRUE: a request may be cut short

\* A list is a set of pairs <<part, quantity>>. Only the items of service
\* orders are validated to be positive.
Unica(l) == \A i, j \in l : i[1] = j[1] => i = j

ASSUME Parametros ==
  /\ Listas \subseteq SUBSET (Pecas \X (Nat \ {0})) /\ {} \in Listas
  /\ Encomendas \subseteq (SUBSET (Pecas \X Int)) \ {{}}
  /\ \A l \in Listas \cup Encomendas : Unica(l)
  /\ Ajustes \subseteq Nat /\ MaxRecebimentos \in Nat /\ MaxDebitos \in Nat
  /\ ComFalhas \in BOOLEAN
  /\ Nada \notin Ordens \cup Pedidos \cup (Pecas \X Int)

VARIABLES
  cadastro,    \* whether the part has its row
  estoque,     \* quantidade_estoque of each part
  situacao,    \* class of the status of each order
  itens,       \* rows of OsPeca of each order
  orcado,      \* the list whose parts total the budget of the order carries
  aprovadas,   \* orders whose budget is APPROVED
  pedidos,     \* rows of PedidoFornecedor with their items
  reservas,    \* rows of ReservaEstoque: <<order, part, quantity>>
  pc,          \* the database call each session makes next
  dados,       \* what the session carries in memory
  saldo,       \* history: what the stock should be after every movement
  creditos,    \* history: times each item of a supplier order was credited
  debitos,     \* history: units of each part debited for each order
  porWebhook,  \* history: orders the webhook started or sent to wait
  ajustadas    \* history: parts raised by hand since the last backlog query

ordem    == <<situacao, itens, orcado, aprovadas>>
catalogo == <<cadastro, pedidos>>
historia == <<creditos, debitos, porWebhook, ajustadas>>
vars     == <<ordem, catalogo, estoque, reservas, pc, dados, saldo, historia>>

-----------------------------------------------------------------------------
\* "em_analise" is RECEIVED or UNDER_DIAGNOSIS, "concluida" is FINISHED,
\* DELIVERED or CLOSED_WITHOUT_EXECUTION.
Situacao == {"em_analise", "AWAITING_APPROVAL", "AWAITING_PARTS", "IN_PROGRESS",
             "concluida", "removida"}

Pedido == [st : {"ausente", "PENDENTE", "RECEBIDO"}, itens : Encomendas \cup {{}}]

Item == Pecas \X Int

Dados == [ordem : Ordens \cup {Nada}, pedido : Pedidos \cup {Nada},
          lista : SUBSET Item, fila : SUBSET Item, item : Item \cup {Nada},
          lido : Nat, backlog : SUBSET (Ordens \X Listas)]
Vazio == [ordem |-> Nada, pedido |-> Nada, lista |-> {}, fila |-> {},
          item |-> Nada, lido |-> 0, backlog |-> {}]

Rotulos == {"livre", "listar_gravar", "orcar_ler", "orcar_gravar", "enviar",
            "aprovar_gravar", "sem_pecas", "verificar", "debitar_ler",
            "debitar_gravar", "indisponiveis", "receber_ler", "receber_gravar",
            "receber_salvar", "backlog", "validar_ler", "liberar_existe",
            "liberar_ler", "liberar_gravar", "liberar_reserva", "reservadas"}

TipoBanco ==
  /\ cadastro \in [Pecas -> {"ausente", "cadastrada", "removida"}]
  /\ estoque \in [Pecas -> Nat]
  /\ situacao \in [Ordens -> Situacao]
  /\ itens \in [Ordens -> Listas] /\ orcado \in [Ordens -> Listas]
  /\ aprovadas \subseteq Ordens
  /\ pedidos \in [Pedidos -> Pedido]
  /\ reservas \subseteq Ordens \X Pecas \X Nat

TipoSessao == pc \in [Sessoes -> Rotulos] /\ dados \in [Sessoes -> Dados]

TipoHistoria ==
  /\ saldo \in [Pecas -> Int]
  /\ creditos \in [Pedidos -> [Pecas -> Nat]]
  /\ debitos \in [Ordens -> [Pecas -> Nat]]
  /\ porWebhook \subseteq Ordens /\ ajustadas \subseteq Pecas

\* The rows have the shape of the schema. That the stock is a natural number
\* is not: the column is an Int, and each quantity written was computed from a
\* row read before other requests wrote theirs.
TypeOK == TipoBanco /\ TipoSessao /\ TipoHistoria

Init ==
  /\ cadastro = [p \in Pecas |-> "ausente"]
  /\ estoque = [p \in Pecas |-> 0]
  /\ situacao = [o \in Ordens |-> "em_analise"]
  /\ itens = [o \in Ordens |-> {}] /\ orcado = [o \in Ordens |-> {}]
  /\ aprovadas = {}
  /\ pedidos = [d \in Pedidos |-> [st |-> "ausente", itens |-> {}]]
  /\ reservas = {}
  /\ pc = [s \in Sessoes |-> "livre"]
  /\ dados = [s \in Sessoes |-> Vazio]
  /\ saldo = [p \in Pecas |-> 0]
  /\ creditos = [d \in Pedidos |-> [p \in Pecas |-> 0]]
  /\ debitos = [o \in Ordens |-> [p \in Pecas |-> 0]]
  /\ porWebhook = {} /\ ajustadas = {}

-----------------------------------------------------------------------------
(* Vocabulary of the actions.                                              *)

Cadastradas(l) == \A i \in l : cadastro[i[1]] = "cadastrada"

Comeca(s, r, d) ==
  /\ pc[s] = "livre"
  /\ pc' = [pc EXCEPT ![s] = r] /\ dados' = [dados EXCEPT ![s] = d]

\* A request that makes its only write at once.
DeUmaVez(s) == pc[s] = "livre" /\ UNCHANGED <<pc, dados>>

Segue(s, r) == pc' = [pc EXCEPT ![s] = r] /\ UNCHANGED dados

Termina(s) ==
  pc' = [pc EXCEPT ![s] = "livre"] /\ dados' = [dados EXCEPT ![s] = Vazio]

\* The list of the session is taken up, or there is nothing in it.
Percorre(s, l, r, vazia) ==
  /\ pc' = [pc EXCEPT ![s] = IF l = {} THEN vazia ELSE r]
  /\ dados' = [dados EXCEPT ![s].lista = l, ![s].fila = l, ![s].item = Nada]

\* The item in hand is done with.
ProximoItem(s, r, fim) ==
  LET resto == dados[s].fila \ {dados[s].item} IN
  /\ pc' = [pc EXCEPT ![s] = IF resto = {} THEN fim ELSE r]
  /\ dados' = [dados EXCEPT ![s].fila = resto, ![s].item = Nada, ![s].lido = 0]

\* The loop of ValidarBacklogOrdensPendentesHandler takes the next order, in
\* the order the query happened to give them; a request that is not in the
\* loop has none and ends.
ProximaOrdem(s, backlog) ==
  \/ backlog = {} /\ Termina(s)
  \/ \E b \in backlog :
       /\ pc' = [pc EXCEPT ![s] = IF b[2] = {} THEN "liberar_existe" ELSE "validar_ler"]
       /\ dados' = [dados EXCEPT ![s] = [Vazio EXCEPT !.ordem = b[1], !.lista = b[2],
                                         !.fila = b[2], !.backlog = backlog \ {b}]]

\* findOne of the part of an item, whose quantity is kept in memory.
LePeca(s, i, r) ==
  /\ pc' = [pc EXCEPT ![s] = r]
  /\ dados' = [dados EXCEPT ![s].item = i, ![s].lido = estoque[i[1]]]

PodeLer(i) == cadastro[i[1]] = "cadastrada"

\* Mutant: the quantity in stock is not looked at.
MutantePodeDebitar(i) == PodeLer(i) /\ i[2] > 0

PodeDebitar(i) == PodeLer(i) /\ i[2] > 0 /\ estoque[i[1]] >= i[2]

\* Mutant: the movement is applied with the wrong sign.
MutanteEscreve(s, delta) ==
  LET p == dados[s].item[1] IN
  /\ estoque' = [estoque EXCEPT ![p] = dados[s].lido - delta]
  /\ saldo' = [saldo EXCEPT ![p] = @ + delta]

\* updateEstoque writes what the session computed, not a difference.
Escreve(s, delta) ==
  LET p == dados[s].item[1] IN
  /\ estoque' = [estoque EXCEPT ![p] = dados[s].lido + delta]
  /\ saldo' = [saldo EXCEPT ![p] = @ + delta]

Debita(s) ==
  LET i == dados[s].item IN
  /\ PodeLer(i)
  /\ Escreve(s, - i[2])
  /\ debitos' = [debitos EXCEPT ![dados[s].ordem][i[1]] = @ + i[2]]
  /\ UNCHANGED <<creditos, porWebhook, ajustadas>>

SoLeitura == UNCHANGED <<ordem, catalogo, estoque, reservas, saldo, historia>>

-----------------------------------------------------------------------------
(* The catalogue: parts are registered, adjusted and removed by hand.      *)

CreatePecaInsumo(s, p, q) ==
  /\ cadastro[p] = "ausente"
  /\ cadastro' = [cadastro EXCEPT ![p] = "cadastrada"]
  /\ estoque' = [estoque EXCEPT ![p] = q] /\ saldo' = [saldo EXCEPT ![p] = q]
  /\ DeUmaVez(s)
  /\ UNCHANGED <<ordem, pedidos, reservas, historia>>

UpdateEstoquePecaInsumo(s, p, q) ==
  /\ cadastro[p] = "cadastrada"
  /\ estoque' = [estoque EXCEPT ![p] = q] /\ saldo' = [saldo EXCEPT ![p] = q]
  /\ ajustadas' = IF q > estoque[p] THEN ajustadas \cup {p} ELSE ajustadas
  /\ DeUmaVez(s)
  /\ UNCHANGED <<ordem, catalogo, reservas, creditos, debitos, porWebhook>>

\* Rows of OsPeca and PedidoFornecedorItem hold the part (onDelete: Restrict);
\* rows of ReservaEstoque do not.
DeletePecaInsumo(s, p) ==
  /\ cadastro[p] = "cadastrada"
  /\ \A l \in {itens[o] : o \in Ordens} \cup {pedidos[d].itens : d \in Pedidos} :
       \A i \in l : i[1] # p
  /\ cadastro' = [cadastro EXCEPT ![p] = "removida"]
  /\ estoque' = [estoque EXCEPT ![p] = 0] /\ saldo' = [saldo EXCEPT ![p] = 0]
  /\ DeUmaVez(s)
  /\ UNCHANGED <<ordem, pedidos, reservas, historia>>

-----------------------------------------------------------------------------
(* Service orders, as far as they bear on the stock.                       *)

\* The changes of status that do not pass through this module: the budget is
\* sent, the PATCH takes the order back, it is refused or closed, finished.
Movimentos == {<<"em_analise", "AWAITING_APPROVAL">>, <<"AWAITING_APPROVAL", "em_analise">>,
               <<"em_analise", "concluida">>, <<"AWAITING_APPROVAL", "concluida">>,
               <<"IN_PROGRESS", "concluida">>}

\* The webhook starts an order, sends it to wait for parts and takes it back.
MovimentosWebhook == {<<"AWAITING_APPROVAL", "IN_PROGRESS">>,
                      <<"IN_PROGRESS", "AWAITING_PARTS">>,
                      <<"AWAITING_PARTS", "IN_PROGRESS">>}

MoverOrdem(s, o, st) ==
  /\ <<situacao[o], st>> \in Movimentos \cup MovimentosWebhook
  /\ porWebhook' = IF <<situacao[o], st>> \in MovimentosWebhook
                   THEN porWebhook \cup {o} ELSE porWebhook
  /\ situacao' = [situacao EXCEPT ![o] = st]
  /\ DeUmaVez(s)
  /\ UNCHANGED <<itens, orcado, aprovadas, catalogo, estoque, reservas, saldo,
                 creditos, debitos, ajustadas>>

\* The items of the order go with it (Cascade), its reservations stay.
DeletarOrdem(s, o) ==
  /\ situacao[o] # "removida"
  /\ situacao' = [situacao EXCEPT ![o] = "removida"]
  /\ itens' = [itens EXCEPT ![o] = {}] /\ orcado' = [orcado EXCEPT ![o] = {}]
  /\ aprovadas' = aprovadas \ {o}
  /\ DeUmaVez(s)
  /\ UNCHANGED <<catalogo, estoque, reservas, saldo, historia>>

\* An empty list leaves the items of an earlier one where they are.
ListarServicosInsumos(s, o, l) ==
  /\ situacao[o] \in {"em_analise", "AWAITING_APPROVAL"}
  /\ Comeca(s, IF l = {} THEN "orcar_ler" ELSE "listar_gravar",
            [Vazio EXCEPT !.ordem = o, !.lista = l])
  /\ SoLeitura

\* replaceAll, in one transaction that the foreign keys may undo.
ListarGravar(s) ==
  LET o == dados[s].ordem IN
  /\ pc[s] = "listar_gravar"
  /\ IF situacao[o] # "removida" /\ Cadastradas(dados[s].lista)
     THEN /\ itens' = [itens EXCEPT ![o] = dados[s].lista]
          /\ Segue(s, "orcar_ler")
          /\ UNCHANGED <<situacao, orcado, aprovadas, catalogo, estoque, reservas,
                         saldo, historia>>
     ELSE Termina(s) /\ SoLeitura

\* GerarOrcamentoHandler throws when the budget is approved by now: the new
\* items stay, the budget is the old one.
OrcarLer(s) ==
  LET o == dados[s].ordem IN
  /\ pc[s] = "orcar_ler"
  /\ IF situacao[o] \in {"em_analise", "AWAITING_APPROVAL"} /\ o \notin aprovadas
     THEN Segue(s, "orcar_gravar") ELSE Termina(s)
  /\ SoLeitura

\* Mutant: a budget that has a total keeps it.
MutanteOrcarGravar(s) ==
  LET o == dados[s].ordem IN
  /\ pc[s] = "orcar_gravar"
  /\ orcado' = [orcado EXCEPT ![o] = IF @ = {} THEN dados[s].lista ELSE @]
  /\ Segue(s, "enviar")
  /\ UNCHANGED <<situacao, itens, aprovadas, catalogo, estoque, reservas, saldo, historia>>

\* The budget is pending again, whatever happened to it since it was read.
OrcarGravar(s) ==
  LET o == dados[s].ordem IN
  /\ pc[s] = "orcar_gravar"
  /\ IF situacao[o] = "removida"
     THEN Termina(s) /\ SoLeitura
     ELSE /\ orcado' = [orcado EXCEPT ![o] = dados[s].lista]
          /\ aprovadas' = aprovadas \ {o}
          /\ Segue(s, "enviar")
          /\ UNCHANGED <<situacao, itens, catalogo, estoque, reservas, saldo, historia>>

\* OrcamentoEnviado: the order awaits approval. One taken back to RECEIVED in
\* the meantime is left alone, which is what Interromper does here.
EnviarOrcamento(s) ==
  LET o == dados[s].ordem IN
  /\ pc[s] = "enviar"
  /\ situacao' = [situacao EXCEPT ![o] = IF @ = "em_analise" THEN "AWAITING_APPROVAL" ELSE @]
  /\ Termina(s)
  /\ UNCHANGED <<itens, orcado, aprovadas, catalogo, estoque, reservas, saldo, historia>>

AprovarOrcamento(s, o) ==
  /\ situacao[o] = "AWAITING_APPROVAL" /\ o \notin aprovadas
  /\ \A p \in Pecas : debitos[o][p] <= MaxDebitos
  /\ Comeca(s, "aprovar_gravar", [Vazio EXCEPT !.ordem = o])
  /\ SoLeitura

\* The event carries the parts total of the budget, not the items: without
\* one the order starts at once.
AprovarGravar(s) ==
  LET o == dados[s].ordem IN
  /\ pc[s] = "aprovar_gravar"
  /\ IF situacao[o] = "removida"
     THEN Termina(s) /\ SoLeitura
     ELSE /\ aprovadas' = aprovadas \cup {o}
          /\ Segue(s, IF orcado[o] = {} THEN "sem_pecas" ELSE "verificar")
          /\ UNCHANGED <<situacao, itens, orcado, catalogo, estoque, reservas,
                         saldo, historia>>

\* OsSemPecasConfirmada.
OsSemPecas(s) ==
  LET o == dados[s].ordem IN
  /\ pc[s] = "sem_pecas"
  /\ situacao' = [situacao EXCEPT ![o] = IF @ = "AWAITING_APPROVAL" THEN "IN_PROGRESS" ELSE @]
  /\ Termina(s)
  /\ UNCHANGED <<itens, orcado, aprovadas, catalogo, estoque, reservas, saldo, historia>>

-----------------------------------------------------------------------------
(* VerificarDisponibilidadeEstoqueHandler, on OrcamentoAprovadoComPecas,   *)
(* and DebitarEstoqueHandler, on PecasEmEstoqueConfirmadas.                *)

\* Mutant: the debit starts without a look at the stock.
MutanteVerificar(s) ==
  /\ pc[s] = "verificar"
  /\ Percorre(s, itens[dados[s].ordem], "debitar_ler", "reservadas")
  /\ SoLeitura

Verificar(s) ==
  LET l == itens[dados[s].ordem] IN
  /\ pc[s] = "verificar"
  /\ IF \E i \in l : estoque[i[1]] < i[2]
     THEN Segue(s, "indisponiveis")
     ELSE Percorre(s, l, "debitar_ler", "reservadas")
  /\ SoLeitura

\* Mutant: an item that is short is skipped.
MutanteDebitarLer(s) ==
  /\ pc[s] = "debitar_ler"
  /\ \E i \in dados[s].fila :
       IF PodeDebitar(i) THEN LePeca(s, i, "debitar_gravar")
       ELSE /\ pc' = [pc EXCEPT ![s] = IF dados[s].fila = {i} THEN "reservadas" ELSE @]
            /\ dados' = [dados EXCEPT ![s].fila = @ \ {i}]
  /\ SoLeitura

\* debitarEstoque throws when the stock is short by now, which ends the chain
\* and leaves the items before this one debited.
DebitarLer(s) ==
  /\ pc[s] = "debitar_ler"
  /\ \E i \in dados[s].fila :
       IF PodeDebitar(i) THEN LePeca(s, i, "debitar_gravar") ELSE Termina(s)
  /\ SoLeitura

DebitarGravar(s) ==
  /\ pc[s] = "debitar_gravar"
  /\ \/ /\ Debita(s)
        /\ ProximoItem(s, "debitar_ler", "reservadas")
        /\ UNCHANGED <<ordem, catalogo, reservas>>
     \/ ~ PodeLer(dados[s].item) /\ Termina(s) /\ SoLeitura

\* PecasReservadas reaches ordem-servico, which starts the execution, and the
\* request goes on with the backlog it was in, if any.
PecasReservadas(s) ==
  LET o == dados[s].ordem IN
  /\ pc[s] = "reservadas"
  /\ situacao' = [situacao EXCEPT ![o] =
                    IF @ \in {"AWAITING_APPROVAL", "AWAITING_PARTS"} THEN "IN_PROGRESS" ELSE @]
  /\ ProximaOrdem(s, dados[s].backlog)
  /\ UNCHANGED <<itens, orcado, aprovadas, catalogo, estoque, reservas, saldo, historia>>

\* PecasIndisponiveis sends the order to wait.
PecasIndisponiveis(s) ==
  LET o == dados[s].ordem IN
  /\ pc[s] = "indisponiveis"
  /\ situacao' = [situacao EXCEPT ![o] =
                    IF @ = "AWAITING_APPROVAL" THEN "AWAITING_PARTS" ELSE @]
  /\ Termina(s)
  /\ UNCHANGED <<itens, orcado, aprovadas, catalogo, estoque, reservas, saldo, historia>>

-----------------------------------------------------------------------------
(* Supplier orders. The checks of SolicitarPecasAoFornecedorUseCase are    *)
(* those of the foreign keys of the row it creates.                        *)

SolicitarPecasAoFornecedor(s, d, l) ==
  /\ pedidos[d].st = "ausente" /\ Cadastradas(l)
  /\ pedidos' = [pedidos EXCEPT ![d] = [st |-> "PENDENTE", itens |-> l]]
  /\ DeUmaVez(s)
  /\ UNCHANGED <<ordem, cadastro, estoque, reservas, saldo, historia>>

\* Mutant: an order already received is accepted.
MutanteReceberPecas(s, d) ==
  /\ pedidos[d].st # "ausente"
  /\ \A p \in Pecas : creditos[d][p] < MaxRecebimentos
  /\ Comeca(s, "receber_ler", [Vazio EXCEPT !.pedido = d, !.lista = pedidos[d].itens,
                                            !.fila = pedidos[d].itens])
  /\ SoLeitura

ReceberPecasDoFornecedor(s, d) ==
  /\ pedidos[d].st = "PENDENTE"
  /\ \A p \in Pecas : creditos[d][p] < MaxRecebimentos
  /\ Comeca(s, "receber_ler", [Vazio EXCEPT !.pedido = d, !.lista = pedidos[d].itens,
                                            !.fila = pedidos[d].itens])
  /\ SoLeitura

\* receberDoFornecedor throws when the quantity is not positive: the request
\* fails, the items before this one stay credited and the order pending.
ReceberLer(s) ==
  /\ pc[s] = "receber_ler"
  /\ \E i \in dados[s].fila :
       IF PodeLer(i) /\ i[2] > 0 THEN LePeca(s, i, "receber_gravar") ELSE Termina(s)
  /\ SoLeitura

\* Mutant: the loop ends after its first item.
MutanteReceberGravar(s) ==
  LET i == dados[s].item IN
  /\ pc[s] = "receber_gravar" /\ PodeLer(i)
  /\ Escreve(s, i[2])
  /\ creditos' = [creditos EXCEPT ![dados[s].pedido][i[1]] = @ + 1]
  /\ ProximoItem(s, "receber_salvar", "receber_salvar")
  /\ UNCHANGED <<ordem, catalogo, reservas, debitos, porWebhook, ajustadas>>

ReceberGravar(s) ==
  LET i == dados[s].item IN
  /\ pc[s] = "receber_gravar" /\ PodeLer(i)
  /\ Escreve(s, i[2])
  /\ creditos' = [creditos EXCEPT ![dados[s].pedido][i[1]] = @ + 1]
  /\ ProximoItem(s, "receber_ler", "receber_salvar")
  /\ UNCHANGED <<ordem, catalogo, reservas, debitos, porWebhook, ajustadas>>

ReceberSalvar(s) ==
  /\ pc[s] = "receber_salvar"
  /\ pedidos' = [pedidos EXCEPT ![dados[s].pedido].st = "RECEBIDO"]
  /\ Segue(s, "backlog")
  /\ UNCHANGED <<ordem, cadastro, estoque, reservas, saldo, historia>>

-----------------------------------------------------------------------------
(* ValidarBacklogOrdensPendentesHandler, on EstoqueAtualizadoAposRecebimento.*)

ValidarBacklog(s) ==
  /\ pc[s] = "backlog"
  /\ ProximaOrdem(s, {<<o, itens[o]>> : o \in {x \in Ordens : situacao[x] = "AWAITING_PARTS"}})
  /\ ajustadas' = {}
  /\ UNCHANGED <<ordem, catalogo, estoque, reservas, saldo, creditos, debitos, porWebhook>>

\* Mutant: an order that lacks an item ends the loop.
MutanteValidarLer(s) ==
  /\ pc[s] = "validar_ler"
  /\ \E i \in dados[s].fila :
       IF ~ PodeLer(i) \/ estoque[i[1]] < i[2] THEN Termina(s)
       ELSE /\ pc' = [pc EXCEPT ![s] =
                        IF dados[s].fila = {i} THEN "liberar_existe" ELSE "validar_ler"]
            /\ dados' = [dados EXCEPT ![s].fila = @ \ {i}]
  /\ SoLeitura

\* An order whose items are all in stock goes to the release; one that lacks
\* an item is passed over; a part without a row throws out of the loop.
ValidarLer(s) ==
  /\ pc[s] = "validar_ler"
  /\ \E i \in dados[s].fila :
       IF ~ PodeLer(i) THEN Termina(s)
       ELSE IF estoque[i[1]] < i[2] THEN ProximaOrdem(s, dados[s].backlog)
       ELSE /\ pc' = [pc EXCEPT ![s] =
                        IF dados[s].fila = {i} THEN "liberar_existe" ELSE "validar_ler"]
            /\ dados' = [dados EXCEPT ![s].fila = @ \ {i}]
  /\ SoLeitura

(* LiberarOrdensAguardandoPecasHandler, on BacklogValidadoPecasDisponiveis. *)
(* What it throws is swallowed and the loop takes the next order.          *)

\* Mutant: the reservation of any order is taken for one of this order.
MutanteLiberarExiste(s) ==
  /\ pc[s] = "liberar_existe"
  /\ IF reservas # {}
     THEN ProximaOrdem(s, dados[s].backlog)
     ELSE Percorre(s, dados[s].lista, "liberar_ler", "reservadas")
  /\ SoLeitura

LiberarExiste(s) ==
  /\ pc[s] = "liberar_existe"
  /\ IF \E r \in reservas : r[1] = dados[s].ordem
     THEN ProximaOrdem(s, dados[s].backlog)
     ELSE Percorre(s, dados[s].lista, "liberar_ler", "reservadas")
  /\ SoLeitura

\* Mutant: the part is reserved and not debited.
MutanteLiberarLer(s) ==
  /\ pc[s] = "liberar_ler"
  /\ \E i \in dados[s].fila :
       IF PodeDebitar(i) THEN LePeca(s, i, "liberar_reserva")
       ELSE ProximaOrdem(s, dados[s].backlog)
  /\ SoLeitura

LiberarLer(s) ==
  /\ pc[s] = "liberar_ler"
  /\ \E i \in dados[s].fila :
       IF PodeDebitar(i) THEN LePeca(s, i, "liberar_gravar")
       ELSE ProximaOrdem(s, dados[s].backlog)
  /\ SoLeitura

LiberarGravar(s) ==
  /\ pc[s] = "liberar_gravar"
  /\ \/ /\ Debita(s)
        /\ Segue(s, "liberar_reserva")
        /\ UNCHANGED <<ordem, catalogo, reservas>>
     \/ /\ ~ PodeLer(dados[s].item)
        /\ ProximaOrdem(s, dados[s].backlog)
        /\ SoLeitura

\* (ordem_id, peca_id) is unique: a second reservation throws.
LiberarReserva(s) ==
  LET o == dados[s].ordem  i == dados[s].item IN
  /\ pc[s] = "liberar_reserva"
  /\ IF \E r \in reservas : r[1] = o /\ r[2] = i[1]
     THEN ProximaOrdem(s, dados[s].backlog) /\ SoLeitura
     ELSE /\ reservas' = reservas \cup {<<o, i[1], i[2]>>}
          /\ ProximoItem(s, "liberar_ler", "reservadas")
          /\ UNCHANGED <<ordem, catalogo, estoque, saldo, historia>>

-----------------------------------------------------------------------------
\* The process dies or a call fails. A failed call of the release is swallowed
\* like any exception of that handler.
RotulosLiberar == {"liberar_existe", "liberar_ler", "liberar_gravar", "liberar_reserva",
                   "reservadas"}

Interromper(s) ==
  /\ ComFalhas /\ pc[s] # "livre"
  /\ \/ Termina(s)
     \/ pc[s] \in RotulosLiberar /\ ProximaOrdem(s, dados[s].backlog)
  /\ SoLeitura

Requisicao(s) ==
  \/ \E p \in Pecas, q \in Ajustes :
       CreatePecaInsumo(s, p, q) \/ UpdateEstoquePecaInsumo(s, p, q)
  \/ \E p \in Pecas : DeletePecaInsumo(s, p)
  \/ \E o \in Ordens, st \in Situacao : MoverOrdem(s, o, st)
  \/ \E o \in Ordens, l \in Listas : ListarServicosInsumos(s, o, l)
  \/ \E o \in Ordens : AprovarOrcamento(s, o) \/ DeletarOrdem(s, o)
  \/ \E d \in Pedidos, l \in Encomendas : SolicitarPecasAoFornecedor(s, d, l)
  \/ \E d \in Pedidos : ReceberPecasDoFornecedor(s, d)

Avancar(s) ==
  \/ ListarGravar(s) \/ OrcarLer(s) \/ OrcarGravar(s) \/ EnviarOrcamento(s)
  \/ AprovarGravar(s) \/ OsSemPecas(s)
  \/ Verificar(s) \/ DebitarLer(s) \/ DebitarGravar(s)
  \/ PecasReservadas(s) \/ PecasIndisponiveis(s)
  \/ ReceberLer(s) \/ ReceberGravar(s) \/ ReceberSalvar(s)
  \/ ValidarBacklog(s) \/ ValidarLer(s)
  \/ LiberarExiste(s) \/ LiberarLer(s) \/ LiberarGravar(s) \/ LiberarReserva(s)

Next == \E s \in Sessoes : Requisicao(s) \/ Avancar(s) \/ Interromper(s)

Spec == Init /\ [][Next]_vars

\* Every awaited call returns.
FairSpec == Spec /\ \A s \in Sessoes : WF_vars(Avancar(s))

-----------------------------------------------------------------------------
(* Safety whatever the interleaving and wherever requests are cut short.   *)

\* No reservation without its debit: a row of ReservaEstoque is backed by
\* units of the part that were taken out of the stock for that order.
ReservaLastreada ==
  \A r \in reservas : debitos[r[1]][r[2]] >= r[3]

\* PecasReservadas is emitted only when every unit it names has been debited
\* for the order, so that no execution starts on parts that were not taken.
ReservadasDebitadas ==
  \A s \in Sessoes : pc[s] = "reservadas" =>
    \A i \in dados[s].lista : debitos[dados[s].ordem][i[1]] >= i[2]

\* A supplier order is RECEBIDO only when each of its items was credited.
RecebidoCompleto ==
  \A d \in Pedidos : pedidos[d].st = "RECEBIDO" =>
    \A i \in pedidos[d].itens : creditos[d][i[1]] >= 1

-----------------------------------------------------------------------------
(* Safety when there is one request at a time (one session).               *)

\* The stock is what its movements make it: nothing sold twice or lost. Holds
\* with failures too, since each write is computed from a fresh read.
SaldoFiel == \A p \in Pecas : estoque[p] = saldo[p]

(* And when no request is cut short either (~ ComFalhas).                  *)

Quieto == \A s \in Sessoes : pc[s] = "livre"

\* What a supplier delivers enters the stock once, when every quantity of the
\* order is positive: only then does no receipt fail half way and start again.
RecebimentoUnicoPositivo ==
  \A d \in Pedidos : (\A i \in pedidos[d].itens : i[2] > 0) =>
    \A p \in Pecas : creditos[d][p] <= 1

\* The items, which the stock is debited by, and the budget, which the client
\* approves, are written by two calls: an approved budget that charges parts
\* charges those of the items, even if the order was listed several times.
AprovadoIgualItens ==
  \A o \in aprovadas : orcado[o] # {} => itens[o] = orcado[o]

\* All or nothing: between requests, an order this module set in progress has
\* had exactly the parts its budget charges debited, although the debit goes by
\* the items, and one that did not get there nothing.
DebitoExato ==
  Quieto => \A o \in Ordens \ porWebhook :
    /\ situacao[o] = "IN_PROGRESS" =>
         /\ \A i \in orcado[o] : debitos[o][i[1]] = i[2]
         /\ \A p \in Pecas : (\A i \in orcado[o] : i[1] # p) => debitos[o][p] = 0
    /\ situacao[o] \in {"em_analise", "AWAITING_APPROVAL", "AWAITING_PARTS"} =>
         \A p \in Pecas : debitos[o][p] = 0

\* The part of the list in hand that the session has debited by now.
Retirados(s) ==
  CASE pc[s] \in {"debitar_ler", "debitar_gravar", "liberar_ler", "liberar_gravar",
                 "reservadas"} -> dados[s].lista \ dados[s].fila
    [] pc[s] = "liberar_reserva" -> dados[s].lista \ (dados[s].fila \ {dados[s].item})
    [] OTHER -> {}

\* The warehouse as its promise sees it: what the debit under way has taken is
\* there until the order starts.
NoAlmoxarifado(p) ==
  LET i == {x \in UNION {Retirados(s) : s \in Sessoes} : x[1] = p} IN
  estoque[p] + (IF i = {} THEN 0 ELSE (CHOOSE x \in i : TRUE)[2])

Almox == INSTANCE Almoxarifado WITH estoque <- [p \in Pecas |-> NoAlmoxarifado(p)]

\* The loops of the debit and of the release, of one read and one write per
\* part, look from outside like one withdrawal of the whole list in the step in
\* which the order starts: none stops half way, takes units of another order,
\* or sends an order to wait although its parts are there.
ImplementaAlmoxarifado == Almox!Spec

\* Parts of a supplier order left half received, whose backlog never ran.
Pendentes ==
  {p \in Pecas : \E d \in Pedidos : pedidos[d].st = "PENDENTE" /\ creditos[d][p] > 0}

EmEstoque(o) == \A i \in itens[o] : estoque[i[1]] >= i[2]

\* No lost wake-up: between requests, an order this module sent to wait lacks a
\* part, unless the stock was raised by hand or by a receipt that failed half
\* way, after which nobody looks at the orders that wait.
EsperaJustificada ==
  Quieto => \A o \in Ordens \ porWebhook :
    situacao[o] = "AWAITING_PARTS" /\ EmEstoque(o) =>
      \E i \in itens[o] : i[1] \in ajustadas \cup Pendentes

-----------------------------------------------------------------------------
(* Liveness, under the fairness of FairSpec, one request at a time and none *)
(* cut short.                                                              *)

\* A receipt that was saved serves the orders that wait: each one whose items
\* are then in stock starts, or finds that another one took them.
RecebimentoAtende ==
  \A o \in Ordens, s \in Sessoes :
    pc[s] = "backlog" /\ situacao[o] = "AWAITING_PARTS" /\ o \notin porWebhook /\ EmEstoque(o)
      ~> situacao[o] = "IN_PROGRESS" \/ ~ EmEstoque(o)

=============================================================================
