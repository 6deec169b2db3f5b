------------------------- MODULE AlmoxarifadoProofs -------------------------
(***************************************************************************)
(* With one request at a time and none cut short, PecasInsumos implements  *)
(* Almoxarifado, for every set of parts, of orders, of supplier orders and *)
(* of item lists: its first state is one of the warehouse, and each of its *)
(* steps is a step of the warehouse or leaves it as it is.                 *)
(*                                                                         *)
(* The stock of the warehouse is the stock of the database and what the    *)
(* session has taken out so far (Prateleiras). A write of the debit moves  *)
(* units from the one to the other, so the warehouse does not see it; the  *)
(* whole list leaves in the step in which PecasReservadas starts the order.*)
(***************************************************************************)
EXTENDS PecasIsoladasProofs

-----------------------------------------------------------------------------
(* The quantities of a list.                                               *)

LEMMA QuantidadeDoItem ==
  ASSUME NEW l, Unica(l), NEW i \in l
  PROVE  Almox!Quantidade(l, i[1]) = i[2]
BY DEF Almox!Quantidade, Unica

LEMMA QuantidadeDeFora ==
  ASSUME NEW l, NEW p, \A i \in l : i[1] # p
  PROVE  Almox!Quantidade(l, p) = 0
BY DEF Almox!Quantidade

LEMMA QuantidadeInteira ==
  ASSUME NEW l \in SUBSET Item, Unica(l), NEW p
  PROVE  Almox!Quantidade(l, p) \in Int
BY QuantidadeDoItem, QuantidadeDeFora DEF Item

\* One item more, of a list that has one item per part.
LEMMA QuantidadeComMais ==
  ASSUME NEW l \in Listas, NEW T \in SUBSET l, NEW i \in l \ T
  PROVE  /\ Almox!Quantidade(T, i[1]) = 0 /\ Almox!Quantidade(T \cup {i}, i[1]) = i[2]
         /\ \A p : p # i[1] => Almox!Quantidade(T \cup {i}, p) = Almox!Quantidade(T, p)
<1>1. Unica(l)
  BY Parametros
<1>2. Unica(T \cup {i}) /\ Unica(T) /\ \A j \in T : j[1] # i[1]
  BY <1>1 DEF Unica
<1>3. Almox!Quantidade(T, i[1]) = 0 /\ Almox!Quantidade(T \cup {i}, i[1]) = i[2]
  BY <1>2, QuantidadeDeFora, QuantidadeDoItem
<1>4. ASSUME NEW p, p # i[1]
      PROVE  Almox!Quantidade(T \cup {i}, p) = Almox!Quantidade(T, p)
  <2>1. CASE \E j \in T : j[1] = p
    BY <1>2, <2>1, QuantidadeDoItem
  <2>2. CASE ~ \E j \in T : j[1] = p
    BY <1>4, <2>2, QuantidadeDeFora
  <2>3. QED
    BY <2>1, <2>2
<1>5. QED
  BY <1>3, <1>4

-----------------------------------------------------------------------------
(* The stock as the warehouse sees it.                                     *)

\* What a session about to make the call r has taken out.
Tirados(r, d) == IF r \in Debitando THEN Feitos(r, d) ELSE {}

LEMMA RetiradosPelaChamada ==
  ASSUME NEW s \in Sessoes
  PROVE  /\ Retirados(s) = Tirados(pc[s], dados[s])
         /\ Retirados(s)' = Tirados(pc'[s], dados'[s])
BY DEF Retirados, Tirados, Feitos, Debitando

\* It is a part of its list.
LEMMA RetiradosDaLista ==
  ASSUME TypeOK, SessoesCarregam, NEW s \in Sessoes
  PROVE  Retirados(s) \in SUBSET Item /\ Unica(Retirados(s))
<1>1. Retirados(s) = IF pc[s] \in Debitando THEN Feitos(pc[s], dados[s]) ELSE {}
  BY RetiradosPelaChamada DEF Tirados
<1>2. CASE pc[s] \in Debitando
  <2>1. dados[s].lista \in Listas
    BY <1>2, SessaoCarrega DEF TypeOK, Debitando, ComOrdem
  <2>2. Feitos(pc[s], dados[s]) \subseteq dados[s].lista
    BY DEF Feitos
  <2>3. QED
    BY <1>1, <1>2, <2>1, <2>2, Parametros, ItensDeLista DEF Unica
<1>3. QED
  BY <1>1, <1>2 DEF Unica

\* The stock of the warehouse, with one session.
Prateleiras ==
  \A s \in Sessoes, p \in Pecas :
    NoAlmoxarifado(p) = estoque[p] + Almox!Quantidade(Retirados(s), p)

LEMMA PrateleirasCertas ==
  ASSUME UmaDeCadaVez
  PROVE  TypeOK /\ SessoesCarregam => Prateleiras
<1> SUFFICES ASSUME TypeOK, SessoesCarregam, NEW s \in Sessoes, NEW p \in Pecas
             PROVE  NoAlmoxarifado(p) = estoque[p] + Almox!Quantidade(Retirados(s), p)
  BY DEF Prateleiras
<1> DEFINE T == Retirados(s)
           C == {x \in UNION {Retirados(t) : t \in Sessoes} : x[1] = p}
<1>1. C = {x \in T : x[1] = p}
  <2>1. UNION {Retirados(t) : t \in Sessoes} = T
    BY Sozinha
  <2>2. QED
    BY <2>1
<1>2. NoAlmoxarifado(p) = estoque[p] + (IF C = {} THEN 0 ELSE (CHOOSE x \in C : TRUE)[2])
  BY DEF NoAlmoxarifado
<1>3. Unica(T)
  BY RetiradosDaLista
<1> HIDE DEF T, C
<1>4. CASE C = {}
  <2>1. Almox!Quantidade(T, p) = 0
    BY <1>1, <1>4, QuantidadeDeFora
  <2>2. QED
    BY <1>2, <1>4, <2>1 DEF T
<1>5. CASE C # {}
  <2>1. PICK x \in C : x = CHOOSE y \in C : TRUE
    BY <1>5
  <2>2. x \in T /\ x[1] = p
    BY <1>1
  <2>3. Almox!Quantidade(T, x[1]) = x[2]
    BY <1>3, <2>2, QuantidadeDoItem
  <2>4. QED
    BY <1>2, <1>5, <2>1, <2>2, <2>3 DEF T
<1>6. QED
  BY <1>4, <1>5

\* A session that debits nothing: the warehouse holds what the database says.
LEMMA TudoNaPrateleira ==
  ASSUME TypeOK, Prateleiras, NEW s \in Sessoes, Retirados(s) = {}, NEW p \in Pecas
  PROVE  NoAlmoxarifado(p) = estoque[p]
<1>1. Almox!Quantidade(Retirados(s), p) = 0
  BY QuantidadeDeFora
<1>2. NoAlmoxarifado(p) = estoque[p] + Almox!Quantidade(Retirados(s), p)
  BY DEF Prateleiras
<1>3. QED
  BY <1>1, <1>2 DEF TypeOK, TipoBanco

LEMMA TudoNaPrateleiraDepois ==
  ASSUME TypeOK', Prateleiras', NEW s \in Sessoes, Retirados(s)' = {}, NEW p \in Pecas
  PROVE  NoAlmoxarifado(p)' = estoque'[p]
<1>1. Almox!Quantidade(Retirados(s)', p) = 0
  BY QuantidadeDeFora
<1>2. NoAlmoxarifado(p)' = estoque'[p] + Almox!Quantidade(Retirados(s)', p)
  BY DEF Prateleiras
<1>3. QED
  BY <1>1, <1>2 DEF TypeOK, TipoBanco

\* What the session takes from the database it holds for the warehouse.
LEMMA Invisivel ==
  ASSUME Prateleiras, Prateleiras', NEW s \in Sessoes,
         UNCHANGED <<cadastro, situacao, itens, pedidos>>,
         \A p \in Pecas : estoque'[p] + Almox!Quantidade(Retirados(s)', p)
                          = estoque[p] + Almox!Quantidade(Retirados(s), p)
  PROVE  UNCHANGED Almox!almoxarifado
<1>1. \A p \in Pecas : NoAlmoxarifado(p)' = NoAlmoxarifado(p)
  BY DEF Prateleiras
<1>2. [p \in Pecas |-> NoAlmoxarifado(p)]' = [p \in Pecas |-> NoAlmoxarifado(p)]
  BY <1>1
<1>3. QED
  BY <1>2 DEF Almox!almoxarifado

-----------------------------------------------------------------------------
(* Steps the warehouse does not see.                                       *)

\* The next order of the backlog has had nothing taken yet.
LEMMA NadaTiradoDaProxima ==
  ASSUME TypeOK, NEW s \in Sessoes, NEW B \in SUBSET (Ordens \X Listas), ProximaOrdem(s, B)
  PROVE  Tirados(pc'[s], dados'[s]) = {}
<1>1. pc'[s] \in {"livre", "liberar_existe", "validar_ler"}
  BY ProximaOrdemFaz DEF TypeOK
<1>2. QED
  BY <1>1 DEF Tirados, Debitando

\* Reads, and the writes of the budget and of the reservations.
LEMMA PassoInvisivel ==
  ASSUME Isolado, Prateleiras, Prateleiras', NEW s \in Sessoes,
         \/ \E o \in Ordens, l \in Listas : ListarServicosInsumos(s, o, l)
         \/ \E o \in Ordens : AprovarOrcamento(s, o)
         \/ \E d \in Pedidos : ReceberPecasDoFornecedor(s, d)
         \/ OrcarLer(s) \/ OrcarGravar(s) \/ AprovarGravar(s) \/ Verificar(s) \/ DebitarLer(s)
         \/ ReceberLer(s) \/ ValidarBacklog(s) \/ ValidarLer(s) \/ LiberarExiste(s)
         \/ LiberarLer(s) \/ LiberarReserva(s)
  PROVE  UNCHANGED Almox!almoxarifado
<1> USE DEF Isolado, Invariante, TypeOK
<1>1. /\ dados[s] \in Dados /\ dados[s].fila \subseteq dados[s].lista
      /\ dados[s].backlog \in SUBSET (Ordens \X Listas)
  BY SessaoCarrega
<1>2. SUFFICES /\ UNCHANGED <<cadastro, estoque, situacao, itens, pedidos>>
               /\ Tirados(pc'[s], dados'[s]) = Tirados(pc[s], dados[s])
  BY Invisivel, RetiradosPelaChamada
<1>3. ASSUME pc[s] \notin Debitando, ProximaOrdem(s, dados[s].backlog)
      PROVE  Tirados(pc'[s], dados'[s]) = Tirados(pc[s], dados[s])
  BY <1>1, <1>3, NadaTiradoDaProxima DEF Tirados
<1>4. ASSUME pc[s] \notin Debitando, pc'[s] \notin Debitando
      PROVE  Tirados(pc'[s], dados'[s]) = Tirados(pc[s], dados[s])
  BY <1>4 DEF Tirados
<1>5. ASSUME pc[s] \notin Debitando, NEW l, NEW r, Percorre(s, l, r, "reservadas"),
             r \in {"debitar_ler", "liberar_ler"}
      PROVE  Tirados(pc'[s], dados'[s]) = Tirados(pc[s], dados[s])
  BY <1>5, PercorreFaz DEF Tirados, Feitos
<1>6. CASE \/ \E o \in Ordens, l \in Listas : ListarServicosInsumos(s, o, l)
           \/ \E o \in Ordens : AprovarOrcamento(s, o)
           \/ \E d \in Pedidos : ReceberPecasDoFornecedor(s, d)
  <2>1. /\ pc'[s] \in {"orcar_ler", "listar_gravar", "aprovar_gravar", "receber_ler"}
        /\ pc[s] = "livre"
    BY <1>6 DEF ListarServicosInsumos, AprovarOrcamento, ReceberPecasDoFornecedor, Comeca, TipoSessao
  <2>2. QED
    BY <1>4, <1>6, <2>1 DEF ListarServicosInsumos, AprovarOrcamento, ReceberPecasDoFornecedor,
       SoLeitura, ordem, catalogo, Debitando
<1>7. CASE OrcarLer(s) \/ OrcarGravar(s) \/ AprovarGravar(s)
  BY <1>4, <1>7, SegueFaz, TerminaFaz DEF OrcarLer, OrcarGravar, AprovarGravar, SoLeitura, ordem,
     catalogo, Debitando
<1>8. CASE Verificar(s)
  BY <1>4, <1>5, <1>8, SegueFaz DEF Verificar, SoLeitura, ordem, catalogo, Debitando
<1>9. CASE DebitarLer(s) \/ LiberarLer(s)
  <2>1. PICK i \in dados[s].fila, r \in {"debitar_gravar", "liberar_gravar"} : LePeca(s, i, r)
    BY <1>9, SemDesvio DEF DebitarLer, LiberarLer
  <2>2. UNCHANGED <<cadastro, estoque, situacao, itens, pedidos>>
    BY <1>9 DEF DebitarLer, LiberarLer, SoLeitura, ordem, catalogo
  <2>3. pc[s] \in {"debitar_ler", "liberar_ler"}
    BY <1>9 DEF DebitarLer, LiberarLer
  <2>4. Tirados(pc'[s], dados'[s]) = Tirados(pc[s], dados[s])
    BY <2>1, <2>3, LePecaFaz DEF Tirados, Feitos, Debitando
  <2>5. QED
    BY <2>2, <2>4
<1>10. CASE ReceberLer(s)
  BY <1>4, <1>10, LePecaFaz, TerminaFaz DEF ReceberLer, SoLeitura, ordem, catalogo, Debitando
<1>11. CASE ValidarBacklog(s)
  <2>1. {<<o, itens[o]>> : o \in {x \in Ordens : situacao[x] = "AWAITING_PARTS"}}
          \in SUBSET (Ordens \X Listas)
    BY DEF TipoBanco
  <2>2. QED
    BY <1>11, <2>1, NadaTiradoDaProxima DEF ValidarBacklog, ordem, catalogo, Tirados, Debitando
<1>12. CASE ValidarLer(s)
  BY <1>3, <1>4, <1>12, TerminaFaz, ValidarLerFaz DEF ValidarLer, SoLeitura, ordem, catalogo, Debitando
<1>13. CASE LiberarExiste(s)
  BY <1>3, <1>5, <1>13 DEF LiberarExiste, SoLeitura, ordem, catalogo, Debitando
<1>14. CASE LiberarReserva(s)
  <2>1. /\ ProximoItem(s, "liberar_ler", "reservadas") /\ pc[s] = "liberar_reserva"
        /\ UNCHANGED <<ordem, catalogo, estoque>>
    BY <1>14, SemDesvio DEF LiberarReserva
  <2>2. QED
    BY <2>1, ProximoItemFaz DEF ordem, catalogo, Tirados, Feitos, Debitando
<1>15. QED
  BY <1>6, <1>7, <1>8, <1>9, <1>10, <1>11, <1>12, <1>13, <1>14

\* The write of the debit: what leaves the database is in the hands of the session.
LEMMA DebitoInvisivel ==
  ASSUME Isolado, Prateleiras, Prateleiras', NEW s \in Sessoes, DebitarGravar(s) \/ LiberarGravar(s)
  PROVE  UNCHANGED Almox!almoxarifado
<1> USE DEF Isolado, Invariante, TypeOK
<1> DEFINE i == dados[s].item
           l == dados[s].lista
           T == l \ dados[s].fila
<1>1. pc[s] \in {"debitar_gravar", "liberar_gravar"} /\ PodeLer(i)
  BY SemDesvio DEF DebitarGravar, LiberarGravar
<1>2. /\ l \in Listas /\ i \in dados[s].fila /\ dados[s].fila \subseteq l
      /\ i[1] \in Pecas /\ i[2] \in Nat
  BY <1>1, SessaoCarrega DEF ComOrdem, ComItem
<1>3. /\ estoque' = [estoque EXCEPT ![i[1]] = estoque[i[1]] - i[2]]
      /\ UNCHANGED <<cadastro, situacao, itens, pedidos>>
  <2>1. Debita(s) /\ UNCHANGED <<ordem, catalogo>>
    BY <1>1 DEF DebitarGravar, LiberarGravar
  <2>2. dados[s].lido = estoque[i[1]] /\ estoque[i[1]] \in Nat
    BY <1>1, <1>2 DEF Saldo, LeituraFresca, TipoBanco
  <2>3. dados[s].lido + (- i[2]) = estoque[i[1]] - i[2]
    BY <1>2, <2>2
  <2>4. QED
    BY <2>1, <2>3 DEF Debita, Escreve, ordem, catalogo
<1>4. Tirados(pc[s], dados[s]) = T /\ Tirados(pc'[s], dados'[s]) = T \cup {i}
  <2>1. Tirados(pc[s], dados[s]) = T
    BY <1>1 DEF Tirados, Feitos, Debitando
  <2>2. CASE pc[s] = "debitar_gravar"
    <3>1. ProximoItem(s, "debitar_ler", "reservadas")
      BY <1>1, <2>2 DEF DebitarGravar, LiberarGravar
    <3>2. /\ pc'[s] \in {"debitar_ler", "reservadas"} /\ dados'[s].fila = dados[s].fila \ {i}
          /\ dados'[s].lista = l
      BY <3>1, ProximoItemFaz
    <3>3. QED
      BY <1>2, <2>1, <3>2 DEF Tirados, Feitos, Debitando
  <2>3. CASE pc[s] = "liberar_gravar"
    <3>1. pc'[s] = "liberar_reserva" /\ dados'[s] = dados[s]
      BY <1>1, <2>3, SegueFaz DEF DebitarGravar, LiberarGravar
    <3>2. QED
      BY <1>2, <2>1, <3>1 DEF Tirados, Feitos, Debitando
  <2>4. QED
    BY <1>1, <2>1, <2>2, <2>3
<1>5. ASSUME NEW p \in Pecas
      PROVE  estoque'[p] + Almox!Quantidade(T \cup {i}, p) = estoque[p] + Almox!Quantidade(T, p)
  <2>1. i \in l \ T /\ T \in SUBSET l
    BY <1>2
  <2>2. CASE p = i[1]
    <3>1. Almox!Quantidade(T, p) = 0 /\ Almox!Quantidade(T \cup {i}, p) = i[2]
      BY <1>2, <2>1, <2>2, QuantidadeComMais
    <3>2. estoque'[p] = estoque[p] - i[2] /\ estoque[p] \in Nat
      BY <1>3, <2>2 DEF TipoBanco
    <3>3. QED
      BY <1>2, <3>1, <3>2
  <2>3. CASE p # i[1]
    <3>1. Almox!Quantidade(T \cup {i}, p) = Almox!Quantidade(T, p)
      <4>1. \A q : q # i[1] => Almox!Quantidade(T \cup {i}, q) = Almox!Quantidade(T, q)
        BY <1>2, <2>1, QuantidadeComMais
      <4>2. QED
        BY <2>3, <4>1
    <3>2. estoque'[p] = estoque[p]
      BY <1>3, <2>3 DEF TipoBanco
    <3>3. QED
      BY <3>1, <3>2
  <2>4. QED
    BY <2>2, <2>3
<1>6. QED
  BY <1>3, <1>4, <1>5, RetiradosPelaChamada, Invisivel

-----------------------------------------------------------------------------
(* Steps of the warehouse.                                                 *)

\* Around a step that is no part of a debit both stocks are the same.
LEMMA EstoqueVisto ==
  ASSUME TypeOK, TypeOK', Prateleiras, Prateleiras', NEW s \in Sessoes,
         pc[s] \notin Debitando, pc'[s] \notin Debitando
  PROVE  \A p \in Pecas : NoAlmoxarifado(p) = estoque[p] /\ NoAlmoxarifado(p)' = estoque'[p]
<1>1. Retirados(s) = {} /\ Retirados(s)' = {}
  BY RetiradosPelaChamada DEF Tirados
<1>2. QED
  BY <1>1, TudoNaPrateleira, TudoNaPrateleiraDepois

LEMMA EstoqueVistoParado ==
  ASSUME TypeOK, TypeOK', Prateleiras, Prateleiras', NEW s \in Sessoes,
         pc[s] \notin Debitando, pc'[s] \notin Debitando, UNCHANGED estoque
  PROVE  UNCHANGED [p \in Pecas |-> NoAlmoxarifado(p)]
BY EstoqueVisto

\* Changes of status that leave the stock alone: Mover.
LEMMA PassoMover ==
  ASSUME Isolado, Isolado', Prateleiras, Prateleiras', NEW s \in Sessoes,
         \/ \E o \in Ordens, st \in Situacao : MoverOrdem(s, o, st)
         \/ \E o \in Ordens : DeletarOrdem(s, o)
         \/ EnviarOrcamento(s) \/ OsSemPecas(s)
  PROVE  Almox!Next \/ UNCHANGED Almox!almoxarifado
<1> USE DEF Isolado, Invariante, TypeOK
<1>1. pc[s] \notin Debitando /\ pc'[s] \notin Debitando
  BY TerminaFaz DEF MoverOrdem, DeletarOrdem, EnviarOrcamento, OsSemPecas, DeUmaVez, Debitando
<1>2. UNCHANGED <<cadastro, estoque, pedidos>>
  BY DEF MoverOrdem, DeletarOrdem, EnviarOrcamento, OsSemPecas, catalogo
<1>3. UNCHANGED [p \in Pecas |-> NoAlmoxarifado(p)]
  BY <1>1, <1>2, EstoqueVistoParado
<1>4. ASSUME NEW o \in Ordens, NEW st \in Situacao, situacao[o] # "removida",
             st = "AWAITING_PARTS" => situacao[o] = "IN_PROGRESS",
             situacao' = [situacao EXCEPT ![o] = st],
             itens' = IF st = "removida" THEN [itens EXCEPT ![o] = {}] ELSE itens
      PROVE  Almox!Next
  <2>1. Almox!Mover(o, st)
    BY <1>2, <1>3, <1>4 DEF Almox!Mover, Almox!SituacaoDe
  <2>2. QED
    BY <2>1 DEF Almox!Next, Situacao
<1>5. ASSUME NEW o \in Ordens, NEW st \in Situacao, MoverOrdem(s, o, st)
      PROVE  Almox!Next
  BY <1>4, <1>5 DEF MoverOrdem, Movimentos, MovimentosWebhook
<1>6. ASSUME NEW o \in Ordens, DeletarOrdem(s, o)
      PROVE  Almox!Next
  BY <1>4, <1>6 DEF DeletarOrdem, Situacao
<1>7. CASE EnviarOrcamento(s) \/ OsSemPecas(s)
  <2> DEFINE o == dados[s].ordem
  <2>1. o \in Ordens /\ situacao[o] \in {"em_analise", "AWAITING_APPROVAL"}
    <3>1. pc[s] \in {"enviar", "sem_pecas"}
      BY <1>7 DEF EnviarOrcamento, OsSemPecas
    <3>2. EmMao(pc[s], dados[s], situacao, itens, orcado, aprovadas)
      BY DEF OrdensCertas, OrdemEmMao
    <3>3. QED
      BY <3>1, <3>2, SessaoCarrega DEF EmMao, Orcando, ComOrdem
  <2>2. UNCHANGED itens
    BY <1>7 DEF EnviarOrcamento, OsSemPecas
  <2>3. CASE \E st \in {"AWAITING_APPROVAL", "IN_PROGRESS"} :
               situacao' = [situacao EXCEPT ![o] = st]
    BY <1>4, <2>1, <2>2, <2>3 DEF Situacao
  <2>4. CASE situacao' = [situacao EXCEPT ![o] = situacao[o]]
    <3>1. UNCHANGED situacao
      BY <2>1, <2>4 DEF TipoBanco
    <3>2. QED
      BY <1>2, <1>3, <2>2, <3>1 DEF Almox!almoxarifado
  <2>5. QED
    BY <1>7, <2>3, <2>4 DEF EnviarOrcamento, OsSemPecas
<1>8. QED
  BY <1>5, <1>6, <1>7

\* The parts of an order, and the order to a supplier: Listar, Encomendar.
LEMMA PassoListas ==
  ASSUME Isolado, Isolado', Prateleiras, Prateleiras', NEW s \in Sessoes,
         \/ ListarGravar(s)
         \/ \E d \in Pedidos, l \in Encomendas : SolicitarPecasAoFornecedor(s, d, l)
  PROVE  Almox!Next \/ UNCHANGED Almox!almoxarifado
<1> USE DEF Isolado, Invariante, TypeOK
<1>1. pc[s] \notin Debitando /\ pc'[s] \notin Debitando
  BY SegueFaz, TerminaFaz DEF ListarGravar, SolicitarPecasAoFornecedor, DeUmaVez, Debitando
<1>2. UNCHANGED <<cadastro, estoque, situacao>>
  BY DEF ListarGravar, SolicitarPecasAoFornecedor, SoLeitura, ordem, catalogo
<1>3. UNCHANGED [p \in Pecas |-> NoAlmoxarifado(p)]
  BY <1>1, <1>2, EstoqueVistoParado
<1>4. CASE ListarGravar(s)
  <2> DEFINE o == dados[s].ordem
             l == dados[s].lista
  <2>1. o \in Ordens /\ l \in Listas /\ situacao[o] \in {"em_analise", "AWAITING_APPROVAL"}
    <3>1. pc[s] = "listar_gravar"
      BY <1>4 DEF ListarGravar
    <3>2. EmMao(pc[s], dados[s], situacao, itens, orcado, aprovadas)
      BY DEF OrdensCertas, OrdemEmMao
    <3>3. QED
      BY <3>1, <3>2, SessaoCarrega DEF EmMao, Orcando, ComOrdem
  <2>2. CASE Cadastradas(l)
    <3>1. Almox!Listar(o, l)
      BY <1>2, <1>3, <1>4, <2>1, <2>2 DEF ListarGravar, Cadastradas, catalogo, Almox!Listar
    <3>2. QED
      BY <2>1, <3>1 DEF Almox!Next
  <2>3. CASE ~ Cadastradas(l)
    BY <1>3, <1>4, <2>3 DEF ListarGravar, SoLeitura, ordem, catalogo, Almox!almoxarifado
  <2>4. QED
    BY <2>2, <2>3
<1>5. ASSUME NEW d \in Pedidos, NEW l \in Encomendas, SolicitarPecasAoFornecedor(s, d, l)
      PROVE  Almox!Next
  <2>1. Almox!Encomendar(d, l)
    BY <1>2, <1>3, <1>5
    DEF SolicitarPecasAoFornecedor, Cadastradas, ordem, Almox!Encomendar, Almox!ordem
  <2>2. QED
    BY <2>1 DEF Almox!Next
<1>6. QED
  BY <1>4, <1>5

\* PecasReservadas: the whole list leaves and the order starts, Atender.
LEMMA PassoAtender ==
  ASSUME Isolado, Isolado', Prateleiras, Prateleiras', NEW s \in Sessoes, PecasReservadas(s)
  PROVE  Almox!Next
<1> USE DEF Isolado, Invariante, TypeOK
<1> DEFINE o == dados[s].ordem
           l == dados[s].lista
<1>1. pc[s] = "reservadas" /\ UNCHANGED <<cadastro, estoque, itens, pedidos>>
  BY DEF PecasReservadas, catalogo
<1>2. /\ o \in Ordens /\ l \in Listas /\ dados[s].fila = {}
      /\ dados[s].backlog \in SUBSET (Ordens \X Listas)
  BY <1>1, SessaoCarrega DEF ComOrdem, Carrega
<1>3. l = itens[o] /\ Almox!Aguarda(o)
  <2>1. Cobre(pc[s], dados[s], itens, estoque, reservas)
    BY DEF Cobertura
  <2>2. EmMao(pc[s], dados[s], situacao, itens, orcado, aprovadas)
    BY DEF OrdensCertas, OrdemEmMao
  <2>3. QED
    BY <1>1, <2>1, <2>2 DEF Cobre, EmMao, Laco, Almox!Aguarda
<1>4. Retirados(s) = l /\ Retirados(s)' = {}
  <2>1. Tirados(pc[s], dados[s]) = l
    BY <1>1, <1>2 DEF Tirados, Feitos, Debitando
  <2>2. Tirados(pc'[s], dados'[s]) = {}
    BY <1>2, NadaTiradoDaProxima DEF PecasReservadas
  <2>3. QED
    BY <2>1, <2>2, RetiradosPelaChamada
<1>5. \A p \in Pecas : NoAlmoxarifado(p) = estoque[p] + Almox!Quantidade(l, p)
  BY <1>4 DEF Prateleiras
<1>6. \A p \in Pecas : NoAlmoxarifado(p)' = estoque[p]
  BY <1>1, <1>4, TudoNaPrateleiraDepois
<1>7. Unica(l) /\ l \in SUBSET Item
  BY <1>2, Parametros, ItensDeLista
<1>8. Almox!Coberta(l)
  <2>1. ASSUME NEW i \in l
        PROVE  i[1] \in Pecas /\ i[2] <= NoAlmoxarifado(i[1])
    <3>1. i[1] \in Pecas /\ i[2] \in Nat
      BY <1>2, ItensDeLista
    <3>2. NoAlmoxarifado(i[1]) = estoque[i[1]] + i[2]
      BY <1>5, <1>7, <3>1, QuantidadeDoItem
    <3>3. QED
      BY <3>1, <3>2 DEF TipoBanco
  <2>2. QED
    BY <2>1 DEF Almox!Coberta
<1>9. \A p \in Pecas : NoAlmoxarifado(p)' = NoAlmoxarifado(p) - Almox!Quantidade(l, p)
  <2>1. ASSUME NEW p \in Pecas
        PROVE  estoque[p] = (estoque[p] + Almox!Quantidade(l, p)) - Almox!Quantidade(l, p)
    <3>1. Almox!Quantidade(l, p) \in Int
      BY <1>7, QuantidadeInteira
    <3>2. QED
      BY <3>1 DEF TipoBanco
  <2>2. QED
    BY <1>5, <1>6, <2>1
<1>10. situacao' = [situacao EXCEPT ![o] = "IN_PROGRESS"]
  BY <1>3 DEF PecasReservadas, Almox!Aguarda
<1>11. Almox!Atender(o)
  BY <1>1, <1>3, <1>8, <1>9, <1>10 DEF Almox!Atender, Almox!SituacaoDe
<1>12. QED
  BY <1>2, <1>11 DEF Almox!Next

\* PecasIndisponiveis: the order waits because a part is short, Esperar.
LEMMA PassoEsperar ==
  ASSUME Isolado, Isolado', Prateleiras, Prateleiras', NEW s \in Sessoes, PecasIndisponiveis(s)
  PROVE  Almox!Next
<1> USE DEF Isolado, Invariante, TypeOK
<1> DEFINE o == dados[s].ordem
<1>1. pc[s] = "indisponiveis" /\ UNCHANGED <<cadastro, estoque, itens, pedidos>>
  BY DEF PecasIndisponiveis, catalogo
<1>2. o \in Ordens
  BY <1>1, SessaoCarrega DEF ComOrdem
<1>3. pc[s] \notin Debitando /\ pc'[s] \notin Debitando
  BY <1>1, TerminaFaz DEF PecasIndisponiveis, Debitando
<1>4. UNCHANGED [p \in Pecas |-> NoAlmoxarifado(p)]
  BY <1>1, <1>3, EstoqueVistoParado
<1>5. situacao[o] = "AWAITING_APPROVAL"
  <2>1. EmMao(pc[s], dados[s], situacao, itens, orcado, aprovadas)
    BY DEF OrdensCertas, OrdemEmMao
  <2>2. QED
    BY <1>1, <2>1 DEF EmMao, Aprovando
<1>6. ~ Almox!Coberta(itens[o])
  <2>1. PICK i \in itens[o] : estoque[i[1]] < i[2]
    BY <1>1 DEF EsperaEmCurso
  <2>2. i[1] \in Pecas /\ i[2] \in Nat /\ estoque[i[1]] \in Nat
    BY <1>2, ItensDeLista DEF TipoBanco
  <2>3. NoAlmoxarifado(i[1]) = estoque[i[1]]
    BY <1>3, <2>2, EstoqueVisto
  <2>4. ~ (i[2] <= [p \in Pecas |-> NoAlmoxarifado(p)][i[1]])
    BY <2>1, <2>2, <2>3
  <2>5. QED
    BY <2>4 DEF Almox!Coberta
<1>7. Almox!Esperar(o)
  BY <1>1, <1>4, <1>5, <1>6 DEF PecasIndisponiveis, Almox!Esperar, Almox!SituacaoDe
<1>8. QED
  BY <1>2, <1>7 DEF Almox!Next

\* The catalogue: Cadastrar, Ajustar, Descartar.
LEMMA PassoCatalogo ==
  ASSUME Isolado, Isolado', Prateleiras, Prateleiras', NEW s \in Sessoes,
         \/ \E p \in Pecas, q \in Ajustes :
              CreatePecaInsumo(s, p, q) \/ UpdateEstoquePecaInsumo(s, p, q)
         \/ \E p \in Pecas : DeletePecaInsumo(s, p)
  PROVE  Almox!Next
<1> USE DEF Isolado, Invariante, TypeOK
<1> DEFINE NaPrateleira == [p \in Pecas |-> NoAlmoxarifado(p)]
<1>1. pc[s] \notin Debitando /\ pc'[s] \notin Debitando
  BY DEF CreatePecaInsumo, UpdateEstoquePecaInsumo, DeletePecaInsumo, DeUmaVez, Debitando
<1>2. ASSUME NEW p \in Pecas, NEW q, estoque' = [estoque EXCEPT ![p] = q]
      PROVE  NaPrateleira' = [NaPrateleira EXCEPT ![p] = q]
  BY <1>1, <1>2, EstoqueVisto DEF TipoBanco
<1>3. ASSUME NEW p \in Pecas, NEW q \in Ajustes, CreatePecaInsumo(s, p, q)
      PROVE  Almox!Next
  <2>1. NaPrateleira' = [NaPrateleira EXCEPT ![p] = q]
    BY <1>2, <1>3 DEF CreatePecaInsumo
  <2>2. Almox!Cadastrar(p, q)
    BY <1>3, <2>1 DEF CreatePecaInsumo, ordem, Almox!Cadastrar, Almox!ordem
  <2>3. QED
    BY <2>2 DEF Almox!Next
<1>4. ASSUME NEW p \in Pecas, NEW q \in Ajustes, UpdateEstoquePecaInsumo(s, p, q)
      PROVE  Almox!Next
  <2>1. NaPrateleira' = [NaPrateleira EXCEPT ![p] = q]
    BY <1>2, <1>4 DEF UpdateEstoquePecaInsumo
  <2>2. Almox!Ajustar(p, q)
    BY <1>4, <2>1 DEF UpdateEstoquePecaInsumo, ordem, catalogo, Almox!Ajustar, Almox!ordem
  <2>3. QED
    BY <2>2 DEF Almox!Next
<1>5. ASSUME NEW p \in Pecas, DeletePecaInsumo(s, p)
      PROVE  Almox!Next
  <2>1. NaPrateleira' = [NaPrateleira EXCEPT ![p] = 0]
    BY <1>2, <1>5 DEF DeletePecaInsumo
  <2>2. /\ \A o \in Ordens : \A i \in itens[o] : i[1] # p
        /\ \A d \in Pedidos : \A i \in pedidos[d].itens : i[1] # p
    BY <1>5 DEF DeletePecaInsumo
  <2>3. \A o \in Ordens : Almox!Quantidade(itens[o], p) = 0
    BY <2>2, QuantidadeDeFora
  <2>4. Almox!Descartar(p)
    BY <1>5, <2>1, <2>2, <2>3 DEF DeletePecaInsumo, ordem, Almox!Descartar, Almox!ordem
  <2>5. QED
    BY <2>4 DEF Almox!Next
<1>6. QED
  BY <1>3, <1>4, <1>5

-----------------------------------------------------------------------------
(* The receipt: Entrada, item by item, and Fechar.                         *)

\* A receipt that comes to its end met no quantity that is not positive.
EntradasPositivas ==
  \A s \in Sessoes : pc[s] \in Recebendo => \A i \in Feitos(pc[s], dados[s]) : i[2] > 0

LEMMA EntradasPorPasso ==
  ASSUME Isolado, UmaDeCadaVez, ~ ComFalhas, EntradasPositivas, Next
  PROVE  EntradasPositivas'
<1> USE DEF Isolado, Invariante, TypeOK
<1>1. PICK s \in Sessoes : Requisicao(s) \/ Avancar(s)
  BY DEF Next, Interromper
<1>2. SUFFICES ASSUME pc'[s] \in Recebendo, NEW i \in Feitos(pc'[s], dados'[s])
               PROVE  i[2] > 0
  BY Sozinha DEF EntradasPositivas
<1>3. pc[s] \in Recebendo => \A j \in Feitos(pc[s], dados[s]) : j[2] > 0
  BY DEF EntradasPositivas
<1>4. ASSUME NEW d \in Pedidos, NEW l \in Encomendas, SolicitarPecasAoFornecedor(s, d, l)
      PROVE  i[2] > 0
  BY <1>2, <1>4 DEF SolicitarPecasAoFornecedor, DeUmaVez, Recebendo
<1>5. ASSUME NEW d \in Pedidos, ReceberPecasDoFornecedor(s, d)
      PROVE  i[2] > 0
  <2>1. /\ pc'[s] = "receber_ler"
        /\ dados'[s] = [Vazio EXCEPT !.pedido = d, !.lista = pedidos[d].itens,
                                     !.fila = pedidos[d].itens]
    BY <1>5 DEF ReceberPecasDoFornecedor, Comeca, TipoSessao
  <2>2. Feitos(pc'[s], dados'[s]) = {}
    BY <2>1 DEF Vazio, Feitos
  <2>3. QED
    BY <1>2, <2>2
<1>6. CASE ReceberLer(s)
  <2>1. PICK j : LePeca(s, j, "receber_gravar")
    BY <1>2, <1>6, TerminaFaz DEF ReceberLer, Recebendo
  <2>2. Feitos(pc'[s], dados'[s]) = Feitos(pc[s], dados[s]) /\ pc[s] \in Recebendo
    BY <1>6, <2>1, LePecaFaz DEF ReceberLer, Feitos, Recebendo
  <2>3. QED
    BY <1>2, <1>3, <2>2
<1>7. CASE ReceberGravar(s)
  <2>1. pc[s] = "receber_gravar" /\ ProximoItem(s, "receber_ler", "receber_salvar")
    BY <1>7 DEF ReceberGravar
  <2>2. dados[s].item[2] > 0
    BY <2>1, SessaoCarrega DEF ComItem
  <2>3. Feitos(pc'[s], dados'[s]) \subseteq Feitos(pc[s], dados[s]) \cup {dados[s].item}
    BY <2>1, ProximoItemFaz DEF Feitos
  <2>4. QED
    BY <1>2, <1>3, <2>1, <2>2, <2>3 DEF Recebendo
<1>8. CASE ReceberSalvar(s)
  BY <1>2, <1>8, SegueFaz DEF ReceberSalvar, Recebendo
<1>9. QED
  BY <1>1, <1>2, <1>4, <1>5, <1>6, <1>7, <1>8, ForaDoRecebimento

LEMMA PassoRecebimento ==
  ASSUME Isolado, Isolado', EntradasPositivas, Prateleiras, Prateleiras', NEW s \in Sessoes,
         ReceberGravar(s) \/ ReceberSalvar(s)
  PROVE  Almox!Next
<1> USE DEF Isolado, Invariante, TypeOK
<1> DEFINE d == dados[s].pedido
           i == dados[s].item
           NaPrateleira == [p \in Pecas |-> NoAlmoxarifado(p)]
<1>1. pc[s] \in {"receber_gravar", "receber_salvar"}
  BY DEF ReceberGravar, ReceberSalvar
<1>2. /\ d \in Pedidos /\ pedidos[d].st = "PENDENTE" /\ dados[s].lista = pedidos[d].itens
      /\ dados[s].fila \subseteq dados[s].lista
      /\ pc[s] = "receber_salvar" => dados[s].fila = {}
  BY <1>1, SessaoCarrega DEF Carrega, Recebendo, RecebimentoEmCurso
<1>3. pc[s] \notin Debitando /\ pc'[s] \notin Debitando
  BY <1>1, ProximoItemFaz, SegueFaz DEF ReceberGravar, ReceberSalvar, Debitando
<1>4. CASE ReceberGravar(s)
  <2>1. /\ i \in pedidos[d].itens /\ i[2] > 0 /\ i[1] \in Pecas /\ i[2] \in Nat
        /\ pc[s] = "receber_gravar"
    BY <1>2, <1>4, SessaoCarrega DEF ReceberGravar, ComItem
  <2>2. dados[s].lido = estoque[i[1]]
    BY <2>1 DEF Saldo, LeituraFresca
  <2>3. estoque' = [estoque EXCEPT ![i[1]] = estoque[i[1]] + i[2]]
    BY <1>4, <2>2 DEF ReceberGravar, Escreve
  <2>4. NaPrateleira' = [NaPrateleira EXCEPT ![i[1]] = @ + i[2]]
    BY <1>3, <2>1, <2>3, EstoqueVisto DEF TipoBanco
  <2>5. Almox!Entrada(d)
    BY <1>2, <1>4, <2>1, <2>4 DEF ReceberGravar, ordem, catalogo, Almox!Entrada, Almox!ordem
  <2>6. QED
    BY <1>2, <2>5 DEF Almox!Next
<1>5. CASE ReceberSalvar(s)
  <2>1. pc[s] = "receber_salvar" /\ UNCHANGED estoque
    BY <1>5 DEF ReceberSalvar
  <2>2. UNCHANGED NaPrateleira
    BY <1>3, <2>1, EstoqueVistoParado
  <2>3. \A j \in pedidos[d].itens : j[2] > 0
    BY <1>2, <2>1 DEF EntradasPositivas, Recebendo, Feitos
  <2>4. Almox!Fechar(d)
    BY <1>2, <1>5, <2>2, <2>3 DEF ReceberSalvar, ordem, Almox!Fechar, Almox!ordem
  <2>5. QED
    BY <1>2, <2>4 DEF Almox!Next
<1>6. QED
  BY <1>4, <1>5

-----------------------------------------------------------------------------
(* The refinement.                                                         *)

Almoxarife == Isolado /\ EntradasPositivas

LEMMA AlmoxarifeSempre ==
  ASSUME UmaDeCadaVez, ~ ComFalhas
  PROVE  Spec => []Almoxarife
<1>1. Init => EntradasPositivas
  BY DEF Init, EntradasPositivas, Recebendo
<1>2. Isolado /\ EntradasPositivas /\ [Next]_vars => EntradasPositivas'
  <2>1. Isolado /\ EntradasPositivas /\ Next => EntradasPositivas'
    BY EntradasPorPasso
  <2>2. EntradasPositivas /\ UNCHANGED vars => EntradasPositivas'
    BY DEF vars, EntradasPositivas
  <2>3. QED
    BY <2>1, <2>2
<1>3. Isolado /\ EntradasPositivas => Almoxarife
  BY DEF Almoxarife
<1>4. QED
  BY <1>1, <1>2, <1>3, IsoladoSempre, PTL DEF Spec

LEMMA PassoDoAlmoxarifado ==
  ASSUME UmaDeCadaVez, ~ ComFalhas, Almoxarife, Almoxarife', Prateleiras, Prateleiras', Next
  PROVE  Almox!Next \/ UNCHANGED Almox!almoxarifado
<1>1. PICK s \in Sessoes : Requisicao(s) \/ Avancar(s)
  BY DEF Next, Interromper
<1> USE DEF Almoxarife
<1>2. CASE Requisicao(s)
  BY <1>2, PassoCatalogo, PassoMover, PassoListas, PassoInvisivel DEF Requisicao
<1>3. CASE Avancar(s)
  BY <1>3, PassoInvisivel, DebitoInvisivel, PassoMover, PassoListas, PassoAtender, PassoEsperar,
     PassoRecebimento DEF Avancar
<1>4. QED
  BY <1>1, <1>2, <1>3

LEMMA InicioDoAlmoxarifado ==
  ASSUME UmaDeCadaVez
  PROVE  Init => Almox!Init
<1> SUFFICES ASSUME Init
             PROVE  Almox!Init
  OBVIOUS
<1>1. TypeOK /\ Prateleiras
  BY InvarianteInicial, PrateleirasCertas DEF Invariante
<1>2. PICK s \in Sessoes : pc[s] = "livre"
  BY DEF UmaDeCadaVez, Init
<1>3. Retirados(s) = {}
  BY <1>2, RetiradosPelaChamada DEF Tirados, Debitando
<1>4. \A p \in Pecas : NoAlmoxarifado(p) = 0
  BY <1>1, <1>3, TudoNaPrateleira DEF Init
<1>5. QED
  BY <1>4 DEF Init, Almox!Init

\* The handlers that debit, release and receive, one read and one write per
\* part, keep the promise of the warehouse: the parts of an order leave all
\* together when it starts, and it waits only when they are not all there.
THEOREM AlmoxarifadoImplementado ==
  ASSUME UmaDeCadaVez, ~ ComFalhas
  PROVE  Spec => ImplementaAlmoxarifado
<1>1. Init => Almox!Init
  BY InicioDoAlmoxarifado
<1>2. Almoxarife => Prateleiras
  BY PrateleirasCertas DEF Almoxarife, Isolado, Invariante
<1>3. Almoxarife /\ Almoxarife' /\ Prateleiras /\ Prateleiras' /\ [Next]_vars
        => [Almox!Next]_(Almox!almoxarifado)
  <2>1. CASE Next
    BY <2>1, PassoDoAlmoxarifado
  <2>2. CASE UNCHANGED vars
    <3>1. UNCHANGED <<cadastro, estoque, situacao, itens, pedidos, pc, dados>>
      BY <2>2 DEF vars, ordem, catalogo
    <3>2. UNCHANGED [p \in Pecas |-> NoAlmoxarifado(p)]
      BY <3>1 DEF NoAlmoxarifado, Retirados
    <3>3. QED
      BY <3>1, <3>2 DEF Almox!almoxarifado
  <2>3. QED
    BY <2>1, <2>2
<1>4. QED
  BY <1>1, <1>2, <1>3, AlmoxarifeSempre, PTL DEF Spec, ImplementaAlmoxarifado, Almox!Spec

=============================================================================
