---------------------------- MODULE Almoxarifado ----------------------------
(***************************************************************************)
(* What the service promises of its stock, without the reads, writes and   *)
(* events that achieve it: the parts of an order leave the warehouse all   *)
(* together, in the step in which the order starts, and an order waits     *)
(* only when they are not all there.  PecasInsumos implements this module  *)
(* when there is one request at a time and none is cut short.              *)
(***************************************************************************)
EXTENDS Integers

CONSTANTS Pecas, Ordens, Pedidos, Listas, Encomendas, Ajustes

VARIABLES
  cadastro,  \* of each part: "ausente", "cadastrada" or "removida"
  estoque,   \* units of each part
  situacao,  \* of each order
  itens,     \* the parts each order needs, a set of <<part, quantity>>
  pedidos    \* state and items of each supplier order

ordem == <<situacao, itens>>
almoxarifado == <<cadastro, estoque, situacao, itens, pedidos>>

Init ==
  /\ cadastro = [p \in Pecas |-> "ausente"]
  /\ estoque = [p \in Pecas |-> 0]
  /\ situacao = [o \in Ordens |-> "em_analise"]
  /\ itens = [o \in Ordens |-> {}]
  /\ pedidos = [d \in Pedidos |-> [st |-> "ausente", itens |-> {}]]

-----------------------------------------------------------------------------
Aguarda(o) == situacao[o] \in {"AWAITING_APPROVAL", "AWAITING_PARTS"}

Coberta(l) == \A i \in l : i[2] <= estoque[i[1]]

Quantidade(l, p) ==
  IF \E i \in l : i[1] = p THEN (CHOOSE i \in l : i[1] = p)[2] ELSE 0

SituacaoDe(o, st) == situacao' = [situacao EXCEPT ![o] = st]

\* The order starts and its parts leave, or none does.
Atender(o) ==
  /\ Aguarda(o) /\ Coberta(itens[o])
  /\ SituacaoDe(o, "IN_PROGRESS")
  /\ estoque' = [p \in Pecas |-> estoque[p] - Quantidade(itens[o], p)]
  /\ UNCHANGED <<cadastro, itens, pedidos>>

\* Parts are short, all the others stay where they are.
Esperar(o) ==
  /\ situacao[o] = "AWAITING_APPROVAL" /\ ~ Coberta(itens[o])
  /\ SituacaoDe(o, "AWAITING_PARTS")
  /\ UNCHANGED <<cadastro, estoque, itens, pedidos>>

\* Whatever else happens to an order does not touch the warehouse, and does
\* not make it wait unless it was executing.
Mover(o, st) ==
  /\ situacao[o] # "removida"
  /\ st = "AWAITING_PARTS" => situacao[o] = "IN_PROGRESS"
  /\ SituacaoDe(o, st)
  /\ itens' = IF st = "removida" THEN [itens EXCEPT ![o] = {}] ELSE itens
  /\ UNCHANGED <<cadastro, estoque, pedidos>>

\* The parts of an order are settled before it starts or waits.
Listar(o, l) ==
  /\ situacao[o] \in {"em_analise", "AWAITING_APPROVAL"}
  /\ \A i \in l : cadastro[i[1]] = "cadastrada"
  /\ itens' = [itens EXCEPT ![o] = l]
  /\ UNCHANGED <<cadastro, estoque, situacao, pedidos>>

-----------------------------------------------------------------------------
Cadastrar(p, q) ==
  /\ cadastro[p] = "ausente"
  /\ cadastro' = [cadastro EXCEPT ![p] = "cadastrada"]
  /\ estoque' = [estoque EXCEPT ![p] = q]
  /\ UNCHANGED <<ordem, pedidos>>

Ajustar(p, q) ==
  /\ cadastro[p] = "cadastrada"
  /\ estoque' = [estoque EXCEPT ![p] = q]
  /\ UNCHANGED <<cadastro, ordem, pedidos>>

\* No order and no supplier order needs the part.
Descartar(p) ==
  /\ cadastro[p] = "cadastrada"
  /\ \A o \in Ordens : Quantidade(itens[o], p) = 0
  /\ \A d \in Pedidos : \A i \in pedidos[d].itens : i[1] # p
  /\ cadastro' = [cadastro EXCEPT ![p] = "removida"]
  /\ estoque' = [estoque EXCEPT ![p] = 0]
  /\ UNCHANGED <<ordem, pedidos>>

Encomendar(d, l) ==
  /\ pedidos[d].st = "ausente" /\ \A i \in l : cadastro[i[1]] = "cadastrada"
  /\ pedidos' = [pedidos EXCEPT ![d] = [st |-> "PENDENTE", itens |-> l]]
  /\ UNCHANGED <<cadastro, estoque, ordem>>

\* The supplier delivers an item of an order that is pending. Items enter one
\* by one: a receipt that stops at an invalid quantity keeps those before it.
Entrada(d) ==
  /\ pedidos[d].st = "PENDENTE"
  /\ \E i \in pedidos[d].itens :
       i[2] > 0 /\ estoque' = [estoque EXCEPT ![i[1]] = @ + i[2]]
  /\ UNCHANGED <<cadastro, ordem, pedidos>>

Fechar(d) ==
  /\ pedidos[d].st = "PENDENTE" /\ \A i \in pedidos[d].itens : i[2] > 0
  /\ pedidos' = [pedidos EXCEPT ![d].st = "RECEBIDO"]
  /\ UNCHANGED <<cadastro, estoque, ordem>>

Next ==
  \/ \E o \in Ordens : Atender(o) \/ Esperar(o)
  \/ \E o \in Ordens, st \in {"em_analise", "AWAITING_APPROVAL", "AWAITING_PARTS",
                              "IN_PROGRESS", "concluida", "removida"} : Mover(o, st)
  \/ \E o \in Ordens, l \in Listas : Listar(o, l)
  \/ \E p \in Pecas, q \in Ajustes : Cadastrar(p, q) \/ Ajustar(p, q)
  \/ \E p \in Pecas : Descartar(p)
  \/ \E d \in Pedidos : (\E l \in Encomendas : Encomendar(d, l)) \/ Entrada(d) \/ Fechar(d)

Spec == Init /\ [][Next]_almoxarifado

=============================================================================
