---------------------------- MODULE CicloDeVida ----------------------------
(***************************************************************************)
(* What the service promises of a service order, without the requests,     *)
(* handlers and database calls that achieve it: each action is one         *)
(* business event that changes the status and the decision on the budget   *)
(* at once, under the condition the code means it to have.  OrdemServico   *)
(* implements this module when requests on one order do not overlap.       *)
(***************************************************************************)
EXTENDS StatusOS

CONSTANTS Ordens

VARIABLES
  status,   \* of each order, or "inexistente" / "removida"
  decisao,  \* on its budget: "ausente" without one, "SEM_VALOR" while it is
            \* worth nothing
  externa   \* orders whose execution the webhook started

ciclo == <<status, decisao, externa>>

Init ==
  /\ status = [o \in Ordens |-> "inexistente"]
  /\ decisao = [o \in Ordens |-> "ausente"]
  /\ externa = {}

-----------------------------------------------------------------------------
Move(o, de, para) ==
  /\ status[o] \in de /\ para # status[o]
  /\ status' = [status EXCEPT ![o] = para]

Decide(o, de, para) ==
  /\ decisao[o] \in de
  /\ decisao' = [decisao EXCEPT ![o] = para]

\* The client came in, or the administrator corrects an open order.
Abrir(o) ==
  Move(o, {"inexistente"}, "RECEIVED") /\ UNCHANGED <<decisao, externa>>

Triar(o) ==
  (\E st \in Editaveis : Move(o, Editaveis, st)) /\ UNCHANGED <<decisao, externa>>

\* A budget is drawn up with the order, and again while the order may be
\* listed, unless the client approved it.
Orcar(o) ==
  /\ \E d \in {"PENDING", "SEM_VALOR"} :
       \/ status[o] = "RECEIVED" /\ Decide(o, {"ausente"}, d)
       \/ /\ podeLancarServicosInsumos(status[o])
          /\ Decide(o, {"ausente", "PENDING", "SEM_VALOR", "REJECTED"}, d)
  /\ UNCHANGED <<status, externa>>

\* The decision of the client, taken once, on a budget that was sent; one that
\* is worth nothing can only be refused.
Decidir(o) ==
  /\ podeAprovarOuRecusarOrcamento(status[o])
  /\ \/ Decide(o, {"PENDING"}, "APPROVED")
     \/ Decide(o, {"PENDING", "SEM_VALOR"}, "REJECTED")
  /\ UNCHANGED <<status, externa>>

Encerrar(o) ==
  /\ decisao[o] = "REJECTED"
  /\ Move(o, {"AWAITING_APPROVAL"}, "CLOSED_WITHOUT_EXECUTION")
  /\ UNCHANGED <<decisao, externa>>

\* Only the approval, or the webhook before it, lets the work start.
Iniciar(o) ==
  /\ decisao[o] = "APPROVED" \/ (o \in externa /\ status[o] = "AWAITING_PARTS")
  /\ Move(o, {"AWAITING_APPROVAL", "AWAITING_PARTS"}, "IN_PROGRESS")
  /\ UNCHANGED <<decisao, externa>>

Esperar(o) ==
  /\ decisao[o] = "APPROVED"
  /\ Move(o, {"AWAITING_APPROVAL"}, "AWAITING_PARTS")
  /\ UNCHANGED <<decisao, externa>>

Concluir(o) ==
  /\ Move(o, {"IN_PROGRESS"}, "FINISHED") \/ Move(o, {"FINISHED"}, "DELIVERED")
  /\ UNCHANGED <<decisao, externa>>

\* An external system moves the order as its table allows.
Sincronizar(o) ==
  \E st \in Status :
    /\ Move(o, {x \in Status : st \in validTransitions[x]}, st)
    /\ externa' = IF st = "IN_PROGRESS" THEN externa \cup {o} ELSE externa
    /\ UNCHANGED decisao

Remover(o) ==
  /\ Move(o, Status, "removida")
  /\ decisao' = [decisao EXCEPT ![o] = "ausente"]
  /\ UNCHANGED externa

Next ==
  \E o \in Ordens :
    \/ Abrir(o) \/ Triar(o) \/ Orcar(o) \/ Decidir(o) \/ Encerrar(o)
    \/ Iniciar(o) \/ Esperar(o) \/ Concluir(o) \/ Sincronizar(o) \/ Remover(o)

Spec == Init /\ [][Next]_ciclo

=============================================================================
