------------------------------ MODULE StatusOS ------------------------------
(***************************************************************************)
(* The status of a service order (ordem de servico, OS) and the pure       *)
(* decisions the code takes from it: the guards of the entity and the      *)
(* transition table of the status webhook.                                 *)
(***************************************************************************)
EXTENDS Naturals

Status == {"RECEIVED", "UNDER_DIAGNOSIS", "AWAITING_APPROVAL", "IN_PROGRESS",
           "AWAITING_PARTS", "FINISHED", "DELIVERED",
           "CLOSED_WITHOUT_EXECUTION"}

-----------------------------------------------------------------------------
(* Guards of the entity OrdemDeServico: the status in which each use case  *)
(* accepts the order. The code throws a DomainException otherwise.         *)

podeAssumir(st) == st = "RECEIVED"

podeLancarServicosInsumos(st) == st \in {"UNDER_DIAGNOSIS", "AWAITING_APPROVAL"}

\* The statuses up to which the order may be edited, which are also the ones
\* the administrative PATCH may write.
Editaveis == {"RECEIVED", "UNDER_DIAGNOSIS", "AWAITING_APPROVAL"}

\* Mutant: the PATCH accepts an order in any status.
MutantePodeAtualizar(st) == st \in Status

podeAtualizar(st) == st \in Editaveis

podeFinalizar(st) == st = "IN_PROGRESS"

podeRegistrarEntrega(st) == st = "FINISHED"

podeAprovarOuRecusarOrcamento(st) == st = "AWAITING_APPROVAL"

-----------------------------------------------------------------------------
(* StatusTransitionService: the transitions the webhook accepts.           *)

\* Mutant: the webhook accepts any other status.
MutanteTransitions == [st \in Status |-> Status \ {st}]

validTransitions ==
  [st \in Status |->
     CASE st = "RECEIVED"          -> {"UNDER_DIAGNOSIS", "CLOSED_WITHOUT_EXECUTION"}
       [] st = "UNDER_DIAGNOSIS"   -> {"AWAITING_APPROVAL", "CLOSED_WITHOUT_EXECUTION"}
       [] st = "AWAITING_APPROVAL" -> {"IN_PROGRESS", "CLOSED_WITHOUT_EXECUTION"}
       [] st = "IN_PROGRESS"       -> {"AWAITING_PARTS", "FINISHED"}
       [] st = "AWAITING_PARTS"    -> {"IN_PROGRESS"}
       [] st = "FINISHED"          -> {"DELIVERED"}
       [] OTHER                    -> {}]

=============================================================================
