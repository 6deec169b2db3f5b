---------------------------- MODULE OrdemServico ----------------------------
(***************************************************************************)
(* The life of service orders and of their budgets (orcamento), as the use *)
(* cases and event handlers of src/src/modules/ordem-servico drive it.     *)
(*                                                                         *)
(* The service is a NestJS monolith with at least two replicas. A request  *)
(* is a chain of awaited database calls: a use case reads the order, emits *)
(* a domain event, the awaited handler reads again, writes, and emits the  *)
(* next event. No transaction spans two calls, so requests interleave at   *)
(* every await. A session s is one such request; pc[s] names the database  *)
(* call it makes next, and one action is one call together with the        *)
(* synchronous code up to the next await.                                  *)
(*                                                                         *)
(* The parts module appears at its event boundary only: pecas_verificar    *)
(* stands for the chain from OrcamentoAprovadoComPecas to PecasReservadas  *)
(* or PecasIndisponiveis, backlog_reservar for the chain that ends in      *)
(* PecasReservadas after a delivery. Which outcome occurs is left open.    *)
(***************************************************************************)
EXTENDS StatusOS

CONSTANTS
  Ordens,    \* identifiers an order may get (a UUID is never reused)
  Sessoes,   \* requests that can be in flight at the same time
  Listas,    \* the part lists an order may carry
  SemPecas,  \* the empty part list
  Totais,    \* pairs <<services total, parts total>> a budget may have
  Nada,      \* "no value": no order, no status
  Isolado,   \* TRUE: no two requests on the same order overlap
  ComFalhas  \* TRUE: a request may be cut short (crash, database error)

ASSUME Parametros ==
  /\ SemPecas \in Listas
  /\ Totais \subseteq Nat \X Nat /\ <<0, 0>> \in Totais
  /\ Nada \notin Ordens \cup Status
  /\ Isolado \in BOOLEAN /\ ComFalhas \in BOOLEAN

VARIABLES
  status,      \* status column, or "inexistente" / "removida" without a row
  orc,         \* row of Orcamento of the order: state and totals
  pecas,       \* rows of OsPeca of the order
  datas,       \* order between iniciada_em and finalizada_em
  pagos,       \* orders with at least one row in pagamentos
  pc,          \* the database call each session makes next
  alvo,        \* the order the session works on
  dados,       \* what the session carries in memory
  marcos,      \* history variable: the milestones the order has had
  autorizado   \* history variable: what allowed the execution to start

banco   == <<status, orc, pecas, datas, pagos>>
sessao  == <<pc, alvo, dados>>
vars    == <<banco, sessao, marcos, autorizado>>

-----------------------------------------------------------------------------
SituacaoOrcamento == {"ausente", "PENDING", "APPROVED", "REJECTED"}
Orcamento == [st : SituacaoOrcamento, total : Totais]
SemOrcamento == [st |-> "ausente", total |-> <<0, 0>>]

valor_total_pecas(t) == t[2]
valor_total_geral(t) == t[1] + t[2]

Colunas == {"iniciada_em", "finalizada_em"}

Marcos == {"AWAITING_APPROVAL", "IN_PROGRESS", "FINISHED"}

Dados == [total : Totais, pecas : Listas, novo : Status \cup {Nada}]
Vazio == [total |-> <<0, 0>>, pecas |-> SemPecas, novo |-> Nada]

RotulosCriar    == {"criar_historico", "criar_itens", "criar_orcamento",
                    "recebida_ler", "recebida_gravar"}
RotulosTriagem  == {"diag_ler", "diag_gravar", "patch_gravar"}
RotulosListar   == {"listar_itens", "gerar_ler", "gerar_orc", "gerar_atualizar",
                    "gerar_criar", "aa_ler", "aa_gravar"}
RotulosDecisao  == {"aprovar_orc", "aprovar_gravar", "recusar_orc",
                    "recusar_gravar", "encerrar_gravar"}
RotulosExecucao == {"pecas_verificar", "backlog_reservar", "exec_ler_sem", "exec_ler",
                    "exec_gravar", "espera_ler", "espera_gravar", "inicio_gravar"}
RotulosEntrega  == {"fin_ler", "fin_gravar", "fim_gravar", "entregue_ler",
                    "entregue_gravar"}
RotulosWebhook  == {"web_gravar", "web_historico"}
Rotulos == {"livre"} \cup RotulosCriar \cup RotulosTriagem \cup RotulosListar
           \cup RotulosDecisao \cup RotulosExecucao \cup RotulosEntrega
           \cup RotulosWebhook

TipoBanco ==
  /\ status \in [Ordens -> Status \cup {"inexistente", "removida"}]
  /\ orc \in [Ordens -> Orcamento]
  /\ pecas \in [Ordens -> Listas]
  /\ datas \in [Ordens -> SUBSET (Colunas \X Colunas)]
  /\ pagos \subseteq Ordens
  /\ marcos \in [Ordens -> SUBSET Marcos]
  /\ autorizado \in [Ordens -> SUBSET {"orcamento", "webhook"}]

TipoSessao ==
  /\ pc \in [Sessoes -> Rotulos]
  /\ alvo \in [Sessoes -> Ordens \cup {Nada}]
  /\ dados \in [Sessoes -> Dados]
  /\ \A s \in Sessoes : alvo[s] = Nada <=> pc[s] = "livre"
  /\ \A s \in Sessoes : pc[s] \in {"patch_gravar", "web_gravar", "web_historico"}
                          => dados[s].novo \in Status

\* The rows and the sessions have the shape the schema and the calls give
\* them; a session has an order exactly when it is serving a request, and a
\* status to write when its next call needs one.
TypeOK == TipoBanco /\ TipoSessao

Init ==
  /\ status = [o \in Ordens |-> "inexistente"]
  /\ orc = [o \in Ordens |-> SemOrcamento]
  /\ pecas = [o \in Ordens |-> SemPecas]
  /\ datas = [o \in Ordens |-> {}]
  /\ pagos = {}
  /\ pc = [s \in Sessoes |-> "livre"]
  /\ alvo = [s \in Sessoes |-> Nada]
  /\ dados = [s \in Sessoes |-> Vazio]
  /\ marcos = [o \in Ordens |-> {}]
  /\ autorizado = [o \in Ordens |-> {}]

-----------------------------------------------------------------------------
(* Vocabulary of the actions.                                              *)

Existe(o) == status[o] \in Status

Disponivel(o) == Isolado => \A t \in Sessoes : alvo[t] # o

\* A request on o arrives, makes its first call and goes on to call r.
Comeca(s, o, r, d) ==
  /\ pc[s] = "livre" /\ Disponivel(o)
  /\ pc' = [pc EXCEPT ![s] = r]
  /\ alvo' = [alvo EXCEPT ![s] = o]
  /\ dados' = [dados EXCEPT ![s] = d]

\* The session makes call r on an order that has its row.
Passo(s, r) == pc[s] = r /\ Existe(alvo[s])

Segue(s, r) == pc' = [pc EXCEPT ![s] = r] /\ UNCHANGED <<alvo, dados>>

\* The same, and what the session carried is not used any more.
SegueSemDados(s, r) ==
  /\ pc' = [pc EXCEPT ![s] = r]
  /\ dados' = [dados EXCEPT ![s] = Vazio]
  /\ UNCHANGED alvo

Termina(s) ==
  /\ pc' = [pc EXCEPT ![s] = "livre"]
  /\ alvo' = [alvo EXCEPT ![s] = Nada]
  /\ dados' = [dados EXCEPT ![s] = Vazio]

\* A handler that acts only in some statuses, and returns in the others.
SegueSe(cond, s, r) == IF cond THEN Segue(s, r) ELSE Termina(s)

GravaStatus(o, st) ==
  /\ status' = [status EXCEPT ![o] = st]
  /\ marcos' = [marcos EXCEPT ![o] = @ \cup ({st} \cap Marcos)]

\* datas[o] relates x to y when both columns are filled and x is not later
\* than y. The date is the one of the writing call.
Preenchida(o, c) == <<c, c>> \in datas[o]
ComData(o, c) ==
  [datas EXCEPT ![o] =
     {p \in @ : c \notin {p[1], p[2]}}
       \cup {<<x, c>> : x \in {y \in Colunas : Preenchida(o, y)} \cup {c}}]

SoLeitura == UNCHANGED <<banco, marcos, autorizado>>

-----------------------------------------------------------------------------
(* UC-01. The order and its first history row are two calls; the items and *)
(* the budget follow. A part list may be worth nothing (a price below one  *)
(* cent is stored as 0.00), an empty one always is.                        *)

Criar(s, o, t, l) ==
  /\ status[o] = "inexistente" /\ \A r \in Sessoes : alvo[r] # o
  /\ valor_total_pecas(t) > 0 => l # SemPecas
  /\ Comeca(s, o, "criar_historico", [total |-> t, pecas |-> l, novo |-> Nada])
  /\ GravaStatus(o, "RECEIVED")
  /\ UNCHANGED <<orc, pecas, datas, pagos, autorizado>>

CriarHistorico(s) ==
  /\ Passo(s, "criar_historico")
  /\ Segue(s, IF dados[s].pecas = SemPecas THEN "criar_orcamento" ELSE "criar_itens")
  /\ SoLeitura

\* Mutant: no foreign key from the items to the order.
MutanteCriarItens(s) ==
  /\ pc[s] = "criar_itens"
  /\ pecas' = [pecas EXCEPT ![alvo[s]] = dados[s].pecas]
  /\ Segue(s, "criar_orcamento")
  /\ UNCHANGED <<status, orc, datas, pagos, marcos, autorizado>>

CriarItens(s) ==
  /\ Passo(s, "criar_itens")
  /\ pecas' = [pecas EXCEPT ![alvo[s]] = dados[s].pecas]
  /\ Segue(s, "criar_orcamento")
  /\ UNCHANGED <<status, orc, datas, pagos, marcos, autorizado>>

\* A budget row of s with the totals it carries. Nothing is written when one
\* exists already: id_ordem_servico is unique.
CriarLinhaOrcamento(s, seguinte) ==
  IF orc[alvo[s]].st = "ausente"
  THEN /\ orc' = [orc EXCEPT ![alvo[s]] =
                    [st |-> "PENDING", total |-> dados[s].total]]
       /\ SegueSemDados(s, seguinte)
       /\ UNCHANGED <<status, pecas, datas, pagos, marcos, autorizado>>
  ELSE Termina(s) /\ SoLeitura

CriarOrcamento(s) ==
  Passo(s, "criar_orcamento") /\ CriarLinhaOrcamento(s, "recebida_ler")

\* AtualizarStatusRecebidaHandler, on OrdemServicoCriada.
RecebidaLer(s) ==
  /\ Passo(s, "recebida_ler")
  /\ SegueSe(status[alvo[s]] # "RECEIVED", s, "recebida_gravar")
  /\ SoLeitura

RecebidaGravar(s) ==
  /\ Passo(s, "recebida_gravar")
  /\ GravaStatus(alvo[s], "RECEIVED")
  /\ Termina(s)
  /\ UNCHANGED <<orc, pecas, datas, pagos, autorizado>>

-----------------------------------------------------------------------------
(* UC-02: a mechanic takes the order.                                      *)

Assumir(s, o) ==
  /\ Existe(o) /\ podeAssumir(status[o])
  /\ Comeca(s, o, "diag_ler", Vazio)
  /\ SoLeitura

\* AtualizarStatusEmDiagnosticoHandler, on OrdemServicoAssumida.
DiagnosticoLer(s) ==
  /\ Passo(s, "diag_ler")
  /\ SegueSe(status[alvo[s]] = "RECEIVED", s, "diag_gravar")
  /\ SoLeitura

DiagnosticoGravar(s) ==
  /\ Passo(s, "diag_gravar")
  /\ GravaStatus(alvo[s], "UNDER_DIAGNOSIS")
  /\ Termina(s)
  /\ UNCHANGED <<orc, pecas, datas, pagos, autorizado>>

(* UC-01A: the administrative PATCH writes the status it was given.        *)

\* Mutant: a PATCH without a status writes it all the same.
MutanteAtualizar(s, o, st) ==
  /\ Existe(o) /\ podeAtualizar(status[o])
  /\ Comeca(s, o, "patch_gravar", Vazio)
  /\ SoLeitura

Atualizar(s, o, st) ==
  /\ Existe(o) /\ podeAtualizar(status[o])
  /\ Comeca(s, o, "patch_gravar", [Vazio EXCEPT !.novo = st])
  /\ SoLeitura

AtualizarGravar(s) ==
  /\ Passo(s, "patch_gravar")
  /\ GravaStatus(alvo[s], dados[s].novo)
  /\ Termina(s)
  /\ UNCHANGED <<orc, pecas, datas, pagos, autorizado>>

-----------------------------------------------------------------------------
(* UC-04: services and parts are listed, which generates the budget.       *)

ListarServicosInsumos(s, o, t, l) ==
  /\ Existe(o) /\ podeLancarServicosInsumos(status[o])
  /\ Comeca(s, o, IF l = SemPecas THEN "gerar_ler" ELSE "listar_itens",
            [total |-> t, pecas |-> l, novo |-> Nada])
  /\ SoLeitura

\* osPecaRepository.replaceAll, one transaction.
ListarItens(s) ==
  /\ Passo(s, "listar_itens")
  /\ pecas' = [pecas EXCEPT ![alvo[s]] = dados[s].pecas]
  /\ Segue(s, "gerar_ler")
  /\ UNCHANGED <<status, orc, datas, pagos, marcos, autorizado>>

\* GerarOrcamentoHandler, on ServicosEInsumosListados.
GerarLer(s) ==
  /\ Passo(s, "gerar_ler")
  /\ SegueSe(status[alvo[s]] \in {"UNDER_DIAGNOSIS", "AWAITING_APPROVAL"},
             s, "gerar_orc")
  /\ SoLeitura

\* Mutant: an approved budget is written again.
MutanteGerarLerOrcamento(s) ==
  /\ Passo(s, "gerar_orc")
  /\ Segue(s, IF orc[alvo[s]].st = "ausente" THEN "gerar_criar" ELSE "gerar_atualizar")
  /\ SoLeitura

GerarLerOrcamento(s) ==
  /\ Passo(s, "gerar_orc")
  /\ SegueSe(orc[alvo[s]].st # "APPROVED", s,
             IF orc[alvo[s]].st = "ausente" THEN "gerar_criar" ELSE "gerar_atualizar")
  /\ SoLeitura

GerarAtualizar(s) ==
  /\ Passo(s, "gerar_atualizar")
  /\ orc' = [orc EXCEPT ![alvo[s]] =
               [st |-> "PENDING", total |-> dados[s].total]]
  /\ SegueSemDados(s, "aa_ler")
  /\ UNCHANGED <<status, pecas, datas, pagos, marcos, autorizado>>

GerarCriar(s) ==
  Passo(s, "gerar_criar") /\ CriarLinhaOrcamento(s, "aa_ler")

\* AtualizarStatusAguardandoAprovacaoHandler, on OrcamentoEnviado.
AguardandoAprovacaoLer(s) ==
  /\ Passo(s, "aa_ler")
  /\ SegueSe(status[alvo[s]] = "UNDER_DIAGNOSIS", s, "aa_gravar")
  /\ SoLeitura

AguardandoAprovacaoGravar(s) ==
  /\ Passo(s, "aa_gravar")
  /\ GravaStatus(alvo[s], "AWAITING_APPROVAL")
  /\ Termina(s)
  /\ UNCHANGED <<orc, pecas, datas, pagos, autorizado>>

-----------------------------------------------------------------------------
(* UC-05: the client approves the budget.                                  *)

AprovarOrcamento(s, o) ==
  /\ Existe(o) /\ podeAprovarOuRecusarOrcamento(status[o])
  /\ Comeca(s, o, "aprovar_orc", Vazio)
  /\ SoLeitura

AprovarLerOrcamento(s) ==
  /\ Passo(s, "aprovar_orc")
  /\ LET b == orc[alvo[s]] IN
       SegueSe(b.st = "PENDING" /\ valor_total_geral(b.total) > 0, s, "aprovar_gravar")
  /\ SoLeitura

\* VerificarNecessidadePecasHandler, on OrcamentoAprovado: the event it emits,
\* OrcamentoAprovadoComPecas or OsSemPecasConfirmada, decides who goes on.
VerificarNecessidadePecas(b) ==
  IF valor_total_pecas(b.total) > 0 THEN "pecas_verificar" ELSE "exec_ler_sem"

\* Mutant: the approval is announced and not saved.
MutanteAprovarGravar(s) ==
  /\ Passo(s, "aprovar_gravar")
  /\ autorizado' = [autorizado EXCEPT ![alvo[s]] = @ \cup {"orcamento"}]
  /\ Segue(s, "exec_ler_sem")
  /\ UNCHANGED <<banco, marcos>>

\* Only the state column is written, whatever the row has become, and the
\* event carries the parts total of the row returned.
AprovarGravar(s) ==
  /\ Passo(s, "aprovar_gravar")
  /\ IF orc[alvo[s]].st = "ausente"
     THEN Termina(s) /\ SoLeitura
     ELSE /\ orc' = [orc EXCEPT ![alvo[s]].st = "APPROVED"]
          /\ autorizado' = [autorizado EXCEPT ![alvo[s]] = @ \cup {"orcamento"}]
          /\ Segue(s, VerificarNecessidadePecas(orc[alvo[s]]))
          /\ UNCHANGED <<status, pecas, datas, pagos, marcos>>

(* UC-06: the client refuses it.                                           *)

RecusarOrcamento(s, o) ==
  /\ Existe(o) /\ podeAprovarOuRecusarOrcamento(status[o])
  /\ Comeca(s, o, "recusar_orc", Vazio)
  /\ SoLeitura

RecusarLerOrcamento(s) ==
  /\ Passo(s, "recusar_orc")
  /\ SegueSe(orc[alvo[s]].st = "PENDING", s, "recusar_gravar")
  /\ SoLeitura

\* Mutant: OrcamentoRecusado is not emitted.
MutanteRecusarGravar(s) ==
  /\ Passo(s, "recusar_gravar")
  /\ orc' = [orc EXCEPT ![alvo[s]].st = "REJECTED"]
  /\ Termina(s)
  /\ UNCHANGED <<status, pecas, datas, pagos, marcos, autorizado>>

RecusarGravar(s) ==
  /\ Passo(s, "recusar_gravar")
  /\ IF orc[alvo[s]].st = "ausente"
     THEN Termina(s) /\ SoLeitura
     ELSE /\ orc' = [orc EXCEPT ![alvo[s]].st = "REJECTED"]
          /\ Segue(s, "encerrar_gravar")
          /\ UNCHANGED <<status, pecas, datas, pagos, marcos, autorizado>>

\* AtualizarStatusEncerradaSemExecucaoHandler writes without reading.
EncerrarGravar(s) ==
  /\ Passo(s, "encerrar_gravar")
  /\ GravaStatus(alvo[s], "CLOSED_WITHOUT_EXECUTION")
  /\ Termina(s)
  /\ UNCHANGED <<orc, pecas, datas, pagos, autorizado>>

-----------------------------------------------------------------------------
(* The parts chain at its boundary. Parts can only be missing when the     *)
(* order lists some; a debit that throws ends the chain (Interromper).     *)

EmitirPecasReservadas(s) ==
  /\ Passo(s, "pecas_verificar")
  /\ Segue(s, "exec_ler")
  /\ SoLeitura

EmitirPecasIndisponiveis(s) ==
  /\ Passo(s, "pecas_verificar")
  /\ pecas[alvo[s]] # SemPecas
  /\ Segue(s, "espera_ler")
  /\ SoLeitura

\* Mutant: the backlog query returns orders that await approval too.
MutanteValidarBacklog(s, o) ==
  /\ status[o] \in {"AWAITING_PARTS", "AWAITING_APPROVAL"}
  /\ Comeca(s, o, "backlog_reservar", Vazio)
  /\ SoLeitura

\* A delivery updated the stock and the backlog query returned the order.
ValidarBacklog(s, o) ==
  /\ status[o] = "AWAITING_PARTS"
  /\ Comeca(s, o, "backlog_reservar", Vazio)
  /\ SoLeitura

\* Its parts were reserved, or they are short or were reserved before.
LiberarOrdem(s) ==
  /\ Passo(s, "backlog_reservar")
  /\ Segue(s, "exec_ler") \/ Termina(s)
  /\ SoLeitura

\* AtualizarStatusAguardandoPecasHandler, on PecasIndisponiveis.
AguardandoPecasLer(s) ==
  /\ Passo(s, "espera_ler")
  /\ SegueSe(status[alvo[s]] = "AWAITING_APPROVAL", s, "espera_gravar")
  /\ SoLeitura

AguardandoPecasGravar(s) ==
  /\ Passo(s, "espera_gravar")
  /\ GravaStatus(alvo[s], "AWAITING_PARTS")
  /\ Termina(s)
  /\ UNCHANGED <<orc, pecas, datas, pagos, autorizado>>

\* Mutant: the handler expects the order before its budget was sent.
MutanteExecucaoLerSemPecas(s) ==
  /\ Passo(s, "exec_ler_sem")
  /\ SegueSe(status[alvo[s]] = "UNDER_DIAGNOSIS", s, "exec_gravar")
  /\ SoLeitura

\* AtualizarStatusEmExecucaoHandler, on OsSemPecasConfirmada.
ExecucaoLerSemPecas(s) ==
  /\ Passo(s, "exec_ler_sem")
  /\ SegueSe(status[alvo[s]] = "AWAITING_APPROVAL", s, "exec_gravar")
  /\ SoLeitura

\* The same handler, on PecasReservadas.
ExecucaoLerPecasReservadas(s) ==
  /\ Passo(s, "exec_ler")
  /\ SegueSe(status[alvo[s]] \in {"AWAITING_APPROVAL", "AWAITING_PARTS"}, s, "exec_gravar")
  /\ SoLeitura

ExecucaoGravar(s) ==
  /\ Passo(s, "exec_gravar")
  /\ GravaStatus(alvo[s], "IN_PROGRESS")
  /\ Segue(s, "inicio_gravar")
  /\ UNCHANGED <<orc, pecas, datas, pagos, autorizado>>

\* IniciarMonitoramentoTempoHandler, on OrdemServicoEmExecucao.
InicioGravar(s) ==
  /\ Passo(s, "inicio_gravar")
  /\ datas' = ComData(alvo[s], "iniciada_em")
  /\ Termina(s)
  /\ UNCHANGED <<status, orc, pecas, pagos, marcos, autorizado>>

-----------------------------------------------------------------------------
(* UC-07: the mechanic finishes.                                           *)

FinalizarExecucao(s, o) ==
  /\ Existe(o) /\ podeFinalizar(status[o])
  /\ Comeca(s, o, "fin_ler", Vazio)
  /\ SoLeitura

\* AtualizarStatusFinalizadaHandler, on ServicoConcluidoPeloMecanico.
FinalizadaLer(s) ==
  /\ Passo(s, "fin_ler")
  /\ SegueSe(status[alvo[s]] = "IN_PROGRESS", s, "fin_gravar")
  /\ SoLeitura

FinalizadaGravar(s) ==
  /\ Passo(s, "fin_gravar")
  /\ GravaStatus(alvo[s], "FINISHED")
  /\ Segue(s, "fim_gravar")
  /\ UNCHANGED <<orc, pecas, datas, pagos, autorizado>>

\* FinalizarMonitoramentoTempoHandler, on OrdemServicoFinalizada.
FimGravar(s) ==
  /\ Passo(s, "fim_gravar")
  /\ datas' = ComData(alvo[s], "finalizada_em")
  /\ Termina(s)
  /\ UNCHANGED <<status, orc, pecas, pagos, marcos, autorizado>>

(* UC-09 emits PagamentoRegistrado itself; a payment saved by the finance  *)
(* module, for an order that need not exist, emits it too.                 *)

RegistrarEntrega(s, o) ==
  /\ Existe(o) /\ podeRegistrarEntrega(status[o])
  /\ Comeca(s, o, "entregue_ler", Vazio)
  /\ SoLeitura

RegistrarPagamento(s, o) ==
  /\ pagos' = pagos \cup {o}
  /\ Comeca(s, o, "entregue_ler", Vazio)
  /\ UNCHANGED <<status, orc, pecas, datas, marcos, autorizado>>

\* Mutants: any payment delivers the order; the handler waits for FINISHED.
MutanteEntregueLer(s) ==
  Passo(s, "entregue_ler") /\ Segue(s, "entregue_gravar") /\ SoLeitura

MutanteEntregueEspera(s) ==
  /\ Passo(s, "entregue_ler")
  /\ Segue(s, IF status[alvo[s]] = "FINISHED" THEN "entregue_gravar" ELSE "entregue_ler")
  /\ SoLeitura

\* AtualizarStatusEntregueHandler, on PagamentoRegistrado.
EntregueLer(s) ==
  /\ Passo(s, "entregue_ler")
  /\ SegueSe(status[alvo[s]] = "FINISHED", s, "entregue_gravar")
  /\ SoLeitura

EntregueGravar(s) ==
  /\ Passo(s, "entregue_gravar")
  /\ GravaStatus(alvo[s], "DELIVERED")
  /\ Termina(s)
  /\ UNCHANGED <<orc, pecas, datas, pagos, autorizado>>

-----------------------------------------------------------------------------
(* The status webhook validates against the status it read, then writes.   *)

Webhook(s, o, st) ==
  /\ Existe(o) /\ st \in validTransitions[status[o]]
  /\ Comeca(s, o, "web_gravar", [Vazio EXCEPT !.novo = st])
  /\ SoLeitura

WebhookGravar(s) ==
  LET o == alvo[s]  st == dados[s].novo IN
  /\ Passo(s, "web_gravar")
  /\ GravaStatus(o, st)
  /\ datas' = IF st = "FINISHED" THEN ComData(o, "finalizada_em") ELSE datas
  /\ autorizado' = IF st = "IN_PROGRESS"
                   THEN [autorizado EXCEPT ![o] = @ \cup {"webhook"}]
                   ELSE autorizado
  /\ Segue(s, "web_historico")
  /\ UNCHANGED <<orc, pecas, pagos>>

\* Mutant: the two time monitors are swapped.
MutanteWebhookHistorico(s) ==
  LET st == dados[s].novo IN
  /\ Passo(s, "web_historico")
  /\ CASE st = "FINISHED"    -> SegueSemDados(s, "inicio_gravar")
       [] st = "IN_PROGRESS" -> SegueSemDados(s, "fim_gravar")
       [] OTHER              -> Termina(s)
  /\ SoLeitura

\* The event of the new status, if it has one, reaches the time monitors.
WebhookHistorico(s) ==
  LET st == dados[s].novo IN
  /\ Passo(s, "web_historico")
  /\ CASE st = "IN_PROGRESS" -> SegueSemDados(s, "inicio_gravar")
       [] st = "FINISHED"    -> SegueSemDados(s, "fim_gravar")
       [] OTHER              -> Termina(s)
  /\ SoLeitura

-----------------------------------------------------------------------------
(* The administrator deletes the order. Its budget, items and history go   *)
(* with it (ON DELETE CASCADE), its payments stay.                         *)

Deletar(o) ==
  /\ Existe(o) /\ Disponivel(o)
  /\ status' = [status EXCEPT ![o] = "removida"]
  /\ orc' = [orc EXCEPT ![o] = SemOrcamento]
  /\ pecas' = [pecas EXCEPT ![o] = SemPecas]
  /\ datas' = [datas EXCEPT ![o] = {}]
  /\ UNCHANGED <<pagos, sessao, marcos, autorizado>>

\* The call finds no row of the order (findOne throws, or the foreign key
\* rejects the write). Nothing is written and the chain ends.
OrdemAusente(s) ==
  /\ pc[s] # "livre" /\ ~ Existe(alvo[s])
  /\ Termina(s)
  /\ SoLeitura

\* The process dies, the database call fails, or a handler throws: the event
\* bus swallows the exception and the rest of the chain never happens.
Interromper(s) ==
  /\ ComFalhas /\ pc[s] # "livre"
  /\ Termina(s)
  /\ SoLeitura

-----------------------------------------------------------------------------
\* A new request of session s.
Requisicao(s) ==
  \E o \in Ordens :
    \/ \E t \in Totais, l \in Listas :
         Criar(s, o, t, l) \/ ListarServicosInsumos(s, o, t, l)
    \/ \E st \in Editaveis : Atualizar(s, o, st)
    \/ \E st \in Status : Webhook(s, o, st)
    \/ Assumir(s, o) \/ AprovarOrcamento(s, o) \/ RecusarOrcamento(s, o)
    \/ FinalizarExecucao(s, o) \/ RegistrarEntrega(s, o) \/ RegistrarPagamento(s, o)
    \/ ValidarBacklog(s, o)

\* The next call of the request session s is serving.
Avancar(s) ==
  \/ CriarHistorico(s) \/ CriarItens(s) \/ CriarOrcamento(s)
  \/ RecebidaLer(s) \/ RecebidaGravar(s)
  \/ DiagnosticoLer(s) \/ DiagnosticoGravar(s) \/ AtualizarGravar(s)
  \/ ListarItens(s) \/ GerarLer(s) \/ GerarLerOrcamento(s)
  \/ GerarAtualizar(s) \/ GerarCriar(s)
  \/ AguardandoAprovacaoLer(s) \/ AguardandoAprovacaoGravar(s)
  \/ AprovarLerOrcamento(s) \/ AprovarGravar(s)
  \/ RecusarLerOrcamento(s) \/ RecusarGravar(s) \/ EncerrarGravar(s)
  \/ EmitirPecasReservadas(s) \/ EmitirPecasIndisponiveis(s) \/ LiberarOrdem(s)
  \/ AguardandoPecasLer(s) \/ AguardandoPecasGravar(s)
  \/ ExecucaoLerSemPecas(s) \/ ExecucaoLerPecasReservadas(s) \/ ExecucaoGravar(s)
  \/ InicioGravar(s)
  \/ FinalizadaLer(s) \/ FinalizadaGravar(s) \/ FimGravar(s)
  \/ EntregueLer(s) \/ EntregueGravar(s)
  \/ WebhookGravar(s) \/ WebhookHistorico(s)
  \/ OrdemAusente(s)

Next ==
  \/ \E s \in Sessoes : Requisicao(s) \/ Avancar(s) \/ Interromper(s)
  \/ \E o \in Ordens : Deletar(o)

Spec == Init /\ [][Next]_vars

\* Every awaited call returns: the event loop and the database keep serving.
Fairness == \A s \in Sessoes : WF_vars(Avancar(s))

FairSpec == Spec /\ Fairness

-----------------------------------------------------------------------------
(* Safety whatever the interleaving and wherever requests are cut short.   *)

Autorizada(o) == autorizado[o] # {}

\* No milestone is skipped: an order has awaited approval before it executes
\* or waits for parts, has executed before it is finished, and has been
\* finished before it is delivered. Each write comes an await after the read
\* that allowed it, so another request may have moved the order in between.
MarcosNaoPulados ==
  \A o \in Ordens :
    /\ "IN_PROGRESS" \in marcos[o] \/ status[o] = "AWAITING_PARTS"
         => "AWAITING_APPROVAL" \in marcos[o]
    /\ "FINISHED" \in marcos[o] => "IN_PROGRESS" \in marcos[o]
    /\ status[o] = "DELIVERED" => "FINISHED" \in marcos[o]

\* No order executes, or waits for parts, unless a budget of it was approved
\* or the webhook started it: no chain of handlers gets there by itself.
ExecucaoAutorizada ==
  \A o \in Ordens :
    "IN_PROGRESS" \in marcos[o] \/ status[o] = "AWAITING_PARTS" => Autorizada(o)

\* A request still in flight when its order is deleted leaves nothing behind:
\* an order without a row has no budget, no items and no dates.
SemOrfaos ==
  \A o \in Ordens :
    ~ Existe(o) => /\ orc[o] = SemOrcamento
                   /\ pecas[o] = SemPecas
                   /\ datas[o] = {}

\* Why the three hold: what a session knows of its order, from a read that may
\* be stale by now, is only what can no longer cease to be true. Milestones
\* and authorisations are never withdrawn, so no other request can falsify it.
Justificada(s) ==
  LET o == alvo[s]  st == dados[s].novo IN
  /\ pc[s] = "patch_gravar" => st \in Editaveis
  /\ pc[s] \in {"pecas_verificar", "backlog_reservar", "exec_ler_sem", "exec_ler",
                "espera_ler", "exec_gravar", "espera_gravar"} => Autorizada(o)
  /\ pc[s] \in {"exec_gravar", "espera_gravar"} => "AWAITING_APPROVAL" \in marcos[o]
  /\ pc[s] = "fin_gravar" => "IN_PROGRESS" \in marcos[o]
  /\ pc[s] = "entregue_gravar" => "FINISHED" \in marcos[o]
  /\ pc[s] = "web_gravar" =>
       /\ st = "IN_PROGRESS" => "AWAITING_APPROVAL" \in marcos[o]
       /\ st \in {"AWAITING_PARTS", "FINISHED"} => "IN_PROGRESS" \in marcos[o]
       /\ st = "DELIVERED" => "FINISHED" \in marcos[o]

StatusMarcado == \A o \in Ordens : status[o] \in Marcos => status[o] \in marcos[o]

InvariantePercurso ==
  /\ TypeOK
  /\ StatusMarcado /\ MarcosNaoPulados /\ ExecucaoAutorizada /\ SemOrfaos
  /\ \A s \in Sessoes : Justificada(s)

-----------------------------------------------------------------------------
(* Safety when requests on the same order do not overlap (Isolado). They   *)
(* may still be cut short between any two calls.                           *)

Decisao(b) ==
  IF b.st = "PENDING" /\ valor_total_geral(b.total) = 0 THEN "SEM_VALOR" ELSE b.st

Ciclo == INSTANCE CicloDeVida WITH
           decisao <- [o \in Ordens |-> Decisao(orc[o])],
           externa <- {o \in Ordens : "webhook" \in autorizado[o]}

\* The chain of requests, handlers and calls is the life cycle the service
\* promises: every write of a status or of a budget is one of its events, with
\* the condition it has there true at the write and not only at the read an
\* await before. A finished, delivered or closed order never goes back, and a
\* chain cut short leaves the order where another event may still take it.
ImplementaCiclo == Ciclo!Spec

\* An approved budget never changes again while the order exists
\* (gerar-orcamento.handler refuses to touch it).
OrcamentoAprovadoImutavel ==
  [][\A o \in Ordens :
       orc[o].st = "APPROVED" /\ Existe(o)' => orc'[o] = orc[o]]_vars

\* Unless the webhook started it, an order that executes, waits for parts or
\* is done has its budget approved: never pending again, never refused.
ExecucaoComOrcamentoAprovado ==
  \A o \in Ordens :
    (/\ status[o] \in {"IN_PROGRESS", "AWAITING_PARTS", "FINISHED", "DELIVERED"}
     /\ "webhook" \notin autorizado[o])
      => orc[o].st = "APPROVED"

\* The execution time the average is computed from is never negative.
DuracaoNaoNegativa ==
  \A o \in Ordens :
    (\A c \in Colunas : Preenchida(o, c)) => <<"iniciada_em", "finalizada_em">> \in datas[o]

(* And when no request is cut short either (~ ComFalhas).                  *)

\* The decision of the client takes effect: once no request works on the
\* order, an approved budget has it executing, waiting or done, and a refused
\* one has it closed.
DecisaoConcluida ==
  \A o \in Ordens :
    (\A s \in Sessoes : alvo[s] # o) =>
      /\ orc[o].st = "APPROVED"
           => status[o] \in {"IN_PROGRESS", "AWAITING_PARTS", "FINISHED", "DELIVERED"}
      /\ orc[o].st = "REJECTED" => status[o] = "CLOSED_WITHOUT_EXECUTION"

-----------------------------------------------------------------------------
(* Liveness, under Fairness.                                               *)

\* Every request comes to its end.
RequisicaoTermina ==
  \A s \in Sessoes : pc[s] # "livre" ~> pc[s] = "livre"

\* An approval leads the order to its execution or to the wait for parts, a
\* refusal closes it, unless the order is deleted.
DecisaoProduzEfeito ==
  \A o \in Ordens :
    /\ orc[o].st = "APPROVED"
         ~> status[o] \in {"IN_PROGRESS", "AWAITING_PARTS", "FINISHED", "DELIVERED", "removida"}
    /\ orc[o].st = "REJECTED"
         ~> status[o] \in {"CLOSED_WITHOUT_EXECUTION", "removida"}

=============================================================================
