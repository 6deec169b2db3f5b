------------------------ MODULE OrdemServicoProofs ------------------------
(***************************************************************************)
(* Proofs about OrdemServico, for every set of orders, of concurrent       *)
(* requests, of part lists and of budget totals, with requests overlapping *)
(* freely or not and cut short anywhere or not.                            *)
(*                                                                         *)
(* The first part proves TypeOK, one step per action. Lemmas state what    *)
(* each way a session moves (Comeca, Segue, SegueSe, Termina...) and each  *)
(* way a row is written do to the types, and the steps cite them. The      *)
(* second part proves InvariantePercurso the same way, and from it the     *)
(* three invariants of the life-cycle. The third part proves, with the     *)
(* requests on one order not overlapping, that the system implements       *)
(* CicloDeVida.                                                            *)
(***************************************************************************)
EXTENDS OrdemServico, TLAPS

-----------------------------------------------------------------------------
(* Types.                                                                  *)

\* The labels of a session that serves a request.
Ocupados == Rotulos \ {"livre"}

\* A request that begins at a label, with a status to write if the label needs one.
LEMMA ComecaTipo ==
  ASSUME TipoSessao, NEW s \in Sessoes, NEW o \in Ordens, NEW r \in Ocupados,
         NEW d \in Dados, Comeca(s, o, r, d),
         r \in {"patch_gravar", "web_gravar", "web_historico"} => d.novo \in Status
  PROVE  TipoSessao'
BY Parametros DEF TipoSessao, Comeca, Ocupados

\* A session that goes on to a label, under the same condition.
LEMMA SegueTipo ==
  ASSUME TipoSessao, NEW s \in Sessoes, NEW r \in Ocupados, pc[s] # "livre", Segue(s, r),
         r \in {"patch_gravar", "web_gravar", "web_historico"} => dados[s].novo \in Status
  PROVE  TipoSessao'
BY DEF TipoSessao, Segue, Ocupados

\* What an idle session carries is well typed.
LEMMA VazioTipo == Vazio \in Dados
BY Parametros DEF Vazio, Dados

\* A session that goes on and drops what it carried.
LEMMA SegueSemDadosTipo ==
  ASSUME TipoSessao, NEW s \in Sessoes, NEW r \in Ocupados, pc[s] # "livre",
         r \notin {"patch_gravar", "web_gravar", "web_historico"}, SegueSemDados(s, r)
  PROVE  TipoSessao'
BY VazioTipo DEF TipoSessao, SegueSemDados, Ocupados

\* A session whose request ends.
LEMMA TerminaTipo ==
  ASSUME TipoSessao, NEW s \in Sessoes, Termina(s)
  PROVE  TipoSessao'
BY VazioTipo DEF TipoSessao, Termina, Rotulos

\* A session that goes on to a label or ends.
LEMMA SegueSeTipo ==
  ASSUME TipoSessao, NEW s \in Sessoes, NEW r \in Ocupados, pc[s] # "livre",
         r \notin {"patch_gravar", "web_gravar", "web_historico"},
         NEW c, SegueSe(c, s, r)
  PROVE  TipoSessao'
BY SegueTipo, TerminaTipo DEF SegueSe

\* A call that only reads.
LEMMA LeituraTipo == TipoBanco /\ SoLeitura => TipoBanco'
BY DEF TipoBanco, SoLeitura, banco

\* Filling a date column.
LEMMA ComDataTipo ==
  ASSUME TipoBanco, NEW o \in Ordens, NEW c \in Colunas
  PROVE  ComData(o, c) \in [Ordens -> SUBSET (Colunas \X Colunas)]
BY DEF TipoBanco, ComData

\* Writing the status of an order.
LEMMA GravaStatusTipo ==
  ASSUME TipoBanco, NEW o \in Ordens, NEW st \in Status, GravaStatus(o, st),
         UNCHANGED <<orc, pecas, datas, pagos, autorizado>>
  PROVE  TipoBanco'
BY DEF TipoBanco, GravaStatus

\* A session about to make a call has an order.
LEMMA PassoTipo ==
  ASSUME TipoSessao, NEW s \in Sessoes, NEW r \in Ocupados, Passo(s, r)
  PROVE  alvo[s] \in Ordens /\ pc[s] # "livre" /\ dados[s] \in Dados
BY DEF TipoSessao, Passo, Ocupados

\* The busy labels, by group.
LEMMA RotulosTipo ==
  /\ RotulosCriar \cup RotulosTriagem \cup RotulosListar \cup RotulosDecisao
       \cup RotulosExecucao \cup RotulosEntrega \cup RotulosWebhook = Ocupados
BY DEF Ocupados, Rotulos, RotulosCriar, RotulosTriagem, RotulosListar,
       RotulosDecisao, RotulosExecucao, RotulosEntrega, RotulosWebhook

\* Creating a budget, from either of the calls that do.
LEMMA CriarLinhaTipo ==
  ASSUME TypeOK, NEW s \in Sessoes, NEW r \in Ocupados, alvo[s] \in Ordens,
         pc[s] # "livre", r \notin {"patch_gravar", "web_gravar", "web_historico"},
         CriarLinhaOrcamento(s, r)
  PROVE  TypeOK'
<1>1. CASE orc[alvo[s]].st = "ausente"
  <2>1. TipoSessao'
    BY <1>1, SegueSemDadosTipo DEF TypeOK, CriarLinhaOrcamento
  <2>2. dados[s].total \in Totais
    BY DEF TypeOK, TipoSessao, Dados
  <2>3. TipoBanco'
    BY <1>1, <2>2 DEF TypeOK, TipoBanco, CriarLinhaOrcamento, Orcamento, SituacaoOrcamento
  <2>4. QED
    BY <2>1, <2>3 DEF TypeOK
<1>2. CASE orc[alvo[s]].st # "ausente"
  BY <1>2, TerminaTipo, LeituraTipo DEF TypeOK, CriarLinhaOrcamento
<1>3. QED
  BY <1>1, <1>2

\* Every step preserves TypeOK.
LEMMA Tipo ==
  ASSUME TypeOK, [Next]_vars
  PROVE  TypeOK'
<1> USE RotulosTipo DEF TypeOK
<1>1. ASSUME NEW s \in Sessoes, NEW o \in Ordens, NEW t \in Totais, NEW l \in Listas,
             Criar(s, o, t, l)
      PROVE  TypeOK'
  BY <1>1, GravaStatusTipo, ComecaTipo
     DEF Criar, RotulosCriar, Status, Dados, Vazio, Editaveis
<1>2. ASSUME NEW s \in Sessoes, NEW o \in Ordens, NEW t \in Totais, NEW l \in Listas,
             ListarServicosInsumos(s, o, t, l)
      PROVE  TypeOK'
  BY <1>2, LeituraTipo, ComecaTipo
     DEF ListarServicosInsumos, RotulosListar, Dados, Vazio, Editaveis, Status
<1>3. ASSUME NEW s \in Sessoes, NEW o \in Ordens, NEW st \in Editaveis, Atualizar(s, o,
             st)
      PROVE  TypeOK'
  BY <1>3, LeituraTipo, ComecaTipo, VazioTipo
     DEF Atualizar, RotulosTriagem, Dados, Vazio, Editaveis, Status
<1>4. ASSUME NEW s \in Sessoes, NEW o \in Ordens, NEW st \in Status, Webhook(s, o, st)
      PROVE  TypeOK'
  BY <1>4, LeituraTipo, ComecaTipo, VazioTipo
     DEF Webhook, RotulosWebhook, Dados, Vazio, Editaveis, Status
<1>5. ASSUME NEW s \in Sessoes, NEW o \in Ordens, Assumir(s, o)
      PROVE  TypeOK'
  BY <1>5, LeituraTipo, ComecaTipo, VazioTipo DEF Assumir, RotulosTriagem
<1>6. ASSUME NEW s \in Sessoes, NEW o \in Ordens, AprovarOrcamento(s, o)
      PROVE  TypeOK'
  BY <1>6, LeituraTipo, ComecaTipo, VazioTipo DEF AprovarOrcamento, RotulosDecisao
<1>7. ASSUME NEW s \in Sessoes, NEW o \in Ordens, RecusarOrcamento(s, o)
      PROVE  TypeOK'
  BY <1>7, LeituraTipo, ComecaTipo, VazioTipo DEF RecusarOrcamento, RotulosDecisao
<1>8. ASSUME NEW s \in Sessoes, NEW o \in Ordens, FinalizarExecucao(s, o)
      PROVE  TypeOK'
  BY <1>8, LeituraTipo, ComecaTipo, VazioTipo DEF FinalizarExecucao, RotulosEntrega
<1>9. ASSUME NEW s \in Sessoes, NEW o \in Ordens, RegistrarEntrega(s, o)
      PROVE  TypeOK'
  BY <1>9, LeituraTipo, ComecaTipo, VazioTipo DEF RegistrarEntrega, RotulosEntrega
<1>10. ASSUME NEW s \in Sessoes, NEW o \in Ordens, RegistrarPagamento(s, o)
      PROVE  TypeOK'
  BY <1>10, ComecaTipo, VazioTipo
     DEF RegistrarPagamento, RotulosEntrega, TipoBanco, Orcamento, SituacaoOrcamento
<1>11. ASSUME NEW s \in Sessoes, NEW o \in Ordens, ValidarBacklog(s, o)
      PROVE  TypeOK'
  BY <1>11, LeituraTipo, ComecaTipo, VazioTipo DEF ValidarBacklog, RotulosExecucao
<1>12. ASSUME NEW s \in Sessoes, CriarHistorico(s)
      PROVE  TypeOK'
  BY <1>12, PassoTipo, SegueTipo, LeituraTipo DEF CriarHistorico, RotulosCriar
<1>13. ASSUME NEW s \in Sessoes, CriarItens(s)
      PROVE  TypeOK'
  BY <1>13, PassoTipo, SegueTipo DEF CriarItens, RotulosCriar, TipoBanco, Orcamento,
     SituacaoOrcamento, TipoSessao, Dados
<1>14. ASSUME NEW s \in Sessoes, CriarOrcamento(s)
      PROVE  TypeOK'
  BY <1>14, PassoTipo, CriarLinhaTipo DEF CriarOrcamento, RotulosCriar
<1>15. ASSUME NEW s \in Sessoes, RecebidaLer(s)
      PROVE  TypeOK'
  BY <1>15, PassoTipo, SegueSeTipo, LeituraTipo DEF RecebidaLer, RotulosCriar
<1>16. ASSUME NEW s \in Sessoes, RecebidaGravar(s)
      PROVE  TypeOK'
  BY <1>16, PassoTipo, TerminaTipo, GravaStatusTipo
     DEF RecebidaGravar, RotulosCriar, Status
<1>17. ASSUME NEW s \in Sessoes, DiagnosticoLer(s)
      PROVE  TypeOK'
  BY <1>17, PassoTipo, SegueSeTipo, LeituraTipo DEF DiagnosticoLer, RotulosTriagem
<1>18. ASSUME NEW s \in Sessoes, DiagnosticoGravar(s)
      PROVE  TypeOK'
  BY <1>18, PassoTipo, TerminaTipo, GravaStatusTipo
     DEF DiagnosticoGravar, RotulosTriagem, Status
<1>19. ASSUME NEW s \in Sessoes, AtualizarGravar(s)
      PROVE  TypeOK'
  <2>1. alvo[s] \in Ordens /\ dados[s].novo \in Status
    BY <1>19, PassoTipo DEF AtualizarGravar, RotulosTriagem, TipoSessao, Passo
  <2>2. QED
    BY <1>19, <2>1, TerminaTipo, GravaStatusTipo DEF AtualizarGravar
<1>20. ASSUME NEW s \in Sessoes, ListarItens(s)
      PROVE  TypeOK'
  BY <1>20, PassoTipo, SegueTipo DEF ListarItens, RotulosListar, TipoBanco, Orcamento,
     SituacaoOrcamento, TipoSessao, Dados
<1>21. ASSUME NEW s \in Sessoes, GerarLer(s)
      PROVE  TypeOK'
  BY <1>21, PassoTipo, SegueSeTipo, LeituraTipo DEF GerarLer, RotulosListar
<1>22. ASSUME NEW s \in Sessoes, GerarLerOrcamento(s)
      PROVE  TypeOK'
  BY <1>22, PassoTipo, SegueSeTipo, LeituraTipo DEF GerarLerOrcamento, RotulosListar
<1>23. ASSUME NEW s \in Sessoes, GerarAtualizar(s)
      PROVE  TypeOK'
  BY <1>23, PassoTipo, SegueSemDadosTipo DEF GerarAtualizar, RotulosListar, TipoBanco,
     Orcamento, SituacaoOrcamento, TipoSessao, Dados
<1>24. ASSUME NEW s \in Sessoes, GerarCriar(s)
      PROVE  TypeOK'
  BY <1>24, PassoTipo, CriarLinhaTipo DEF GerarCriar, RotulosListar
<1>25. ASSUME NEW s \in Sessoes, AguardandoAprovacaoLer(s)
      PROVE  TypeOK'
  BY <1>25, PassoTipo, SegueSeTipo, LeituraTipo DEF AguardandoAprovacaoLer, RotulosListar
<1>26. ASSUME NEW s \in Sessoes, AguardandoAprovacaoGravar(s)
      PROVE  TypeOK'
  BY <1>26, PassoTipo, TerminaTipo, GravaStatusTipo
     DEF AguardandoAprovacaoGravar, RotulosListar, Status
<1>27. ASSUME NEW s \in Sessoes, AprovarLerOrcamento(s)
      PROVE  TypeOK'
  BY <1>27, PassoTipo, SegueSeTipo, LeituraTipo DEF AprovarLerOrcamento, RotulosDecisao
<1>28. ASSUME NEW s \in Sessoes, AprovarGravar(s)
      PROVE  TypeOK'
  <2>1. alvo[s] \in Ordens /\ pc[s] # "livre"
    BY <1>28, PassoTipo DEF AprovarGravar, RotulosDecisao
  <2>2. CASE orc[alvo[s]].st = "ausente"
    BY <1>28, <2>2, TerminaTipo, LeituraTipo DEF AprovarGravar
  <2>3. CASE orc[alvo[s]].st # "ausente"
    <3>1. TipoBanco'
      <4>1. orc' \in [Ordens -> Orcamento]
        BY <1>28, <2>1, <2>3 DEF AprovarGravar, TipoBanco, Orcamento, SituacaoOrcamento
      <4>2. autorizado' \in [Ordens -> SUBSET {"orcamento", "webhook"}]
        BY <1>28, <2>1, <2>3 DEF AprovarGravar, TipoBanco
      <4>3. QED
        BY <1>28, <2>3, <4>1, <4>2 DEF AprovarGravar, TipoBanco
    <3>2. TipoSessao'
      BY <1>28, <2>1, <2>3, SegueTipo
      DEF AprovarGravar, VerificarNecessidadePecas, RotulosDecisao, RotulosExecucao
    <3>3. QED
      BY <3>1, <3>2
  <2>4. QED
    BY <2>2, <2>3
<1>29. ASSUME NEW s \in Sessoes, RecusarLerOrcamento(s)
      PROVE  TypeOK'
  BY <1>29, PassoTipo, SegueSeTipo, LeituraTipo DEF RecusarLerOrcamento, RotulosDecisao
<1>30. ASSUME NEW s \in Sessoes, RecusarGravar(s)
      PROVE  TypeOK'
  <2>1. alvo[s] \in Ordens /\ pc[s] # "livre"
    BY <1>30, PassoTipo DEF RecusarGravar, RotulosDecisao
  <2>2. CASE orc[alvo[s]].st = "ausente"
    BY <1>30, <2>2, TerminaTipo, LeituraTipo DEF RecusarGravar
  <2>3. CASE orc[alvo[s]].st # "ausente"
    <3>1. TipoBanco'
      <4>1. orc' \in [Ordens -> Orcamento]
        BY <1>30, <2>1, <2>3 DEF RecusarGravar, TipoBanco, Orcamento, SituacaoOrcamento
      <4>2. QED
        BY <1>30, <2>3, <4>1 DEF RecusarGravar, TipoBanco
    <3>2. TipoSessao'
      BY <1>30, <2>1, <2>3, SegueTipo DEF RecusarGravar, RotulosDecisao
    <3>3. QED
      BY <3>1, <3>2
  <2>4. QED
    BY <2>2, <2>3
<1>31. ASSUME NEW s \in Sessoes, EncerrarGravar(s)
      PROVE  TypeOK'
  BY <1>31, PassoTipo, TerminaTipo, GravaStatusTipo
     DEF EncerrarGravar, RotulosDecisao, Status
<1>32. ASSUME NEW s \in Sessoes, EmitirPecasReservadas(s)
      PROVE  TypeOK'
  BY <1>32, PassoTipo, SegueTipo, LeituraTipo DEF EmitirPecasReservadas, RotulosExecucao
<1>33. ASSUME NEW s \in Sessoes, EmitirPecasIndisponiveis(s)
      PROVE  TypeOK'
  BY <1>33, PassoTipo, SegueTipo, LeituraTipo
     DEF EmitirPecasIndisponiveis, RotulosExecucao
<1>34. ASSUME NEW s \in Sessoes, LiberarOrdem(s)
      PROVE  TypeOK'
  BY <1>34, PassoTipo, SegueTipo, TerminaTipo, LeituraTipo
     DEF LiberarOrdem, RotulosExecucao
<1>35. ASSUME NEW s \in Sessoes, AguardandoPecasLer(s)
      PROVE  TypeOK'
  BY <1>35, PassoTipo, SegueSeTipo, LeituraTipo DEF AguardandoPecasLer, RotulosExecucao
<1>36. ASSUME NEW s \in Sessoes, AguardandoPecasGravar(s)
      PROVE  TypeOK'
  BY <1>36, PassoTipo, TerminaTipo, GravaStatusTipo
     DEF AguardandoPecasGravar, RotulosExecucao, Status
<1>37. ASSUME NEW s \in Sessoes, ExecucaoLerSemPecas(s)
      PROVE  TypeOK'
  BY <1>37, PassoTipo, SegueSeTipo, LeituraTipo DEF ExecucaoLerSemPecas, RotulosExecucao
<1>38. ASSUME NEW s \in Sessoes, ExecucaoLerPecasReservadas(s)
      PROVE  TypeOK'
  BY <1>38, PassoTipo, SegueSeTipo, LeituraTipo
     DEF ExecucaoLerPecasReservadas, RotulosExecucao
<1>39. ASSUME NEW s \in Sessoes, ExecucaoGravar(s)
      PROVE  TypeOK'
  BY <1>39, PassoTipo, SegueTipo, GravaStatusTipo
     DEF ExecucaoGravar, RotulosExecucao, Status
<1>40. ASSUME NEW s \in Sessoes, InicioGravar(s)
      PROVE  TypeOK'
  BY <1>40, PassoTipo, TerminaTipo, ComDataTipo
     DEF InicioGravar, RotulosExecucao, TipoBanco, Orcamento, SituacaoOrcamento, Colunas
<1>41. ASSUME NEW s \in Sessoes, FinalizadaLer(s)
      PROVE  TypeOK'
  BY <1>41, PassoTipo, SegueSeTipo, LeituraTipo DEF FinalizadaLer, RotulosEntrega
<1>42. ASSUME NEW s \in Sessoes, FinalizadaGravar(s)
      PROVE  TypeOK'
  BY <1>42, PassoTipo, SegueTipo, GravaStatusTipo
     DEF FinalizadaGravar, RotulosEntrega, Status
<1>43. ASSUME NEW s \in Sessoes, FimGravar(s)
      PROVE  TypeOK'
  BY <1>43, PassoTipo, TerminaTipo, ComDataTipo
     DEF FimGravar, RotulosEntrega, TipoBanco, Orcamento, SituacaoOrcamento, Colunas
<1>44. ASSUME NEW s \in Sessoes, EntregueLer(s)
      PROVE  TypeOK'
  BY <1>44, PassoTipo, SegueSeTipo, LeituraTipo DEF EntregueLer, RotulosEntrega
<1>45. ASSUME NEW s \in Sessoes, EntregueGravar(s)
      PROVE  TypeOK'
  BY <1>45, PassoTipo, TerminaTipo, GravaStatusTipo
     DEF EntregueGravar, RotulosEntrega, Status
<1>46. ASSUME NEW s \in Sessoes, WebhookGravar(s)
      PROVE  TypeOK'
  <2>1. /\ alvo[s] \in Ordens /\ pc[s] # "livre"
        /\ dados[s].novo \in Status
    BY <1>46, PassoTipo DEF WebhookGravar, RotulosWebhook, TipoSessao, Passo
  <2>2. status' \in [Ordens -> Status \cup {"inexistente", "removida"}]
    BY <1>46, <2>1 DEF WebhookGravar, GravaStatus, TipoBanco
  <2>3. marcos' \in [Ordens -> SUBSET Marcos]
    BY <1>46, <2>1 DEF WebhookGravar, GravaStatus, TipoBanco
  <2>4. datas' \in [Ordens -> SUBSET (Colunas \X Colunas)]
    <3>1. "finalizada_em" \in Colunas
      BY DEF Colunas
    <3>2. ComData(alvo[s], "finalizada_em") \in [Ordens -> SUBSET (Colunas \X Colunas)]
      BY <2>1, <3>1, ComDataTipo
    <3>3. QED
      BY <1>46, <3>2 DEF WebhookGravar, TipoBanco
  <2>5. autorizado' \in [Ordens -> SUBSET {"orcamento", "webhook"}]
    BY <1>46, <2>1 DEF WebhookGravar, TipoBanco
  <2>6. TipoBanco'
    BY <1>46, <2>2, <2>3, <2>4, <2>5 DEF WebhookGravar, TipoBanco
  <2>7. TipoSessao'
    BY <1>46, <2>1, SegueTipo DEF WebhookGravar, RotulosWebhook
  <2>8. QED
    BY <2>6, <2>7
<1>47. ASSUME NEW s \in Sessoes, WebhookHistorico(s)
      PROVE  TypeOK'
  BY <1>47, PassoTipo, SegueSemDadosTipo, TerminaTipo, LeituraTipo
     DEF WebhookHistorico, RotulosEntrega, RotulosExecucao, RotulosWebhook
<1>48. ASSUME NEW s \in Sessoes, OrdemAusente(s)
      PROVE  TypeOK'
  BY <1>48, TerminaTipo, LeituraTipo DEF OrdemAusente
<1>49. ASSUME NEW s \in Sessoes, Interromper(s)
       PROVE  TypeOK'
  BY <1>49, TerminaTipo, LeituraTipo DEF Interromper
<1>50. ASSUME NEW o \in Ordens, Deletar(o)
       PROVE  TypeOK'
  <2>1. TipoSessao'
    BY <1>50 DEF Deletar, sessao, TipoSessao
  <2>2. SemOrcamento \in Orcamento
    BY Parametros DEF SemOrcamento, Orcamento, SituacaoOrcamento
  <2>3. TipoBanco'
    BY <1>50, <2>2, Parametros DEF Deletar, TipoBanco
  <2>4. QED
    BY <2>1, <2>3
<1>51. CASE UNCHANGED vars
  BY <1>51 DEF vars, banco, sessao, TipoBanco, TipoSessao
<1>52. ASSUME NEW s \in Sessoes, Requisicao(s)
       PROVE  TypeOK'
  BY <1>52, <1>1, <1>2, <1>3, <1>4, <1>5, <1>6, <1>7, <1>8, <1>9, <1>10, <1>11
     DEF Requisicao
<1>53. ASSUME NEW s \in Sessoes, Avancar(s)
       PROVE  TypeOK'
  BY <1>53, <1>12, <1>13, <1>14, <1>15, <1>16, <1>17, <1>18, <1>19, <1>20, <1>21, <1>22,
     <1>23, <1>24, <1>25, <1>26, <1>27, <1>28, <1>29, <1>30, <1>31, <1>32, <1>33, <1>34,
     <1>35, <1>36, <1>37, <1>38, <1>39, <1>40, <1>41, <1>42, <1>43, <1>44, <1>45, <1>46,
     <1>47, <1>48 DEF Avancar
<1>54. QED
  BY <1>49, <1>50, <1>51, <1>52, <1>53 DEF Next

\* The empty database and idle sessions are well typed.
LEMMA InicioTipo == Init => TypeOK
BY Parametros, VazioTipo DEF Init, TypeOK, TipoBanco, TipoSessao, Orcamento,
   SemOrcamento, SituacaoOrcamento, Rotulos

\* The type invariant: whatever the interleaving of the requests and wherever
\* they are cut short, rows and sessions keep their shape, a session has an
\* order exactly while it serves a request, and it holds a status whenever its
\* next call writes one (update() and the webhook).
THEOREM TipoCorreto == Spec => []TypeOK
<1>1. Init => TypeOK
  BY InicioTipo
<1>2. TypeOK /\ [Next]_vars => TypeOK'
  BY Tipo
<1>3. QED
  BY <1>1, <1>2, PTL DEF Spec

-----------------------------------------------------------------------------
(* The inductive invariant of the life-cycle.                              *)

\* The labels at which a session relies on something it read before.
Fundados == {"patch_gravar", "pecas_verificar", "backlog_reservar", "exec_ler_sem",
             "exec_ler", "espera_ler", "exec_gravar", "espera_gravar", "fin_gravar",
             "entregue_gravar", "web_gravar"}

\* Session s is the only one that moves.
SoMove(s) == \A t \in Sessoes \ {s} :
               pc'[t] = pc[t] /\ alvo'[t] = alvo[t] /\ dados'[t] = dados[t]

\* Milestones and authorisations are never withdrawn.
Cresce == \A o \in Ordens : marcos[o] \subseteq marcos'[o] /\ autorizado[o] \subseteq
   autorizado'[o]

\* Each way a session moves leaves the other sessions as they are.
\* A request begins.
LEMMA ComecaMove ==
  ASSUME TypeOK, NEW s \in Sessoes, NEW o, NEW r, NEW d, Comeca(s, o, r, d)
  PROVE  /\ SoMove(s)
         /\ pc'[s] = r /\ alvo'[s] = o /\ dados'[s] = d
BY DEF TypeOK, TipoSessao, Comeca, SoMove

\* A session goes on.
LEMMA SegueMove ==
  ASSUME TypeOK, NEW s \in Sessoes, NEW r, Segue(s, r)
  PROVE  /\ SoMove(s)
         /\ pc'[s] = r /\ alvo'[s] = alvo[s] /\ dados'[s] = dados[s]
BY DEF TypeOK, TipoSessao, Segue, SoMove

\* A session goes on and drops what it carried.
LEMMA SegueSemDadosMove ==
  ASSUME TypeOK, NEW s \in Sessoes, NEW r, SegueSemDados(s, r)
  PROVE  /\ SoMove(s)
         /\ pc'[s] = r /\ alvo'[s] = alvo[s]
BY DEF TypeOK, TipoSessao, SegueSemDados, SoMove

\* A request ends.
LEMMA TerminaMove ==
  ASSUME TypeOK, NEW s \in Sessoes, Termina(s)
  PROVE  SoMove(s) /\ pc'[s] = "livre"
BY DEF TypeOK, TipoSessao, Termina, SoMove

\* A session goes on or its request ends.
LEMMA SegueSeMove ==
  ASSUME TypeOK, NEW s \in Sessoes, NEW c, NEW r, SegueSe(c, s, r)
  PROVE  /\ SoMove(s)
         /\ \/ pc'[s] = "livre"
            \/ c /\ pc'[s] = r /\ alvo'[s] = alvo[s] /\ dados'[s] = dados[s]
<1>1. CASE c
  BY <1>1, SegueMove DEF SegueSe
<1>2. CASE ~ c
  BY <1>2, TerminaMove DEF SegueSe
<1>3. QED
  BY <1>1, <1>2

\* A label that relies on nothing needs no justification.
LEMMA NadaAFundar ==
  ASSUME NEW s \in Sessoes, pc'[s] \notin Fundados
  PROVE  Justificada(s)'
BY DEF Justificada, Fundados

\* A session that does not move stays justified: what it relies on only grows.
LEMMA Outras ==
  ASSUME TypeOK, \A t \in Sessoes : Justificada(t), Cresce,
         NEW s \in Sessoes, SoMove(s), Justificada(s)'
  PROVE  \A t \in Sessoes : Justificada(t)'
<1> SUFFICES ASSUME NEW t \in Sessoes, t # s
             PROVE  Justificada(t)'
  OBVIOUS
<1>1. pc'[t] = pc[t] /\ alvo'[t] = alvo[t] /\ dados'[t] = dados[t]
  BY DEF SoMove
<1>2. CASE pc[t] \in Fundados
  <2>1. alvo[t] \in Ordens
    BY <1>2 DEF TypeOK, TipoSessao, Fundados
  <2>2. /\ marcos[alvo[t]] \subseteq marcos'[alvo[t]]
        /\ autorizado[alvo[t]] \subseteq autorizado'[alvo[t]]
    BY <2>1 DEF Cresce
  <2>3. QED
    BY <1>1, <2>2 DEF Justificada, Autorizada
<1>3. CASE pc[t] \notin Fundados
  BY <1>1, <1>3, NadaAFundar
<1>4. QED
  BY <1>2, <1>3

\* A call that only reads.
LEMMA LeituraPercurso ==
  ASSUME InvariantePercurso, TypeOK', NEW s \in Sessoes, SoLeitura, SoMove(s),
         Justificada(s)'
  PROVE  InvariantePercurso'
<1>1. Cresce
  BY DEF SoLeitura, Cresce
<1>2. (StatusMarcado /\ MarcosNaoPulados /\ ExecucaoAutorizada /\ SemOrfaos)'
  BY DEF InvariantePercurso, SoLeitura, banco, StatusMarcado, MarcosNaoPulados,
     ExecucaoAutorizada, Autorizada, SemOrfaos, Existe
<1>3. QED
  BY <1>1, <1>2, Outras DEF InvariantePercurso

\* A write of the status. What the new status requires must be recorded.
LEMMA EscritaPercurso ==
  ASSUME InvariantePercurso, TypeOK', NEW s \in Sessoes, SoMove(s), Justificada(s)',
         NEW o \in Ordens, NEW st \in Status, Existe(o), GravaStatus(o, st),
         \A x \in Ordens : autorizado[x] \subseteq autorizado'[x],
         st \in {"IN_PROGRESS", "AWAITING_PARTS"}
           => "AWAITING_APPROVAL" \in marcos[o] /\ autorizado'[o] # {},
         st = "FINISHED" => "IN_PROGRESS" \in marcos[o],
         st = "DELIVERED" => "FINISHED" \in marcos[o],
         UNCHANGED <<orc, pecas>>,
         \A x \in Ordens \ {o} : datas'[x] = datas[x]
  PROVE  InvariantePercurso'
<1>1. /\ status'[o] = st
      /\ \A x \in Ordens \ {o} : status'[x] = status[x] /\ marcos'[x] = marcos[x]
      /\ marcos'[o] = marcos[o] \cup ({st} \cap Marcos)
  BY DEF GravaStatus, InvariantePercurso, TypeOK, TipoBanco
<1>2. Cresce
  BY <1>1 DEF Cresce
<1>3. StatusMarcado'
  BY <1>1 DEF InvariantePercurso, StatusMarcado
<1>4. MarcosNaoPulados'
  BY <1>1 DEF InvariantePercurso, MarcosNaoPulados, Marcos
<1>5. ExecucaoAutorizada'
  BY <1>1 DEF InvariantePercurso, ExecucaoAutorizada, Autorizada, Marcos
<1>6. SemOrfaos'
  BY <1>1 DEF InvariantePercurso, SemOrfaos, Existe
<1>7. \A t \in Sessoes : Justificada(t)'
  BY <1>2, Outras DEF InvariantePercurso
<1>8. QED
  BY <1>3, <1>4, <1>5, <1>6, <1>7 DEF InvariantePercurso

\* A write of the budget, the items or the dates of an order that has its row.
LEMMA LinhaPercurso ==
  ASSUME InvariantePercurso, TypeOK', NEW s \in Sessoes, SoMove(s), Justificada(s)',
         NEW o \in Ordens, Existe(o), UNCHANGED <<status, marcos>>,
         \A x \in Ordens : autorizado[x] \subseteq autorizado'[x],
         \A x \in Ordens \ {o} : /\ orc'[x] = orc[x] /\ pecas'[x] = pecas[x]
                                 /\ datas'[x] = datas[x]
  PROVE  InvariantePercurso'
<1>1. Cresce
  BY DEF Cresce
<1>2. (StatusMarcado /\ MarcosNaoPulados /\ SemOrfaos)'
  BY DEF InvariantePercurso, StatusMarcado, MarcosNaoPulados, SemOrfaos, Existe
<1>3. ExecucaoAutorizada'
  BY DEF InvariantePercurso, ExecucaoAutorizada, Autorizada
<1>4. QED
  BY <1>1, <1>2, <1>3, Outras DEF InvariantePercurso

\* The common form of a write of the status, by a session that ends.
LEMMA GravaETermina ==
  ASSUME InvariantePercurso, TypeOK', NEW s \in Sessoes, NEW r \in Ocupados, Passo(s, r),
         NEW st \in Status, GravaStatus(alvo[s], st), Termina(s),
         UNCHANGED <<orc, pecas, datas, pagos, autorizado>>,
         st \in {"IN_PROGRESS", "AWAITING_PARTS"}
           => "AWAITING_APPROVAL" \in marcos[alvo[s]] /\ Autorizada(alvo[s]),
         st = "FINISHED" => "IN_PROGRESS" \in marcos[alvo[s]],
         st = "DELIVERED" => "FINISHED" \in marcos[alvo[s]]
  PROVE  InvariantePercurso'
<1>1. TypeOK
  BY DEF InvariantePercurso
<1>2. alvo[s] \in Ordens /\ Existe(alvo[s])
  BY <1>1, PassoTipo DEF TypeOK, Passo
<1>3. SoMove(s) /\ Justificada(s)'
  BY <1>1, TerminaMove, NadaAFundar DEF Fundados
<1>4. QED
  BY <1>2, <1>3, EscritaPercurso DEF Autorizada

\* CriarLinhaOrcamento, from either of the calls that create a budget.
LEMMA CriarLinhaPercurso ==
  ASSUME InvariantePercurso, TypeOK', NEW s \in Sessoes, NEW r \in Ocupados \ Fundados,
         alvo[s] \in Ordens, Existe(alvo[s]), CriarLinhaOrcamento(s, r)
  PROVE  InvariantePercurso'
<1>1. TypeOK
  BY DEF InvariantePercurso
<1>2. CASE orc[alvo[s]].st = "ausente"
  <2>1. SoMove(s) /\ Justificada(s)'
    BY <1>1, <1>2, SegueSemDadosMove, NadaAFundar DEF CriarLinhaOrcamento
  <2>2. QED
    BY <1>1, <1>2, <2>1, LinhaPercurso DEF CriarLinhaOrcamento, TypeOK, TipoBanco
<1>3. CASE orc[alvo[s]].st # "ausente"
  BY <1>1, <1>3, TerminaMove, NadaAFundar, LeituraPercurso
     DEF CriarLinhaOrcamento, Fundados
<1>4. QED
  BY <1>2, <1>3

\* Every step preserves the inductive invariant.
LEMMA Percurso ==
  ASSUME InvariantePercurso, [Next]_vars
  PROVE  InvariantePercurso'
<1> USE RotulosTipo DEF InvariantePercurso, TypeOK
<1>0. TypeOK'
  BY Tipo
<1>1. ASSUME NEW s \in Sessoes, NEW o \in Ordens, NEW t \in Totais, NEW l \in Listas,
             Criar(s, o, t, l)
      PROVE  InvariantePercurso'
  <2>1. SoMove(s) /\ Justificada(s)'
    BY <1>0, <1>1, ComecaMove, NadaAFundar DEF Criar, Fundados
  <2>2. /\ status'[o] = "RECEIVED" /\ marcos'[o] = marcos[o]
        /\ \A x \in Ordens \ {o} : status'[x] = status[x] /\ marcos'[x] = marcos[x]
    BY <1>1 DEF Criar, GravaStatus, TypeOK, TipoBanco, Marcos
  <2>3. Cresce
    BY <1>0, <1>1, <2>2 DEF Cresce, Criar
  <2>4. (StatusMarcado /\ MarcosNaoPulados)'
    BY <2>2 DEF StatusMarcado, MarcosNaoPulados, Marcos
  <2>5. (ExecucaoAutorizada /\ SemOrfaos)'
    BY <1>0, <1>1, <2>2
       DEF Criar, ExecucaoAutorizada, Autorizada, SemOrfaos, Existe, Status
  <2>6. QED
    BY <1>0, <2>1, <2>3, <2>4, <2>5, Outras
<1>2. ASSUME NEW s \in Sessoes, NEW o \in Ordens, NEW t \in Totais, NEW l \in Listas,
             ListarServicosInsumos(s, o, t, l)
      PROVE  InvariantePercurso'
  BY <1>0, <1>2, ComecaMove, NadaAFundar, LeituraPercurso
     DEF ListarServicosInsumos, Fundados
<1>3. ASSUME NEW s \in Sessoes, NEW o \in Ordens, NEW st \in Editaveis, Atualizar(s, o,
             st)
      PROVE  InvariantePercurso'
  <2>1. /\ SoMove(s) /\ pc'[s] = "patch_gravar"
        /\ dados'[s] = [Vazio EXCEPT !.novo = st]
    BY <1>0, <1>3, ComecaMove DEF Atualizar
  <2>2. Justificada(s)'
    BY <1>0, <1>3, <2>1 DEF Justificada, Vazio
  <2>3. QED
    BY <1>0, <1>3, <2>1, <2>2, LeituraPercurso DEF Atualizar
<1>4. ASSUME NEW s \in Sessoes, NEW o \in Ordens, NEW st \in Status, Webhook(s, o, st)
      PROVE  InvariantePercurso'
  <2>1. /\ SoMove(s) /\ pc'[s] = "web_gravar" /\ alvo'[s] = o
        /\ dados'[s] = [Vazio EXCEPT !.novo = st]
    BY <1>0, <1>4, ComecaMove DEF Webhook
  <2>2. dados'[s].novo = st
    BY <2>1 DEF Vazio
  <2>3. Existe(o) /\ st \in validTransitions[status[o]]
    BY <1>4 DEF Webhook
  <2>4. /\ st = "IN_PROGRESS" => status[o] \in {"AWAITING_APPROVAL", "AWAITING_PARTS"}
        /\ st \in {"AWAITING_PARTS", "FINISHED"} => status[o] = "IN_PROGRESS"
        /\ st = "DELIVERED" => status[o] = "FINISHED"
    BY <2>3 DEF validTransitions, Existe, Status
  <2>5. /\ st = "IN_PROGRESS" => "AWAITING_APPROVAL" \in marcos[o]
        /\ st \in {"AWAITING_PARTS", "FINISHED"} => "IN_PROGRESS" \in marcos[o]
        /\ st = "DELIVERED" => "FINISHED" \in marcos[o]
    BY <2>4 DEF StatusMarcado, MarcosNaoPulados, Marcos
  <2>6. marcos' = marcos
    BY <1>4 DEF Webhook, SoLeitura
  <2>7. Justificada(s)'
    BY <2>1, <2>2, <2>5, <2>6 DEF Justificada
  <2>8. QED
    BY <1>0, <1>4, <2>1, <2>7, LeituraPercurso DEF Webhook
<1>5. ASSUME NEW s \in Sessoes, NEW o \in Ordens, Assumir(s, o)
      PROVE  InvariantePercurso'
  BY <1>0, <1>5, ComecaMove, NadaAFundar, LeituraPercurso DEF Assumir, Fundados
<1>6. ASSUME NEW s \in Sessoes, NEW o \in Ordens, AprovarOrcamento(s, o)
      PROVE  InvariantePercurso'
  BY <1>0, <1>6, ComecaMove, NadaAFundar, LeituraPercurso DEF AprovarOrcamento, Fundados
<1>7. ASSUME NEW s \in Sessoes, NEW o \in Ordens, RecusarOrcamento(s, o)
      PROVE  InvariantePercurso'
  BY <1>0, <1>7, ComecaMove, NadaAFundar, LeituraPercurso DEF RecusarOrcamento, Fundados
<1>8. ASSUME NEW s \in Sessoes, NEW o \in Ordens, FinalizarExecucao(s, o)
      PROVE  InvariantePercurso'
  BY <1>0, <1>8, ComecaMove, NadaAFundar, LeituraPercurso DEF FinalizarExecucao, Fundados
<1>9. ASSUME NEW s \in Sessoes, NEW o \in Ordens, RegistrarEntrega(s, o)
      PROVE  InvariantePercurso'
  BY <1>0, <1>9, ComecaMove, NadaAFundar, LeituraPercurso DEF RegistrarEntrega, Fundados
<1>10. ASSUME NEW s \in Sessoes, NEW o \in Ordens, RegistrarPagamento(s, o)
       PROVE  InvariantePercurso'
  <2>1. SoMove(s) /\ Justificada(s)'
    BY <1>0, <1>10, ComecaMove, NadaAFundar DEF RegistrarPagamento, Fundados
  <2>2. Cresce
    BY <1>10 DEF RegistrarPagamento, Cresce
  <2>3. (StatusMarcado /\ MarcosNaoPulados /\ ExecucaoAutorizada /\ SemOrfaos)'
    BY <1>10 DEF RegistrarPagamento, StatusMarcado, MarcosNaoPulados, ExecucaoAutorizada,
       Autorizada, SemOrfaos, Existe
  <2>4. QED
    BY <1>0, <2>1, <2>2, <2>3, Outras
<1>11. ASSUME NEW s \in Sessoes, NEW o \in Ordens, ValidarBacklog(s, o)
       PROVE  InvariantePercurso'
  <2>1. Autorizada(o)
    BY <1>11 DEF ValidarBacklog, ExecucaoAutorizada
  <2>2. SoMove(s) /\ Justificada(s)'
    BY <1>0, <1>11, <2>1, ComecaMove
       DEF ValidarBacklog, SoLeitura, Justificada, Autorizada
  <2>3. QED
    BY <1>0, <1>11, <2>2, LeituraPercurso DEF ValidarBacklog
<1>12. ASSUME NEW s \in Sessoes, CriarHistorico(s)
       PROVE  InvariantePercurso'
  BY <1>0, <1>12, SegueMove, NadaAFundar, LeituraPercurso DEF CriarHistorico, Fundados
<1>13. ASSUME NEW s \in Sessoes, CriarItens(s)
       PROVE  InvariantePercurso'
  <2>1. alvo[s] \in Ordens /\ Existe(alvo[s])
    BY <1>0, <1>13, PassoTipo DEF CriarItens, RotulosCriar, Passo
  <2>2. SoMove(s) /\ Justificada(s)'
    BY <1>0, <1>13, SegueMove, NadaAFundar DEF CriarItens, Fundados
  <2>3. QED
    BY <1>0, <1>13, <2>1, <2>2, LinhaPercurso DEF CriarItens, ComData, TipoBanco
<1>14. ASSUME NEW s \in Sessoes, CriarOrcamento(s)
       PROVE  InvariantePercurso'
  BY <1>0, <1>14, PassoTipo, CriarLinhaPercurso
     DEF CriarOrcamento, RotulosCriar, Fundados, Passo
<1>15. ASSUME NEW s \in Sessoes, RecebidaLer(s)
       PROVE  InvariantePercurso'
  BY <1>0, <1>15, SegueSeMove, NadaAFundar, LeituraPercurso DEF RecebidaLer, Fundados
<1>16. ASSUME NEW s \in Sessoes, RecebidaGravar(s)
       PROVE  InvariantePercurso'
  <2>1. Passo(s, "recebida_gravar") /\ Termina(s)
    BY <1>16 DEF RecebidaGravar
  <2>2. QED
    BY <1>0, <1>16, <2>1, GravaETermina DEF RecebidaGravar, RotulosCriar, Status
<1>17. ASSUME NEW s \in Sessoes, DiagnosticoLer(s)
       PROVE  InvariantePercurso'
  BY <1>0, <1>17, SegueSeMove, NadaAFundar, LeituraPercurso DEF DiagnosticoLer, Fundados
<1>18. ASSUME NEW s \in Sessoes, DiagnosticoGravar(s)
       PROVE  InvariantePercurso'
  <2>1. Passo(s, "diag_gravar") /\ Termina(s)
    BY <1>18 DEF DiagnosticoGravar
  <2>2. QED
    BY <1>0, <1>18, <2>1, GravaETermina DEF DiagnosticoGravar, RotulosTriagem, Status
<1>19. ASSUME NEW s \in Sessoes, AtualizarGravar(s)
       PROVE  InvariantePercurso'
  <2>1. /\ Passo(s, "patch_gravar") /\ Termina(s)
        /\ GravaStatus(alvo[s], dados[s].novo)
    BY <1>19 DEF AtualizarGravar
  <2>2. dados[s].novo \in Editaveis
    BY <2>1 DEF Justificada, Passo
  <2>3. QED
    BY <1>0, <1>19, <2>1, <2>2, GravaETermina
       DEF AtualizarGravar, RotulosTriagem, Editaveis, Status
<1>20. ASSUME NEW s \in Sessoes, ListarItens(s)
       PROVE  InvariantePercurso'
  <2>1. alvo[s] \in Ordens /\ Existe(alvo[s])
    BY <1>0, <1>20, PassoTipo DEF ListarItens, RotulosListar, Passo
  <2>2. SoMove(s) /\ Justificada(s)'
    BY <1>0, <1>20, SegueMove, NadaAFundar DEF ListarItens, Fundados
  <2>3. QED
    BY <1>0, <1>20, <2>1, <2>2, LinhaPercurso DEF ListarItens, ComData, TipoBanco
<1>21. ASSUME NEW s \in Sessoes, GerarLer(s)
       PROVE  InvariantePercurso'
  BY <1>0, <1>21, SegueSeMove, NadaAFundar, LeituraPercurso DEF GerarLer, Fundados
<1>22. ASSUME NEW s \in Sessoes, GerarLerOrcamento(s)
       PROVE  InvariantePercurso'
  BY <1>0, <1>22, SegueSeMove, NadaAFundar, LeituraPercurso
     DEF GerarLerOrcamento, Fundados
<1>23. ASSUME NEW s \in Sessoes, GerarAtualizar(s)
       PROVE  InvariantePercurso'
  <2>1. alvo[s] \in Ordens /\ Existe(alvo[s])
    BY <1>0, <1>23, PassoTipo DEF GerarAtualizar, RotulosListar, Passo
  <2>2. SoMove(s) /\ Justificada(s)'
    BY <1>0, <1>23, SegueSemDadosMove, NadaAFundar DEF GerarAtualizar, Fundados
  <2>3. QED
    BY <1>0, <1>23, <2>1, <2>2, LinhaPercurso DEF GerarAtualizar, ComData, TipoBanco
<1>24. ASSUME NEW s \in Sessoes, GerarCriar(s)
       PROVE  InvariantePercurso'
  BY <1>0, <1>24, PassoTipo, CriarLinhaPercurso
     DEF GerarCriar, RotulosListar, Fundados, Passo
<1>25. ASSUME NEW s \in Sessoes, AguardandoAprovacaoLer(s)
       PROVE  InvariantePercurso'
  BY <1>0, <1>25, SegueSeMove, NadaAFundar, LeituraPercurso
     DEF AguardandoAprovacaoLer, Fundados
<1>26. ASSUME NEW s \in Sessoes, AguardandoAprovacaoGravar(s)
       PROVE  InvariantePercurso'
  <2>1. Passo(s, "aa_gravar") /\ Termina(s)
    BY <1>26 DEF AguardandoAprovacaoGravar
  <2>2. QED
    BY <1>0, <1>26, <2>1, GravaETermina
       DEF AguardandoAprovacaoGravar, RotulosListar, Status
<1>27. ASSUME NEW s \in Sessoes, AprovarLerOrcamento(s)
       PROVE  InvariantePercurso'
  BY <1>0, <1>27, SegueSeMove, NadaAFundar, LeituraPercurso
     DEF AprovarLerOrcamento, Fundados
<1>28. ASSUME NEW s \in Sessoes, AprovarGravar(s)
       PROVE  InvariantePercurso'
  <2>1. alvo[s] \in Ordens /\ Existe(alvo[s])
    BY <1>0, <1>28, PassoTipo DEF AprovarGravar, RotulosDecisao, Passo
  <2>2. CASE orc[alvo[s]].st = "ausente"
    BY <1>0, <1>28, <2>2, TerminaMove, NadaAFundar, LeituraPercurso
       DEF AprovarGravar, Fundados
  <2>3. CASE orc[alvo[s]].st # "ausente"
    <3>1. /\ autorizado' = [autorizado EXCEPT ![alvo[s]] = @ \cup {"orcamento"}]
          /\ orc' = [orc EXCEPT ![alvo[s]].st = "APPROVED"]
          /\ UNCHANGED <<status, pecas, datas, marcos>>
      BY <1>0, <1>28, <2>3 DEF AprovarGravar
    <3>2. autorizado'[alvo[s]] # {} /\ \A x \in Ordens : autorizado[x] \subseteq
       autorizado'[x]
      BY <2>1, <3>1 DEF TipoBanco
    <3>3. /\ SoMove(s) /\ alvo'[s] = alvo[s]
          /\ pc'[s] \in {"pecas_verificar", "exec_ler_sem"}
      BY <1>0, <1>28, <2>3, SegueMove DEF AprovarGravar, VerificarNecessidadePecas
    <3>4. Justificada(s)'
      BY <3>2, <3>3 DEF Justificada, Autorizada
    <3>5. QED
      BY <1>0, <2>1, <3>1, <3>2, <3>3, <3>4, LinhaPercurso DEF TipoBanco
  <2>4. QED
    BY <2>2, <2>3
<1>29. ASSUME NEW s \in Sessoes, RecusarLerOrcamento(s)
       PROVE  InvariantePercurso'
  BY <1>0, <1>29, SegueSeMove, NadaAFundar, LeituraPercurso
     DEF RecusarLerOrcamento, Fundados
<1>30. ASSUME NEW s \in Sessoes, RecusarGravar(s)
       PROVE  InvariantePercurso'
  <2>1. alvo[s] \in Ordens /\ Existe(alvo[s])
    BY <1>0, <1>30, PassoTipo DEF RecusarGravar, RotulosDecisao, Passo
  <2>2. CASE orc[alvo[s]].st = "ausente"
    BY <1>0, <1>30, <2>2, TerminaMove, NadaAFundar, LeituraPercurso
       DEF RecusarGravar, Fundados
  <2>3. CASE orc[alvo[s]].st # "ausente"
    <3>1. SoMove(s) /\ Justificada(s)'
      BY <1>0, <1>30, <2>3, SegueMove, NadaAFundar DEF RecusarGravar, Fundados
    <3>2. /\ orc' = [orc EXCEPT ![alvo[s]].st = "REJECTED"]
          /\ UNCHANGED <<status, pecas, datas, marcos, autorizado>>
      BY <1>0, <1>30, <2>3 DEF RecusarGravar
    <3>3. QED
      BY <1>0, <2>1, <3>1, <3>2, LinhaPercurso DEF TipoBanco
  <2>4. QED
    BY <2>2, <2>3
<1>31. ASSUME NEW s \in Sessoes, EncerrarGravar(s)
       PROVE  InvariantePercurso'
  <2>1. Passo(s, "encerrar_gravar") /\ Termina(s)
    BY <1>31 DEF EncerrarGravar
  <2>2. QED
    BY <1>0, <1>31, <2>1, GravaETermina DEF EncerrarGravar, RotulosDecisao, Status
<1>32. ASSUME NEW s \in Sessoes, EmitirPecasReservadas(s)
       PROVE  InvariantePercurso'
  <2>1. Autorizada(alvo[s])
    BY <1>32 DEF EmitirPecasReservadas, Passo, Justificada
  <2>2. SoMove(s) /\ Justificada(s)'
    BY <1>0, <1>32, <2>1, SegueMove
       DEF EmitirPecasReservadas, SoLeitura, Justificada, Autorizada
  <2>3. QED
    BY <1>0, <1>32, <2>2, LeituraPercurso DEF EmitirPecasReservadas
<1>33. ASSUME NEW s \in Sessoes, EmitirPecasIndisponiveis(s)
       PROVE  InvariantePercurso'
  <2>1. Autorizada(alvo[s])
    BY <1>33 DEF EmitirPecasIndisponiveis, Passo, Justificada
  <2>2. SoMove(s) /\ Justificada(s)'
    BY <1>0, <1>33, <2>1, SegueMove
       DEF EmitirPecasIndisponiveis, SoLeitura, Justificada, Autorizada
  <2>3. QED
    BY <1>0, <1>33, <2>2, LeituraPercurso DEF EmitirPecasIndisponiveis
<1>34. ASSUME NEW s \in Sessoes, LiberarOrdem(s)
       PROVE  InvariantePercurso'
  <2>1. Autorizada(alvo[s])
    BY <1>34 DEF LiberarOrdem, Passo, Justificada
  <2>2. SoMove(s) /\ Justificada(s)'
    BY <1>0, <1>34, <2>1, SegueMove, TerminaMove
       DEF LiberarOrdem, SoLeitura, Justificada, Autorizada
  <2>3. QED
    BY <1>0, <1>34, <2>2, LeituraPercurso DEF LiberarOrdem
<1>35. ASSUME NEW s \in Sessoes, AguardandoPecasLer(s)
       PROVE  InvariantePercurso'
  <2>1. alvo[s] \in Ordens
    BY <1>0, <1>35, PassoTipo DEF AguardandoPecasLer, RotulosExecucao
  <2>2. /\ SoMove(s) /\ UNCHANGED <<marcos, autorizado>>
        /\ pc'[s] # "livre" => pc'[s] = "espera_gravar" /\ alvo'[s] = alvo[s]
                                /\ status[alvo[s]] = "AWAITING_APPROVAL"
    BY <1>0, <1>35, SegueSeMove DEF AguardandoPecasLer, SoLeitura
  <2>3. Justificada(s)'
    BY <1>0, <1>35, <2>1, <2>2
       DEF AguardandoPecasLer, Passo, Justificada, Autorizada, StatusMarcado, Marcos
  <2>4. QED
    BY <1>0, <1>35, <2>2, <2>3, LeituraPercurso DEF AguardandoPecasLer
<1>36. ASSUME NEW s \in Sessoes, AguardandoPecasGravar(s)
       PROVE  InvariantePercurso'
  <2>1. Passo(s, "espera_gravar") /\ Termina(s)
    BY <1>36 DEF AguardandoPecasGravar
  <2>2. QED
    BY <1>0, <1>36, <2>1, GravaETermina
       DEF AguardandoPecasGravar, RotulosExecucao, Status, Justificada, Passo
<1>37. ASSUME NEW s \in Sessoes, ExecucaoLerSemPecas(s)
       PROVE  InvariantePercurso'
  <2>1. alvo[s] \in Ordens
    BY <1>0, <1>37, PassoTipo DEF ExecucaoLerSemPecas, RotulosExecucao
  <2>2. /\ SoMove(s) /\ UNCHANGED <<marcos, autorizado>>
        /\ pc'[s] # "livre" => pc'[s] = "exec_gravar" /\ alvo'[s] = alvo[s]
                                /\ status[alvo[s]] = "AWAITING_APPROVAL"
    BY <1>0, <1>37, SegueSeMove DEF ExecucaoLerSemPecas, SoLeitura
  <2>3. Justificada(s)'
    BY <1>0, <1>37, <2>1, <2>2
       DEF ExecucaoLerSemPecas, Passo, Justificada, Autorizada, StatusMarcado, Marcos
  <2>4. QED
    BY <1>0, <1>37, <2>2, <2>3, LeituraPercurso DEF ExecucaoLerSemPecas
<1>38. ASSUME NEW s \in Sessoes, ExecucaoLerPecasReservadas(s)
       PROVE  InvariantePercurso'
  <2>1. alvo[s] \in Ordens
    BY <1>0, <1>38, PassoTipo DEF ExecucaoLerPecasReservadas, RotulosExecucao
  <2>2. /\ SoMove(s) /\ UNCHANGED <<marcos, autorizado>>
        /\ pc'[s] # "livre" => pc'[s] = "exec_gravar" /\ alvo'[s] = alvo[s]
                                /\ status[alvo[s]] \in {"AWAITING_APPROVAL",
                                   "AWAITING_PARTS"}
    BY <1>0, <1>38, SegueMove, TerminaMove
       DEF ExecucaoLerPecasReservadas, SoLeitura, SegueSe
  <2>3. Justificada(s)'
    BY <1>0, <1>38, <2>1, <2>2 DEF ExecucaoLerPecasReservadas, Passo, Justificada,
       Autorizada, StatusMarcado, MarcosNaoPulados, Marcos
  <2>4. QED
    BY <1>0, <1>38, <2>2, <2>3, LeituraPercurso DEF ExecucaoLerPecasReservadas
<1>39. ASSUME NEW s \in Sessoes, ExecucaoGravar(s)
       PROVE  InvariantePercurso'
  <2>1. alvo[s] \in Ordens /\ Existe(alvo[s])
    BY <1>0, <1>39, PassoTipo DEF ExecucaoGravar, RotulosExecucao, Passo
  <2>2. SoMove(s) /\ Justificada(s)'
    BY <1>0, <1>39, SegueMove, NadaAFundar DEF ExecucaoGravar, Fundados
  <2>3. QED
    BY <1>0, <1>39, <2>1, <2>2, EscritaPercurso
       DEF ExecucaoGravar, Passo, Justificada, Autorizada, Status
<1>40. ASSUME NEW s \in Sessoes, InicioGravar(s)
       PROVE  InvariantePercurso'
  <2>1. alvo[s] \in Ordens /\ Existe(alvo[s])
    BY <1>0, <1>40, PassoTipo DEF InicioGravar, RotulosExecucao, Passo
  <2>2. SoMove(s) /\ Justificada(s)'
    BY <1>0, <1>40, TerminaMove, NadaAFundar DEF InicioGravar, Fundados
  <2>3. QED
    BY <1>0, <1>40, <2>1, <2>2, LinhaPercurso DEF InicioGravar, ComData, TipoBanco
<1>41. ASSUME NEW s \in Sessoes, FinalizadaLer(s)
       PROVE  InvariantePercurso'
  <2>1. alvo[s] \in Ordens
    BY <1>0, <1>41, PassoTipo DEF FinalizadaLer, RotulosEntrega
  <2>2. /\ SoMove(s) /\ UNCHANGED <<marcos, autorizado>>
        /\ pc'[s] # "livre" => pc'[s] = "fin_gravar" /\ alvo'[s] = alvo[s]
                                /\ status[alvo[s]] = "IN_PROGRESS"
    BY <1>0, <1>41, SegueSeMove DEF FinalizadaLer, SoLeitura
  <2>3. Justificada(s)'
    BY <1>0, <1>41, <2>1, <2>2
       DEF FinalizadaLer, Passo, Justificada, Autorizada, StatusMarcado, Marcos
  <2>4. QED
    BY <1>0, <1>41, <2>2, <2>3, LeituraPercurso DEF FinalizadaLer
<1>42. ASSUME NEW s \in Sessoes, FinalizadaGravar(s)
       PROVE  InvariantePercurso'
  <2>1. alvo[s] \in Ordens /\ Existe(alvo[s])
    BY <1>0, <1>42, PassoTipo DEF FinalizadaGravar, RotulosEntrega, Passo
  <2>2. SoMove(s) /\ Justificada(s)'
    BY <1>0, <1>42, SegueMove, NadaAFundar DEF FinalizadaGravar, Fundados
  <2>3. QED
    BY <1>0, <1>42, <2>1, <2>2, EscritaPercurso
       DEF FinalizadaGravar, Passo, Justificada, Autorizada, Status
<1>43. ASSUME NEW s \in Sessoes, FimGravar(s)
       PROVE  InvariantePercurso'
  <2>1. alvo[s] \in Ordens /\ Existe(alvo[s])
    BY <1>0, <1>43, PassoTipo DEF FimGravar, RotulosEntrega, Passo
  <2>2. SoMove(s) /\ Justificada(s)'
    BY <1>0, <1>43, TerminaMove, NadaAFundar DEF FimGravar, Fundados
  <2>3. QED
    BY <1>0, <1>43, <2>1, <2>2, LinhaPercurso DEF FimGravar, ComData, TipoBanco
<1>44. ASSUME NEW s \in Sessoes, EntregueLer(s)
       PROVE  InvariantePercurso'
  <2>1. alvo[s] \in Ordens
    BY <1>0, <1>44, PassoTipo DEF EntregueLer, RotulosEntrega
  <2>2. /\ SoMove(s) /\ UNCHANGED <<marcos, autorizado>>
        /\ pc'[s] # "livre" => pc'[s] = "entregue_gravar" /\ alvo'[s] = alvo[s]
                                /\ status[alvo[s]] = "FINISHED"
    BY <1>0, <1>44, SegueSeMove DEF EntregueLer, SoLeitura
  <2>3. Justificada(s)'
    BY <1>0, <1>44, <2>1, <2>2
       DEF EntregueLer, Passo, Justificada, Autorizada, StatusMarcado, Marcos
  <2>4. QED
    BY <1>0, <1>44, <2>2, <2>3, LeituraPercurso DEF EntregueLer
<1>45. ASSUME NEW s \in Sessoes, EntregueGravar(s)
       PROVE  InvariantePercurso'
  <2>1. Passo(s, "entregue_gravar") /\ Termina(s)
    BY <1>45 DEF EntregueGravar
  <2>2. QED
    BY <1>0, <1>45, <2>1, GravaETermina
       DEF EntregueGravar, RotulosEntrega, Status, Justificada, Passo
<1>46. ASSUME NEW s \in Sessoes, WebhookGravar(s)
       PROVE  InvariantePercurso'
  <2>1. /\ alvo[s] \in Ordens /\ Existe(alvo[s]) /\ pc[s] = "web_gravar"
        /\ dados[s].novo \in Status /\ GravaStatus(alvo[s], dados[s].novo)
    BY <1>0, <1>46, PassoTipo DEF WebhookGravar, RotulosWebhook, Passo, TipoSessao
  <2>2. SoMove(s) /\ Justificada(s)'
    BY <1>0, <1>46, SegueMove, NadaAFundar DEF WebhookGravar, Fundados
  <2>3. /\ \A x \in Ordens : autorizado[x] \subseteq autorizado'[x]
        /\ dados[s].novo = "IN_PROGRESS" => autorizado'[alvo[s]] # {}
    BY <1>0, <1>46, <2>1 DEF WebhookGravar, TipoBanco
  <2>4. /\ dados[s].novo = "IN_PROGRESS" => "AWAITING_APPROVAL" \in marcos[alvo[s]]
        /\ dados[s].novo \in {"AWAITING_PARTS", "FINISHED"} => "IN_PROGRESS" \in
           marcos[alvo[s]]
        /\ dados[s].novo = "DELIVERED" => "FINISHED" \in marcos[alvo[s]]
    BY <2>1 DEF Justificada
  <2>5. "IN_PROGRESS" \in marcos[alvo[s]]
          => "AWAITING_APPROVAL" \in marcos[alvo[s]] /\ autorizado[alvo[s]] # {}
    BY <2>1 DEF MarcosNaoPulados, ExecucaoAutorizada, Autorizada
  <2>6. dados[s].novo \in {"IN_PROGRESS", "AWAITING_PARTS"}
          => "AWAITING_APPROVAL" \in marcos[alvo[s]] /\ autorizado'[alvo[s]] # {}
    BY <2>1, <2>3, <2>4, <2>5
  <2>7. /\ UNCHANGED <<orc, pecas>>
        /\ \A x \in Ordens \ {alvo[s]} : datas'[x] = datas[x]
    BY <1>46 DEF WebhookGravar, ComData, TipoBanco
  <2>8. QED
    BY <1>0, <2>1, <2>2, <2>3, <2>4, <2>6, <2>7, EscritaPercurso
<1>47. ASSUME NEW s \in Sessoes, WebhookHistorico(s)
       PROVE  InvariantePercurso'
  <2>1. SoMove(s) /\ pc'[s] \in {"inicio_gravar", "fim_gravar", "livre"}
    BY <1>0, <1>47, SegueSemDadosMove, TerminaMove DEF WebhookHistorico
  <2>2. QED
    BY <1>0, <1>47, <2>1, NadaAFundar, LeituraPercurso DEF WebhookHistorico, Fundados
<1>48. ASSUME NEW s \in Sessoes, OrdemAusente(s)
       PROVE  InvariantePercurso'
  BY <1>0, <1>48, TerminaMove, NadaAFundar, LeituraPercurso DEF OrdemAusente, Fundados
<1>49. ASSUME NEW s \in Sessoes, Interromper(s)
       PROVE  InvariantePercurso'
  BY <1>0, <1>49, TerminaMove, NadaAFundar, LeituraPercurso DEF Interromper, Fundados
<1>50. ASSUME NEW o \in Ordens, Deletar(o)
       PROVE  InvariantePercurso'
  <2>1. /\ status'[o] = "removida" /\ orc'[o] = SemOrcamento
        /\ pecas'[o] = SemPecas /\ datas'[o] = {}
        /\ \A x \in Ordens \ {o} : /\ status'[x] = status[x] /\ orc'[x] = orc[x]
                                   /\ pecas'[x] = pecas[x] /\ datas'[x] = datas[x]
        /\ UNCHANGED <<sessao, marcos, autorizado>>
    BY <1>50 DEF Deletar, TipoBanco
  <2>2. (StatusMarcado /\ MarcosNaoPulados /\ ExecucaoAutorizada)'
    BY <2>1 DEF StatusMarcado, MarcosNaoPulados, ExecucaoAutorizada, Autorizada, Marcos
  <2>3. SemOrfaos'
    BY <2>1 DEF SemOrfaos, Existe
  <2>4. \A t \in Sessoes : Justificada(t)'
    BY <2>1 DEF sessao, Justificada, Autorizada
  <2>5. QED
    BY <1>0, <2>2, <2>3, <2>4
<1>51. CASE UNCHANGED vars
  <2>1. (StatusMarcado /\ MarcosNaoPulados /\ ExecucaoAutorizada /\ SemOrfaos)'
    BY <1>51
       DEF vars, banco, StatusMarcado, MarcosNaoPulados, ExecucaoAutorizada, Autorizada,
       SemOrfaos, Existe
  <2>2. \A t \in Sessoes : Justificada(t)'
    BY <1>51 DEF vars, sessao, Justificada, Autorizada
  <2>3. QED
    BY <1>0, <2>1, <2>2
<1>52. ASSUME NEW s \in Sessoes, Requisicao(s)
       PROVE  InvariantePercurso'
  BY <1>52, <1>1, <1>2, <1>3, <1>4, <1>5, <1>6, <1>7, <1>8, <1>9, <1>10, <1>11
     DEF Requisicao
<1>53. ASSUME NEW s \in Sessoes, Avancar(s)
       PROVE  InvariantePercurso'
  BY <1>53, <1>12, <1>13, <1>14, <1>15, <1>16, <1>17, <1>18, <1>19, <1>20, <1>21, <1>22,
     <1>23, <1>24, <1>25, <1>26, <1>27, <1>28, <1>29, <1>30, <1>31, <1>32, <1>33, <1>34,
     <1>35, <1>36, <1>37, <1>38, <1>39, <1>40, <1>41, <1>42, <1>43, <1>44, <1>45, <1>46,
     <1>47, <1>48 DEF Avancar
<1>54. QED
  BY <1>49, <1>50, <1>51, <1>52, <1>53 DEF Next

LEMMA InicioPercurso == Init => InvariantePercurso
<1> SUFFICES ASSUME Init PROVE InvariantePercurso
  OBVIOUS
<1>1. TypeOK
  BY InicioTipo
<1>2. StatusMarcado /\ MarcosNaoPulados /\ ExecucaoAutorizada /\ SemOrfaos
  BY DEF Init, StatusMarcado, MarcosNaoPulados, ExecucaoAutorizada, SemOrfaos, Marcos
<1>3. \A s \in Sessoes : Justificada(s)
  BY DEF Init, Justificada
<1>4. QED
  BY <1>1, <1>2, <1>3 DEF InvariantePercurso

\* The inductive invariant holds in every reachable state: what a session relies
\* on between the read that allowed a write and that write is never withdrawn
\* by another request.
THEOREM PercursoCorreto == Spec => []InvariantePercurso
<1>1. InvariantePercurso /\ [Next]_vars => InvariantePercurso'
  BY Percurso
<1>2. QED
  BY <1>1, InicioPercurso, PTL DEF Spec

\* No order skips a milestone, although every handler of the status writes an
\* await after the read that allowed it.
THEOREM NenhumMarcoPulado == Spec => []MarcosNaoPulados
<1>1. InvariantePercurso => MarcosNaoPulados
  BY DEF InvariantePercurso
<1>2. QED
  BY <1>1, PercursoCorreto, PTL

\* No order executes or waits for parts without an approved budget or the
\* webhook, whatever the handlers race with.
THEOREM NadaExecutaSemAutorizacao == Spec => []ExecucaoAutorizada
<1>1. InvariantePercurso => ExecucaoAutorizada
  BY DEF InvariantePercurso
<1>2. QED
  BY <1>1, PercursoCorreto, PTL

\* A request in flight while its order is deleted leaves no budget, item or date
\* of it behind.
THEOREM NadaFicaOrfao == Spec => []SemOrfaos
<1>1. InvariantePercurso => SemOrfaos
  BY DEF InvariantePercurso
<1>2. QED
  BY <1>1, PercursoCorreto, PTL

-----------------------------------------------------------------------------
(* Requests on one order one at a time: the inductive invariant.           *)
(*                                                                         *)
(* When requests on the same order do not overlap (Isolado), OrdemServico  *)
(* implements CicloDeVida, cut short anywhere or not, and the invariants   *)
(* of the same assumption follow the same argument. A session is alone on  *)
(* its order, so what it read is still true when it writes: NaOrdem says   *)
(* what that is, label by label. A step concerns one session and one       *)
(* order; Leva says what it has to leave behind there, and there is one    *)
(* step of the proof per action that shows it does.                        *)

\* No two sessions work on one order.
Sozinhas ==
  \A s, t \in Sessoes : alvo[s] # Nada /\ alvo[s] = alvo[t] => s = t

\* Executing, waiting for parts or done.
Resolvidos == {"IN_PROGRESS", "AWAITING_PARTS", "FINISHED", "DELIVERED"}

\* The calls that lead an approved order there.
Resolvendo == {"pecas_verificar", "exec_ler_sem", "exec_ler", "espera_ler",
               "exec_gravar", "espera_gravar"}

\* What a session about to make the call r knows of its order, whose status
\* is st and whose budget is b.
NaOrdem(r, d, st, b) ==
  /\ r \in {"criar_historico", "criar_itens", "criar_orcamento"}
       => st = "RECEIVED" /\ b.st = "ausente"
  /\ r # "recebida_gravar"
  /\ r \in {"recebida_ler", "diag_ler", "diag_gravar"} => st = "RECEIVED"
  /\ r = "patch_gravar" => st \in Editaveis /\ d.novo \in Editaveis
  /\ r \in {"listar_itens", "gerar_ler", "gerar_orc", "gerar_atualizar", "gerar_criar", "aa_ler"}
       => podeLancarServicosInsumos(st)
  /\ r = "gerar_criar" => b.st = "ausente"
  /\ r = "gerar_atualizar" => b.st \in {"PENDING", "REJECTED"}
  /\ r = "aa_gravar" => st = "UNDER_DIAGNOSIS"
  /\ r \in {"aprovar_orc", "aprovar_gravar", "recusar_orc", "recusar_gravar", "encerrar_gravar",
            "pecas_verificar", "exec_ler_sem", "espera_ler", "espera_gravar"}
       => st = "AWAITING_APPROVAL"
  /\ r \in {"aprovar_gravar", "recusar_gravar"} => b.st = "PENDING"
  /\ r = "aprovar_gravar" => valor_total_geral(b.total) > 0
  /\ r = "encerrar_gravar" => b.st = "REJECTED"
  /\ r \in {"pecas_verificar", "exec_ler_sem", "espera_ler", "espera_gravar"} => b.st = "APPROVED"
  /\ r = "backlog_reservar" => st = "AWAITING_PARTS"
  /\ r \in {"exec_ler", "exec_gravar"}
       => st = "AWAITING_PARTS" \/ (st = "AWAITING_APPROVAL" /\ b.st = "APPROVED")
  /\ r \in {"inicio_gravar", "fin_ler", "fin_gravar"} => st = "IN_PROGRESS"
  /\ r \in {"fim_gravar", "entregue_gravar"} => st = "FINISHED"
  /\ r = "web_gravar" => st \in Status /\ d.novo \in validTransitions[st]
  /\ r = "web_historico" => d.novo = st

\* What holds of the rows of an order, whether a session works on it or not.
Linha(st, b, au, dt) ==
  /\ st \in Resolvidos /\ "webhook" \notin au => b.st = "APPROVED"
  /\ <<"finalizada_em", "finalizada_em">> \in dt => st \in {"FINISHED", "DELIVERED"}
  /\ (\A c \in Colunas : <<c, c>> \in dt) => <<"iniciada_em", "finalizada_em">> \in dt

\* The decision took effect, or the session at r is about to see to it.
Decidida(r, st, b) ==
  /\ b.st = "APPROVED" => st \in Resolvidos \/ r \in Resolvendo
  /\ b.st = "REJECTED" => st = "CLOSED_WITHOUT_EXECUTION" \/ r = "encerrar_gravar"

LinhasBoas == \A o \in Ordens : Linha(status[o], orc[o], autorizado[o], datas[o])

SessoesSabem ==
  \A s \in Sessoes : alvo[s] # Nada =>
    NaOrdem(pc[s], dados[s], status[alvo[s]], orc[alvo[s]])

Decididas ==
  \A o \in Ordens :
    \/ Decidida("livre", status[o], orc[o])
    \/ \E t \in Sessoes : alvo[t] = o /\ Decidida(pc[t], status[o], orc[o])

InvarianteIsolado ==
  /\ InvariantePercurso /\ Sozinhas /\ LinhasBoas /\ SessoesSabem
  /\ ~ ComFalhas => Decididas

-----------------------------------------------------------------------------
(* One event of the life cycle, seen at its order.                         *)

Externa(o) == "webhook" \in autorizado[o]
ExternaDepois(o) == "webhook" \in autorizado'[o]

MesmoStatus(o)  == status'[o] = status[o]
MesmaDecisao(o) == Decisao(orc'[o]) = Decisao(orc[o])
MesmaExterna(o) == ExternaDepois(o) = Externa(o)

\* A change of status alone.
Passa(o, de, para) ==
  /\ status[o] \in de /\ status'[o] \in para
  /\ MesmaDecisao(o) /\ MesmaExterna(o)

\* A change of the budget alone.
Resolve(o, de, para) ==
  /\ Decisao(orc[o]) \in de /\ Decisao(orc'[o]) \in para
  /\ MesmoStatus(o) /\ MesmaExterna(o)

Evento(o) ==
  \/ MesmoStatus(o) /\ MesmaDecisao(o) /\ MesmaExterna(o)
  \/ Passa(o, {"inexistente"}, {"RECEIVED"})
  \/ Passa(o, Editaveis, Editaveis)
  \/ /\ status[o] = "RECEIVED"
     /\ Resolve(o, {"ausente"}, {"PENDING", "SEM_VALOR"})
  \/ /\ podeLancarServicosInsumos(status[o])
     /\ Resolve(o, {"ausente", "PENDING", "SEM_VALOR", "REJECTED"}, {"PENDING", "SEM_VALOR"})
  \/ /\ status[o] = "AWAITING_APPROVAL"
     /\ \/ Resolve(o, {"PENDING"}, {"APPROVED"})
        \/ Resolve(o, {"PENDING", "SEM_VALOR"}, {"REJECTED"})
  \/ /\ Decisao(orc[o]) = "REJECTED"
     /\ Passa(o, {"AWAITING_APPROVAL"}, {"CLOSED_WITHOUT_EXECUTION"})
  \/ /\ Decisao(orc[o]) = "APPROVED" \/ (Externa(o) /\ status[o] = "AWAITING_PARTS")
     /\ Passa(o, {"AWAITING_APPROVAL", "AWAITING_PARTS"}, {"IN_PROGRESS"})
  \/ /\ Decisao(orc[o]) = "APPROVED"
     /\ Passa(o, {"AWAITING_APPROVAL"}, {"AWAITING_PARTS"})
  \/ Passa(o, {"IN_PROGRESS"}, {"FINISHED"}) \/ Passa(o, {"FINISHED"}, {"DELIVERED"})
  \/ /\ status[o] \in Status /\ status'[o] \in validTransitions[status[o]]
     /\ MesmaDecisao(o)
     /\ ExternaDepois(o) = (Externa(o) \/ status'[o] = "IN_PROGRESS")
  \/ /\ status[o] \in Status /\ status'[o] = "removida"
     /\ Decisao(orc'[o]) = "ausente" /\ MesmaExterna(o)

\* The other orders keep their rows.
SoDaOrdem(o) ==
  \A x \in Ordens \ {o} : /\ status'[x] = status[x] /\ orc'[x] = orc[x]
                          /\ datas'[x] = datas[x] /\ autorizado'[x] = autorizado[x]

\* What a step of session s on order o leaves behind.
Leva(s, o) ==
  /\ SoMove(s) /\ alvo'[s] \in {o, Nada}
  /\ SoDaOrdem(o)
  /\ alvo'[s] = o => NaOrdem(pc'[s], dados'[s], status'[o], orc'[o])
  /\ Linha(status'[o], orc'[o], autorizado'[o], datas'[o])
  /\ Evento(o)
  /\ orc[o].st = "APPROVED" /\ status'[o] \in Status => orc'[o] = orc[o]
  /\ ~ ComFalhas => Decidida(IF alvo'[s] = o THEN pc'[s] ELSE "livre", status'[o], orc'[o])

-----------------------------------------------------------------------------
(* Evento is a step of CicloDeVida.                                        *)

LEMMA EventoDoCiclo ==
  ASSUME TypeOK, TypeOK', NEW o \in Ordens, SoDaOrdem(o), Evento(o)
  PROVE  Ciclo!Next \/ UNCHANGED Ciclo!ciclo
<1> DEFINE dec == [x \in Ordens |-> Decisao(orc[x])]
           decP == [x \in Ordens |-> Decisao(orc'[x])]
           ext == {x \in Ordens : "webhook" \in autorizado[x]}
           extP == {x \in Ordens : "webhook" \in autorizado'[x]}
<1>1. /\ status' = [status EXCEPT ![o] = status'[o]]
      /\ decP = [dec EXCEPT ![o] = Decisao(orc'[o])]
      /\ dec[o] = Decisao(orc[o])
  BY DEF SoDaOrdem, TypeOK, TipoBanco
<1>2. /\ MesmaDecisao(o) => decP = dec
      /\ MesmoStatus(o) => status' = status
  <2>1. MesmaDecisao(o) => \A x \in Ordens : Decisao(orc'[x]) = Decisao(orc[x])
    BY DEF MesmaDecisao, SoDaOrdem
  <2>2. QED
    BY <1>1, <2>1 DEF MesmoStatus, TypeOK, TipoBanco
<1>3. /\ MesmaExterna(o) => extP = ext
      /\ ExternaDepois(o) = (Externa(o) \/ status'[o] = "IN_PROGRESS")
           => extP = IF status'[o] = "IN_PROGRESS" THEN ext \cup {o} ELSE ext
  BY DEF SoDaOrdem, MesmaExterna, ExternaDepois, Externa
<1>4. Externa(o) => o \in ext
  BY DEF Externa
<1>5. CASE MesmoStatus(o) /\ MesmaDecisao(o) /\ MesmaExterna(o)
  BY <1>2, <1>3, <1>5 DEF Ciclo!ciclo
<1>6. ASSUME NEW de, NEW para, Passa(o, de, para)
      PROVE  /\ decP = dec /\ extP = ext
             /\ status'[o] # status[o] => Ciclo!Move(o, de, status'[o]) /\ status'[o] \in para
  BY <1>1, <1>2, <1>3, <1>6 DEF Passa, Ciclo!Move
<1>7. ASSUME NEW de, NEW para, Resolve(o, de, para)
      PROVE  /\ status' = status /\ extP = ext
             /\ Decisao(orc'[o]) \in para /\ Ciclo!Decide(o, de, Decisao(orc'[o]))
  BY <1>1, <1>2, <1>3, <1>7 DEF Resolve, Ciclo!Decide
<1>8. CASE Passa(o, {"inexistente"}, {"RECEIVED"})
  <2>1. Ciclo!Abrir(o)
    BY <1>6, <1>8 DEF Passa, Ciclo!Abrir
  <2>2. QED
    BY <2>1 DEF Ciclo!Next
<1>9. CASE Passa(o, Editaveis, Editaveis)
  <2>1. Ciclo!Triar(o) \/ MesmoStatus(o)
    BY <1>6, <1>9 DEF MesmoStatus, Ciclo!Triar, Ciclo!Editaveis, Editaveis
  <2>2. QED
    BY <1>5, <1>9, <2>1 DEF Passa, Ciclo!Next
<1>10. CASE status[o] = "RECEIVED" /\ Resolve(o, {"ausente"}, {"PENDING", "SEM_VALOR"})
  <2>1. Ciclo!Orcar(o)
    BY <1>7, <1>10 DEF Ciclo!Orcar
  <2>2. QED
    BY <2>1 DEF Ciclo!Next
<1>11. CASE /\ podeLancarServicosInsumos(status[o])
            /\ Resolve(o, {"ausente", "PENDING", "SEM_VALOR", "REJECTED"}, {"PENDING", "SEM_VALOR"})
  <2>1. Ciclo!Orcar(o)
    BY <1>7, <1>11 DEF Ciclo!Orcar, podeLancarServicosInsumos, Ciclo!podeLancarServicosInsumos
  <2>2. QED
    BY <2>1 DEF Ciclo!Next
<1>12. CASE /\ status[o] = "AWAITING_APPROVAL"
            /\ \/ Resolve(o, {"PENDING"}, {"APPROVED"})
               \/ Resolve(o, {"PENDING", "SEM_VALOR"}, {"REJECTED"})
  <2>1. Ciclo!Decidir(o)
    BY <1>7, <1>12 DEF Ciclo!Decidir, Ciclo!podeAprovarOuRecusarOrcamento
  <2>2. QED
    BY <2>1 DEF Ciclo!Next
<1>13. CASE /\ Decisao(orc[o]) = "REJECTED"
            /\ Passa(o, {"AWAITING_APPROVAL"}, {"CLOSED_WITHOUT_EXECUTION"})
  <2>1. Ciclo!Move(o, {"AWAITING_APPROVAL"}, "CLOSED_WITHOUT_EXECUTION") /\ decP = dec /\ extP = ext
    BY <1>6, <1>13 DEF Passa
  <2>2. Ciclo!Encerrar(o)
    BY <1>1, <1>13, <2>1 DEF Ciclo!Encerrar
  <2>3. QED
    BY <2>2 DEF Ciclo!Next
<1>14. CASE /\ Decisao(orc[o]) = "APPROVED" \/ (Externa(o) /\ status[o] = "AWAITING_PARTS")
            /\ Passa(o, {"AWAITING_APPROVAL", "AWAITING_PARTS"}, {"IN_PROGRESS"})
  <2>1. /\ Ciclo!Move(o, {"AWAITING_APPROVAL", "AWAITING_PARTS"}, "IN_PROGRESS")
        /\ decP = dec /\ extP = ext
    BY <1>6, <1>14 DEF Passa
  <2>2. Ciclo!Iniciar(o)
    BY <1>1, <1>4, <1>14, <2>1 DEF Ciclo!Iniciar
  <2>3. QED
    BY <2>2 DEF Ciclo!Next
<1>15. CASE /\ Decisao(orc[o]) = "APPROVED"
            /\ Passa(o, {"AWAITING_APPROVAL"}, {"AWAITING_PARTS"})
  <2>1. Ciclo!Move(o, {"AWAITING_APPROVAL"}, "AWAITING_PARTS") /\ decP = dec /\ extP = ext
    BY <1>6, <1>15 DEF Passa
  <2>2. Ciclo!Esperar(o)
    BY <1>1, <1>15, <2>1 DEF Ciclo!Esperar
  <2>3. QED
    BY <2>2 DEF Ciclo!Next
<1>16. CASE Passa(o, {"IN_PROGRESS"}, {"FINISHED"}) \/ Passa(o, {"FINISHED"}, {"DELIVERED"})
  <2>1. Ciclo!Concluir(o)
    BY <1>6, <1>16 DEF Passa, Ciclo!Concluir
  <2>2. QED
    BY <2>1 DEF Ciclo!Next
<1>17. CASE /\ status[o] \in Status /\ status'[o] \in validTransitions[status[o]]
            /\ MesmaDecisao(o)
            /\ ExternaDepois(o) = (Externa(o) \/ status'[o] = "IN_PROGRESS")
  <2>1. status'[o] \in Status /\ status'[o] # status[o]
    BY <1>17 DEF validTransitions, Status
  <2>2. Ciclo!validTransitions = validTransitions /\ Ciclo!Status = Status
    BY DEF validTransitions, Ciclo!validTransitions, Status, Ciclo!Status
  <2>3. Ciclo!Move(o, {x \in Ciclo!Status : status'[o] \in Ciclo!validTransitions[x]}, status'[o])
    BY <1>1, <1>17, <2>1, <2>2 DEF Ciclo!Move
  <2>4. Ciclo!Sincronizar(o)
    BY <1>2, <1>3, <1>17, <2>1, <2>2, <2>3 DEF Ciclo!Sincronizar
  <2>5. QED
    BY <2>4 DEF Ciclo!Next
<1>18. CASE /\ status[o] \in Status /\ status'[o] = "removida"
            /\ Decisao(orc'[o]) = "ausente" /\ MesmaExterna(o)
  <2>1. Ciclo!Remover(o)
    BY <1>1, <1>3, <1>18 DEF Ciclo!Remover, Ciclo!Move, Ciclo!Status, Status
  <2>2. QED
    BY <2>1 DEF Ciclo!Next
<1>19. QED
  BY <1>5, <1>8, <1>9, <1>10, <1>11, <1>12, <1>13, <1>14, <1>15, <1>16, <1>17, <1>18 DEF Evento

-----------------------------------------------------------------------------
(* How a session moves, and what it knew.                                  *)

LEMMA TerminaSai ==
  ASSUME TypeOK, NEW s \in Sessoes, Termina(s)
  PROVE  SoMove(s) /\ pc'[s] = "livre" /\ alvo'[s] = Nada
BY DEF TypeOK, TipoSessao, Termina, SoMove

\* What a session about to make the call r knows, and the rows have.
Sabe(s, r) ==
  LET o == alvo[s] IN
  /\ status[o] \in Status /\ orc[o] \in Orcamento
  /\ NaOrdem(r, dados[s], status[o], orc[o])
  /\ Linha(status[o], orc[o], autorizado[o], datas[o])
  /\ ~ ComFalhas => Decidida(r, status[o], orc[o])

LEMMA NoPasso ==
  ASSUME InvarianteIsolado, NEW s \in Sessoes, NEW r \in Ocupados, Passo(s, r)
  PROVE  TypeOK /\ alvo[s] \in Ordens /\ alvo[s] # Nada /\ dados[s] \in Dados /\ Sabe(s, r)
<1> DEFINE o == alvo[s]
<1>1. TypeOK /\ pc[s] = r /\ Existe(o)
  BY DEF InvarianteIsolado, InvariantePercurso, Passo
<1>2. o \in Ordens /\ o # Nada /\ dados[s] \in Dados
  BY <1>1, Parametros, PassoTipo DEF TypeOK
<1>3. status[o] \in Status /\ orc[o] \in Orcamento
  BY <1>1, <1>2 DEF Existe, TypeOK, TipoBanco
<1>4. NaOrdem(r, dados[s], status[o], orc[o]) /\ Linha(status[o], orc[o], autorizado[o], datas[o])
  BY <1>1, <1>2 DEF InvarianteIsolado, SessoesSabem, LinhasBoas
<1>5. ~ ComFalhas => Decidida(r, status[o], orc[o])
  <2>1. \A t \in Sessoes : alvo[t] = o => t = s
    BY <1>2 DEF InvarianteIsolado, Sozinhas
  <2>2. Decidida("livre", status[o], orc[o]) => Decidida(r, status[o], orc[o])
    BY DEF Decidida, Resolvendo
  <2>3. QED
    BY <1>1, <1>2, <2>1, <2>2 DEF InvarianteIsolado, Decididas
<1>6. QED
  BY <1>1, <1>2, <1>3, <1>4, <1>5 DEF Sabe

\* A request that arrives on an order nobody works on.
LEMMA NaChegada ==
  ASSUME InvarianteIsolado, NEW o \in Ordens, \A t \in Sessoes : alvo[t] # o
  PROVE  ~ ComFalhas => Decidida("livre", status[o], orc[o])
BY DEF InvarianteIsolado, Decididas

-----------------------------------------------------------------------------
(* The ways a step keeps Leva.                                             *)

\* A call that leaves these rows as they are.
LEMMA ParadaLeva ==
  ASSUME InvarianteIsolado, NEW s \in Sessoes, NEW o \in Ordens,
         UNCHANGED <<status, orc, datas, autorizado>>,
         SoMove(s), alvo'[s] \in {o, Nada},
         alvo'[s] = o => NaOrdem(pc'[s], dados'[s], status[o], orc[o]),
         ~ ComFalhas => Decidida(IF alvo'[s] = o THEN pc'[s] ELSE "livre", status[o], orc[o])
  PROVE  Leva(s, o)
<1>1. Evento(o)
  BY DEF Evento, MesmoStatus, MesmaDecisao, MesmaExterna, ExternaDepois, Externa
<1>2. QED
  BY <1>1 DEF Leva, SoDaOrdem, InvarianteIsolado, LinhasBoas

\* A call that only reads.
LEMMA LeituraLeva ==
  ASSUME InvarianteIsolado, NEW s \in Sessoes, NEW o \in Ordens, SoLeitura,
         SoMove(s), alvo'[s] \in {o, Nada},
         alvo'[s] = o => NaOrdem(pc'[s], dados'[s], status[o], orc[o]),
         ~ ComFalhas => Decidida(IF alvo'[s] = o THEN pc'[s] ELSE "livre", status[o], orc[o])
  PROVE  Leva(s, o)
<1>1. UNCHANGED <<status, orc, datas, autorizado>>
  BY DEF SoLeitura, banco
<1>2. QED
  BY <1>1, ParadaLeva

LEMMA ComecaLeva ==
  ASSUME InvarianteIsolado, NEW s \in Sessoes, NEW o \in Ordens, NEW r, NEW d,
         \A t \in Sessoes : alvo[t] # o, Comeca(s, o, r, d), SoLeitura,
         NaOrdem(r, d, status[o], orc[o])
  PROVE  Leva(s, o)
<1>1. SoMove(s) /\ pc'[s] = r /\ alvo'[s] = o /\ dados'[s] = d
  BY ComecaMove DEF InvarianteIsolado, InvariantePercurso
<1>2. ~ ComFalhas => Decidida(r, status[o], orc[o])
  BY NaChegada DEF Decidida, Resolvendo
<1>3. QED
  BY <1>1, <1>2, LeituraLeva

LEMMA SegueLeva ==
  ASSUME InvarianteIsolado, NEW s \in Sessoes, alvo[s] \in Ordens, NEW r, Segue(s, r), SoLeitura,
         NaOrdem(r, dados[s], status[alvo[s]], orc[alvo[s]]),
         ~ ComFalhas => Decidida(r, status[alvo[s]], orc[alvo[s]])
  PROVE  Leva(s, alvo[s])
<1>1. SoMove(s) /\ pc'[s] = r /\ alvo'[s] = alvo[s] /\ dados'[s] = dados[s]
  BY SegueMove DEF InvarianteIsolado, InvariantePercurso
<1>2. QED
  BY <1>1, LeituraLeva

LEMMA TerminaLeva ==
  ASSUME InvarianteIsolado, NEW s \in Sessoes, alvo[s] \in Ordens, Termina(s), SoLeitura,
         ~ ComFalhas => Decidida("livre", status[alvo[s]], orc[alvo[s]])
  PROVE  Leva(s, alvo[s])
<1>1. SoMove(s) /\ pc'[s] = "livre" /\ alvo'[s] = Nada
  BY TerminaSai DEF InvarianteIsolado, InvariantePercurso
<1>2. alvo'[s] # alvo[s]
  BY <1>1, Parametros
<1>3. QED
  BY <1>1, <1>2, LeituraLeva

\* A handler that reads whether it has to act.
LEMMA SegueSeLeva ==
  ASSUME InvarianteIsolado, NEW s \in Sessoes, alvo[s] \in Ordens, NEW c, NEW r, SegueSe(c, s, r),
         SoLeitura,
         c => /\ NaOrdem(r, dados[s], status[alvo[s]], orc[alvo[s]])
              /\ ~ ComFalhas => Decidida(r, status[alvo[s]], orc[alvo[s]]),
         ~ c => (~ ComFalhas => Decidida("livre", status[alvo[s]], orc[alvo[s]]))
  PROVE  Leva(s, alvo[s])
<1>1. CASE c
  BY <1>1, SegueLeva DEF SegueSe
<1>2. CASE ~ c
  BY <1>2, TerminaLeva DEF SegueSe
<1>3. QED
  BY <1>1, <1>2

\* A write of the status alone.
LEMMA StatusEscrito ==
  ASSUME InvarianteIsolado, NEW o \in Ordens, NEW st \in Status, GravaStatus(o, st),
         UNCHANGED <<orc, datas, autorizado>>
  PROVE  /\ SoDaOrdem(o) /\ status'[o] = st /\ orc'[o] = orc[o]
         /\ MesmaDecisao(o) /\ MesmaExterna(o)
         /\ datas'[o] = datas[o] /\ autorizado'[o] = autorizado[o]
BY DEF InvarianteIsolado, InvariantePercurso, TypeOK, TipoBanco, GravaStatus, SoDaOrdem,
   MesmaDecisao, MesmaExterna, ExternaDepois, Externa

LEMMA GravaLeva ==
  ASSUME InvarianteIsolado, NEW s \in Sessoes, NEW o \in Ordens, NEW st \in Status,
         GravaStatus(o, st), UNCHANGED <<orc, datas, autorizado>>,
         SoMove(s), alvo'[s] \in {o, Nada},
         alvo'[s] = o => NaOrdem(pc'[s], dados'[s], st, orc[o]),
         Linha(st, orc[o], autorizado[o], datas[o]), Evento(o),
         ~ ComFalhas => Decidida(IF alvo'[s] = o THEN pc'[s] ELSE "livre", st, orc[o])
  PROVE  Leva(s, o)
BY StatusEscrito DEF Leva

\* The same, by a session whose request ends.
LEMMA GravaFimLeva ==
  ASSUME InvarianteIsolado, NEW s \in Sessoes, NEW r \in Ocupados, Passo(s, r), NEW st \in Status,
         GravaStatus(alvo[s], st), Termina(s), UNCHANGED <<orc, datas, autorizado>>,
         Linha(st, orc[alvo[s]], autorizado[alvo[s]], datas[alvo[s]]), Evento(alvo[s]),
         ~ ComFalhas => Decidida("livre", st, orc[alvo[s]])
  PROVE  Leva(s, alvo[s])
<1>1. TypeOK /\ alvo[s] \in Ordens /\ alvo[s] # Nada
  BY NoPasso
<1>2. SoMove(s) /\ alvo'[s] = Nada
  BY <1>1, TerminaSai
<1>3. QED
  BY <1>1, <1>2, GravaLeva

-----------------------------------------------------------------------------
(* What each request leaves behind as it arrives.                          *)

\* With Isolado, a request arrives on an order nobody works on.
LEMMA ComecaSozinho ==
  ASSUME InvarianteIsolado, Isolado, NEW s \in Sessoes, NEW o \in Ordens, NEW r, NEW d,
         Comeca(s, o, r, d)
  PROVE  TypeOK /\ alvo[s] = Nada /\ \A t \in Sessoes : alvo[t] # o
BY DEF InvarianteIsolado, InvariantePercurso, TypeOK, TipoSessao, Comeca, Disponivel

LEMMA RequisicaoLeva ==
  ASSUME InvarianteIsolado, Isolado, NEW s \in Sessoes, Requisicao(s)
  PROVE  \E o \in Ordens : Leva(s, o) /\ alvo[s] = Nada /\ \A t \in Sessoes : alvo[t] # o
<1> DEFINE Chegou(o) == Leva(s, o) /\ alvo[s] = Nada /\ \A t \in Sessoes : alvo[t] # o
<1>1. ASSUME NEW o \in Ordens, NEW r, NEW d, Comeca(s, o, r, d), SoLeitura,
             NaOrdem(r, d, status[o], orc[o])
      PROVE  Chegou(o)
  BY <1>1, ComecaSozinho, ComecaLeva
<1>2. ASSUME NEW o \in Ordens, NEW t \in Totais, NEW l \in Listas, Criar(s, o, t, l)
      PROVE  Chegou(o)
  <2> DEFINE d == [total |-> t, pecas |-> l, novo |-> Nada]
  <2>1. /\ Comeca(s, o, "criar_historico", d) /\ GravaStatus(o, "RECEIVED")
        /\ UNCHANGED <<orc, datas, autorizado>> /\ status[o] = "inexistente"
    BY <1>2 DEF Criar
  <2> HIDE DEF d
  <2>2. TypeOK /\ alvo[s] = Nada /\ \A u \in Sessoes : alvo[u] # o
    BY <2>1, ComecaSozinho
  <2>3. /\ SoMove(s) /\ pc'[s] = "criar_historico" /\ alvo'[s] = o
    BY <2>1, <2>2, ComecaMove
  <2>4. orc[o] = SemOrcamento /\ datas[o] = {}
    BY <2>1 DEF InvarianteIsolado, InvariantePercurso, SemOrfaos, Existe, Status
  <2>5. "RECEIVED" \in Status
    BY DEF Status
  <2>6. Evento(o)
    BY <2>1, <2>5, StatusEscrito DEF Evento, Passa
  <2>7. /\ NaOrdem("criar_historico", dados'[s], "RECEIVED", orc[o])
        /\ Linha("RECEIVED", orc[o], autorizado[o], datas[o])
        /\ Decidida("criar_historico", "RECEIVED", orc[o])
    BY <2>4
       DEF NaOrdem, Linha, Decidida, SemOrcamento, Resolvidos,
           podeLancarServicosInsumos, Colunas
  <2>8. QED
    BY <2>1, <2>2, <2>3, <2>5, <2>6, <2>7, GravaLeva
<1>3. ASSUME NEW o \in Ordens, NEW t \in Totais, NEW l \in Listas, ListarServicosInsumos(s, o, t, l)
      PROVE  Chegou(o)
  BY <1>1, <1>3 DEF ListarServicosInsumos, NaOrdem
<1>4. ASSUME NEW o \in Ordens, NEW st \in Editaveis, Atualizar(s, o, st)
      PROVE  Chegou(o)
  <2>1. [Vazio EXCEPT !.novo = st].novo = st
    BY DEF Vazio
  <2>2. QED
    BY <1>1, <1>4, <2>1 DEF Atualizar, NaOrdem, podeAtualizar
<1>5. ASSUME NEW o \in Ordens, NEW st \in Status, Webhook(s, o, st)
      PROVE  Chegou(o)
  <2>1. [Vazio EXCEPT !.novo = st].novo = st
    BY DEF Vazio
  <2>2. QED
    BY <1>1, <1>5, <2>1 DEF Webhook, NaOrdem, Existe
<1>6. ASSUME NEW o \in Ordens, Assumir(s, o)
      PROVE  Chegou(o)
  BY <1>1, <1>6 DEF Assumir, NaOrdem, podeAssumir
<1>7. ASSUME NEW o \in Ordens, AprovarOrcamento(s, o)
      PROVE  Chegou(o)
  BY <1>1, <1>7 DEF AprovarOrcamento, NaOrdem, podeAprovarOuRecusarOrcamento
<1>8. ASSUME NEW o \in Ordens, RecusarOrcamento(s, o)
      PROVE  Chegou(o)
  BY <1>1, <1>8 DEF RecusarOrcamento, NaOrdem, podeAprovarOuRecusarOrcamento
<1>9. ASSUME NEW o \in Ordens, FinalizarExecucao(s, o)
      PROVE  Chegou(o)
  BY <1>1, <1>9 DEF FinalizarExecucao, NaOrdem, podeFinalizar
<1>10. ASSUME NEW o \in Ordens, RegistrarEntrega(s, o)
       PROVE  Chegou(o)
  BY <1>1, <1>10 DEF RegistrarEntrega, NaOrdem
<1>11. ASSUME NEW o \in Ordens, RegistrarPagamento(s, o)
       PROVE  Chegou(o)
  <2>1. /\ Comeca(s, o, "entregue_ler", Vazio)
        /\ UNCHANGED <<status, orc, datas, autorizado>>
    BY <1>11 DEF RegistrarPagamento
  <2>2. TypeOK /\ alvo[s] = Nada /\ \A u \in Sessoes : alvo[u] # o
    BY <2>1, ComecaSozinho
  <2>3. SoMove(s) /\ pc'[s] = "entregue_ler" /\ alvo'[s] = o
    BY <2>1, <2>2, ComecaMove
  <2>4. NaOrdem("entregue_ler", dados'[s], status[o], orc[o])
    BY DEF NaOrdem
  <2>5. ~ ComFalhas => Decidida("entregue_ler", status[o], orc[o])
    BY <2>2, NaChegada DEF Decidida, Resolvendo
  <2>6. QED
    BY <2>1, <2>2, <2>3, <2>4, <2>5, ParadaLeva
<1>12. ASSUME NEW o \in Ordens, ValidarBacklog(s, o)
       PROVE  Chegou(o)
  BY <1>1, <1>12 DEF ValidarBacklog, NaOrdem
<1>13. \E o \in Ordens : Chegou(o)
  BY <1>2, <1>3, <1>4, <1>5, <1>6, <1>7, <1>8, <1>9, <1>10, <1>11, <1>12 DEF Requisicao
<1>14. QED
  BY <1>13

-----------------------------------------------------------------------------
(* What each write does to the rows of its order.                          *)

\* A budget written anew.
LEMMA OrcamentoEscrito ==
  ASSUME TypeOK, NEW o \in Ordens, NEW b, orc' = [orc EXCEPT ![o] = b],
         UNCHANGED <<status, datas, autorizado>>
  PROVE  /\ SoDaOrdem(o) /\ MesmoStatus(o) /\ MesmaExterna(o)
         /\ status'[o] = status[o] /\ orc'[o] = b
         /\ datas'[o] = datas[o] /\ autorizado'[o] = autorizado[o]
BY DEF TypeOK, TipoBanco, SoDaOrdem, MesmoStatus, MesmaExterna, ExternaDepois, Externa

\* Its state alone.
LEMMA SituacaoEscrita ==
  ASSUME TypeOK, NEW o \in Ordens, NEW v, orc' = [orc EXCEPT ![o].st = v]
  PROVE  /\ orc'[o].st = v /\ orc'[o].total = orc[o].total
         /\ \A x \in Ordens \ {o} : orc'[x] = orc[x]
BY DEF TypeOK, TipoBanco, Orcamento

\* A date filled or overwritten.
LEMMA DataEscrita ==
  ASSUME TypeOK, NEW o \in Ordens, NEW c \in Colunas, datas' = ComData(o, c)
  PROVE  /\ \A x \in Ordens \ {o} : datas'[x] = datas[x]
         /\ \A y \in Colunas : <<y, y>> \in datas'[o] => y = c \/ <<y, y>> \in datas[o]
         /\ \A y \in Colunas : <<y, y>> \in datas[o] => <<y, c>> \in datas'[o]
BY DEF TypeOK, TipoBanco, ComData, Preenchida

-----------------------------------------------------------------------------
(* What each call leaves behind.                                           *)

LEMMA AvancarLeva ==
  ASSUME InvarianteIsolado, NEW s \in Sessoes, Avancar(s)
  PROVE  alvo[s] \in Ordens /\ Leva(s, alvo[s])
<1> DEFINE o == alvo[s]
           Levou == o \in Ordens /\ Leva(s, o)
<1>1. ASSUME CriarHistorico(s)
      PROVE  Levou
  BY <1>1, RotulosTipo, NoPasso, SegueLeva
     DEF CriarHistorico, RotulosCriar, Sabe, NaOrdem, Decidida, Resolvidos, Resolvendo
<1>2. ASSUME RecebidaLer(s)
      PROVE  Levou
  BY <1>2, RotulosTipo, NoPasso, SegueSeLeva
     DEF RecebidaLer, RotulosCriar, Sabe, NaOrdem, Decidida, Resolvidos, Resolvendo
<1>3. ASSUME DiagnosticoLer(s)
      PROVE  Levou
  BY <1>3, RotulosTipo, NoPasso, SegueSeLeva
     DEF DiagnosticoLer, RotulosTriagem, Sabe, NaOrdem, Decidida, Resolvidos, Resolvendo
<1>4. ASSUME DiagnosticoGravar(s)
      PROVE  Levou
  <2>1. /\ Passo(s, "diag_gravar") /\ GravaStatus(o, "UNDER_DIAGNOSIS") /\ Termina(s)
        /\ UNCHANGED <<orc, datas, autorizado>>
    BY <1>4 DEF DiagnosticoGravar
  <2>2. "diag_gravar" \in Ocupados /\ "UNDER_DIAGNOSIS" \in Status
    BY RotulosTipo DEF RotulosTriagem, Status
  <2>3. o \in Ordens /\ Sabe(s, "diag_gravar")
    BY <2>1, <2>2, NoPasso
  <2>4. Evento(o)
    BY <2>1, <2>2, <2>3, StatusEscrito DEF Evento, Passa, Sabe, NaOrdem, Editaveis
  <2>5. /\ Linha("UNDER_DIAGNOSIS", orc[o], autorizado[o], datas[o])
        /\ ~ ComFalhas => Decidida("livre", "UNDER_DIAGNOSIS", orc[o])
    BY <2>3 DEF Sabe, NaOrdem, Linha, Decidida, Resolvidos, Resolvendo, Editaveis
  <2>6. QED
    BY <2>1, <2>2, <2>3, <2>4, <2>5, GravaFimLeva
<1>5. ASSUME GerarLer(s)
      PROVE  Levou
  BY <1>5, RotulosTipo, NoPasso, SegueSeLeva
     DEF GerarLer, RotulosListar, Sabe, NaOrdem, Decidida, Resolvidos, Resolvendo,
         podeLancarServicosInsumos
<1>6. ASSUME GerarLerOrcamento(s)
      PROVE  Levou
  <2>1. Passo(s, "gerar_orc") /\ SoLeitura
    BY <1>6 DEF GerarLerOrcamento
  <2>2. o \in Ordens /\ Sabe(s, "gerar_orc")
    BY <2>1, RotulosTipo, NoPasso DEF RotulosListar
  <2>3. CASE orc[o].st # "APPROVED"
    BY <1>6, <2>1, <2>2, <2>3, SegueLeva
       DEF GerarLerOrcamento, SegueSe, Sabe, NaOrdem, Decidida, Resolvidos, Resolvendo,
           podeLancarServicosInsumos, Orcamento, SituacaoOrcamento
  <2>4. CASE ~ (orc[o].st # "APPROVED")
    BY <1>6, <2>1, <2>2, <2>4, TerminaLeva
       DEF GerarLerOrcamento, SegueSe, Sabe, Decidida, Resolvidos, Resolvendo
  <2>5. QED
    BY <2>3, <2>4
<1>7. ASSUME AguardandoAprovacaoLer(s)
      PROVE  Levou
  <2>1. Passo(s, "aa_ler") /\ SoLeitura
    BY <1>7 DEF AguardandoAprovacaoLer
  <2>2. o \in Ordens /\ Sabe(s, "aa_ler")
    BY <2>1, RotulosTipo, NoPasso DEF RotulosListar
  <2>3. CASE status[o] = "UNDER_DIAGNOSIS"
    BY <1>7, <2>1, <2>2, <2>3, SegueLeva
       DEF AguardandoAprovacaoLer, SegueSe, Sabe, NaOrdem, Decidida, Resolvidos,
           Resolvendo, podeLancarServicosInsumos
  <2>4. CASE ~ (status[o] = "UNDER_DIAGNOSIS")
    BY <1>7, <2>1, <2>2, <2>4, TerminaLeva
       DEF AguardandoAprovacaoLer, SegueSe, Sabe, Decidida, Resolvidos, Resolvendo
  <2>5. QED
    BY <2>3, <2>4
<1>8. ASSUME AguardandoAprovacaoGravar(s)
      PROVE  Levou
  <2>1. /\ Passo(s, "aa_gravar") /\ GravaStatus(o, "AWAITING_APPROVAL") /\ Termina(s)
        /\ UNCHANGED <<orc, datas, autorizado>>
    BY <1>8 DEF AguardandoAprovacaoGravar
  <2>2. "aa_gravar" \in Ocupados /\ "AWAITING_APPROVAL" \in Status
    BY RotulosTipo DEF RotulosListar, Status
  <2>3. o \in Ordens /\ Sabe(s, "aa_gravar")
    BY <2>1, <2>2, NoPasso
  <2>4. Evento(o)
    BY <2>1, <2>2, <2>3, StatusEscrito DEF Evento, Passa, Sabe, NaOrdem, Editaveis
  <2>5. /\ Linha("AWAITING_APPROVAL", orc[o], autorizado[o], datas[o])
        /\ ~ ComFalhas => Decidida("livre", "AWAITING_APPROVAL", orc[o])
    BY <2>3 DEF Sabe, NaOrdem, Linha, Decidida, Resolvidos, Resolvendo, Editaveis
  <2>6. QED
    BY <2>1, <2>2, <2>3, <2>4, <2>5, GravaFimLeva
<1>9. ASSUME AprovarLerOrcamento(s)
      PROVE  Levou
  <2>1. Passo(s, "aprovar_orc") /\ SoLeitura
    BY <1>9 DEF AprovarLerOrcamento
  <2>2. o \in Ordens /\ Sabe(s, "aprovar_orc")
    BY <2>1, RotulosTipo, NoPasso DEF RotulosDecisao
  <2>3. CASE orc[o].st = "PENDING" /\ valor_total_geral(orc[o].total) > 0
    BY <1>9, <2>1, <2>2, <2>3, SegueLeva
       DEF AprovarLerOrcamento, SegueSe, Sabe, NaOrdem, Decidida, Resolvidos, Resolvendo
  <2>4. CASE ~ (orc[o].st = "PENDING" /\ valor_total_geral(orc[o].total) > 0)
    BY <1>9, <2>1, <2>2, <2>4, TerminaLeva
       DEF AprovarLerOrcamento, SegueSe, Sabe, Decidida, Resolvidos, Resolvendo
  <2>5. QED
    BY <2>3, <2>4
<1>10. ASSUME RecusarLerOrcamento(s)
       PROVE  Levou
  <2>1. Passo(s, "recusar_orc") /\ SoLeitura
    BY <1>10 DEF RecusarLerOrcamento
  <2>2. o \in Ordens /\ Sabe(s, "recusar_orc")
    BY <2>1, RotulosTipo, NoPasso DEF RotulosDecisao
  <2>3. CASE orc[o].st = "PENDING"
    BY <1>10, <2>1, <2>2, <2>3, SegueLeva
       DEF RecusarLerOrcamento, SegueSe, Sabe, NaOrdem, Decidida, Resolvidos, Resolvendo
  <2>4. CASE ~ (orc[o].st = "PENDING")
    BY <1>10, <2>1, <2>2, <2>4, TerminaLeva
       DEF RecusarLerOrcamento, SegueSe, Sabe, Decidida, Resolvidos, Resolvendo
  <2>5. QED
    BY <2>3, <2>4
<1>11. ASSUME EncerrarGravar(s)
       PROVE  Levou
  <2>1. /\ Passo(s, "encerrar_gravar") /\ GravaStatus(o, "CLOSED_WITHOUT_EXECUTION") /\ Termina(s)
        /\ UNCHANGED <<orc, datas, autorizado>>
    BY <1>11 DEF EncerrarGravar
  <2>2. "encerrar_gravar" \in Ocupados /\ "CLOSED_WITHOUT_EXECUTION" \in Status
    BY RotulosTipo DEF RotulosDecisao, Status
  <2>3. o \in Ordens /\ Sabe(s, "encerrar_gravar")
    BY <2>1, <2>2, NoPasso
  <2>4. Evento(o)
    BY <2>1, <2>2, <2>3, StatusEscrito DEF Evento, Passa, Sabe, NaOrdem, Decisao
  <2>5. /\ Linha("CLOSED_WITHOUT_EXECUTION", orc[o], autorizado[o], datas[o])
        /\ ~ ComFalhas => Decidida("livre", "CLOSED_WITHOUT_EXECUTION", orc[o])
    BY <2>3 DEF Sabe, NaOrdem, Linha, Decidida, Resolvidos, Resolvendo, Editaveis
  <2>6. QED
    BY <2>1, <2>2, <2>3, <2>4, <2>5, GravaFimLeva
<1>12. ASSUME EmitirPecasReservadas(s)
       PROVE  Levou
  BY <1>12, RotulosTipo, NoPasso, SegueLeva
     DEF EmitirPecasReservadas, RotulosExecucao, Sabe, NaOrdem, Decidida, Resolvidos,
         Resolvendo
<1>13. ASSUME EmitirPecasIndisponiveis(s)
       PROVE  Levou
  BY <1>13, RotulosTipo, NoPasso, SegueLeva
     DEF EmitirPecasIndisponiveis, RotulosExecucao, Sabe, NaOrdem, Decidida, Resolvidos,
         Resolvendo
<1>14. ASSUME LiberarOrdem(s)
       PROVE  Levou
  BY <1>14, RotulosTipo, NoPasso, SegueLeva, TerminaLeva
     DEF LiberarOrdem, RotulosExecucao, Sabe, NaOrdem, Decidida, Resolvidos, Resolvendo
<1>15. ASSUME AguardandoPecasLer(s)
       PROVE  Levou
  BY <1>15, RotulosTipo, NoPasso, SegueSeLeva
     DEF AguardandoPecasLer, RotulosExecucao, Sabe, NaOrdem, Decidida, Resolvidos,
         Resolvendo
<1>16. ASSUME AguardandoPecasGravar(s)
       PROVE  Levou
  <2>1. /\ Passo(s, "espera_gravar") /\ GravaStatus(o, "AWAITING_PARTS") /\ Termina(s)
        /\ UNCHANGED <<orc, datas, autorizado>>
    BY <1>16 DEF AguardandoPecasGravar
  <2>2. "espera_gravar" \in Ocupados /\ "AWAITING_PARTS" \in Status
    BY RotulosTipo DEF RotulosExecucao, Status
  <2>3. o \in Ordens /\ Sabe(s, "espera_gravar")
    BY <2>1, <2>2, NoPasso
  <2>4. Evento(o)
    BY <2>1, <2>2, <2>3, StatusEscrito DEF Evento, Passa, Sabe, NaOrdem, Decisao
  <2>5. /\ Linha("AWAITING_PARTS", orc[o], autorizado[o], datas[o])
        /\ ~ ComFalhas => Decidida("livre", "AWAITING_PARTS", orc[o])
    BY <2>3 DEF Sabe, NaOrdem, Linha, Decidida, Resolvidos, Resolvendo, Editaveis
  <2>6. QED
    BY <2>1, <2>2, <2>3, <2>4, <2>5, GravaFimLeva
<1>17. ASSUME ExecucaoLerSemPecas(s)
       PROVE  Levou
  BY <1>17, RotulosTipo, NoPasso, SegueSeLeva
     DEF ExecucaoLerSemPecas, RotulosExecucao, Sabe, NaOrdem, Decidida, Resolvidos,
         Resolvendo
<1>18. ASSUME ExecucaoLerPecasReservadas(s)
       PROVE  Levou
  BY <1>18, RotulosTipo, NoPasso, SegueSeLeva
     DEF ExecucaoLerPecasReservadas, RotulosExecucao, Sabe, NaOrdem, Decidida, Resolvidos,
         Resolvendo
<1>19. ASSUME FinalizadaLer(s)
       PROVE  Levou
  BY <1>19, RotulosTipo, NoPasso, SegueSeLeva
     DEF FinalizadaLer, RotulosEntrega, Sabe, NaOrdem, Decidida, Resolvidos, Resolvendo
<1>20. ASSUME EntregueLer(s)
       PROVE  Levou
  <2>1. Passo(s, "entregue_ler") /\ SoLeitura
    BY <1>20 DEF EntregueLer
  <2>2. o \in Ordens /\ Sabe(s, "entregue_ler")
    BY <2>1, RotulosTipo, NoPasso DEF RotulosEntrega
  <2>3. CASE status[o] = "FINISHED"
    BY <1>20, <2>1, <2>2, <2>3, SegueLeva
       DEF EntregueLer, SegueSe, Sabe, NaOrdem, Decidida, Resolvidos, Resolvendo
  <2>4. CASE ~ (status[o] = "FINISHED")
    BY <1>20, <2>1, <2>2, <2>4, TerminaLeva
       DEF EntregueLer, SegueSe, Sabe, Decidida, Resolvidos, Resolvendo
  <2>5. QED
    BY <2>3, <2>4
<1>21. ASSUME EntregueGravar(s)
       PROVE  Levou
  <2>1. /\ Passo(s, "entregue_gravar") /\ GravaStatus(o, "DELIVERED") /\ Termina(s)
        /\ UNCHANGED <<orc, datas, autorizado>>
    BY <1>21 DEF EntregueGravar
  <2>2. "entregue_gravar" \in Ocupados /\ "DELIVERED" \in Status
    BY RotulosTipo DEF RotulosEntrega, Status
  <2>3. o \in Ordens /\ Sabe(s, "entregue_gravar")
    BY <2>1, <2>2, NoPasso
  <2>4. Evento(o)
    BY <2>1, <2>2, <2>3, StatusEscrito DEF Evento, Passa, Sabe, NaOrdem
  <2>5. /\ Linha("DELIVERED", orc[o], autorizado[o], datas[o])
        /\ ~ ComFalhas => Decidida("livre", "DELIVERED", orc[o])
    BY <2>3 DEF Sabe, NaOrdem, Linha, Decidida, Resolvidos, Resolvendo, Editaveis
  <2>6. QED
    BY <2>1, <2>2, <2>3, <2>4, <2>5, GravaFimLeva
<1>22. ASSUME CriarItens(s)
       PROVE  Levou
  <2>1. Passo(s, "criar_itens")
    BY <1>22 DEF CriarItens
  <2>2. TypeOK /\ o \in Ordens /\ Sabe(s, "criar_itens")
    BY <2>1, RotulosTipo, NoPasso DEF RotulosCriar
  <2>3. /\ SoMove(s) /\ pc'[s] = "criar_orcamento" /\ alvo'[s] = o /\ dados'[s] = dados[s]
        /\ UNCHANGED <<status, orc, datas, autorizado>>
    BY <1>22, <2>2, SegueMove DEF CriarItens
  <2>4. /\ NaOrdem("criar_orcamento", dados[s], status[o], orc[o])
        /\ ~ ComFalhas => Decidida("criar_orcamento", status[o], orc[o])
    BY <2>2 DEF Sabe, NaOrdem, Decidida, Resolvidos, Resolvendo
  <2>5. QED
    BY <2>2, <2>3, <2>4, ParadaLeva
<1>23. ASSUME ListarItens(s)
       PROVE  Levou
  <2>1. Passo(s, "listar_itens")
    BY <1>23 DEF ListarItens
  <2>2. TypeOK /\ o \in Ordens /\ Sabe(s, "listar_itens")
    BY <2>1, RotulosTipo, NoPasso DEF RotulosListar
  <2>3. /\ SoMove(s) /\ pc'[s] = "gerar_ler" /\ alvo'[s] = o /\ dados'[s] = dados[s]
        /\ UNCHANGED <<status, orc, datas, autorizado>>
    BY <1>23, <2>2, SegueMove DEF ListarItens
  <2>4. /\ NaOrdem("gerar_ler", dados[s], status[o], orc[o])
        /\ ~ ComFalhas => Decidida("gerar_ler", status[o], orc[o])
    BY <2>2 DEF Sabe, NaOrdem, Decidida, Resolvidos, Resolvendo
  <2>5. QED
    BY <2>2, <2>3, <2>4, ParadaLeva
<1>24. ASSUME CriarOrcamento(s)
       PROVE  Levou
  <2>1. Passo(s, "criar_orcamento")
    BY <1>24 DEF CriarOrcamento
  <2>2. TypeOK /\ o \in Ordens /\ Sabe(s, "criar_orcamento")
    BY <2>1, RotulosTipo, NoPasso DEF RotulosCriar
  <2> DEFINE b == [st |-> "PENDING", total |-> dados[s].total]
  <2>3. /\ orc' = [orc EXCEPT ![o] = b] /\ SegueSemDados(s, "recebida_ler")
        /\ UNCHANGED <<status, datas, autorizado>>
    BY <1>24, <2>2 DEF CriarOrcamento, CriarLinhaOrcamento, Sabe, NaOrdem
  <2>4. Decisao(b) \in {"PENDING", "SEM_VALOR"} /\ b.st = "PENDING"
    BY DEF Decisao
  <2> HIDE DEF b
  <2>5. SoMove(s) /\ pc'[s] = "recebida_ler" /\ alvo'[s] = o
    BY <2>2, <2>3, SegueSemDadosMove
  <2>6. /\ SoDaOrdem(o) /\ MesmoStatus(o) /\ MesmaExterna(o)
        /\ status'[o] = status[o] /\ orc'[o] = b
        /\ datas'[o] = datas[o] /\ autorizado'[o] = autorizado[o]
    BY <2>2, <2>3, OrcamentoEscrito
  <2>7. Evento(o)
    BY <2>2, <2>4, <2>6
       DEF Evento, Resolve, Sabe, NaOrdem, Decisao, Orcamento, SituacaoOrcamento
  <2>8. NaOrdem("recebida_ler", dados'[s], status[o], b)
    BY <2>2 DEF Sabe, NaOrdem
  <2>9. Linha(status[o], b, autorizado[o], datas[o])
    BY <2>2, <2>4 DEF Sabe, NaOrdem, Linha, Resolvidos, podeLancarServicosInsumos
  <2>10. orc[o].st # "APPROVED" /\ Decidida("recebida_ler", status[o], b)
    BY <2>2, <2>4 DEF Sabe, NaOrdem, Decidida
  <2>11. QED
    BY <2>2, <2>5, <2>6, <2>7, <2>8, <2>9, <2>10 DEF Leva
<1>25. ASSUME GerarCriar(s)
       PROVE  Levou
  <2>1. Passo(s, "gerar_criar")
    BY <1>25 DEF GerarCriar
  <2>2. TypeOK /\ o \in Ordens /\ Sabe(s, "gerar_criar")
    BY <2>1, RotulosTipo, NoPasso DEF RotulosListar
  <2> DEFINE b == [st |-> "PENDING", total |-> dados[s].total]
  <2>3. /\ orc' = [orc EXCEPT ![o] = b] /\ SegueSemDados(s, "aa_ler")
        /\ UNCHANGED <<status, datas, autorizado>>
    BY <1>25, <2>2 DEF GerarCriar, CriarLinhaOrcamento, Sabe, NaOrdem
  <2>4. Decisao(b) \in {"PENDING", "SEM_VALOR"} /\ b.st = "PENDING"
    BY DEF Decisao
  <2> HIDE DEF b
  <2>5. SoMove(s) /\ pc'[s] = "aa_ler" /\ alvo'[s] = o
    BY <2>2, <2>3, SegueSemDadosMove
  <2>6. /\ SoDaOrdem(o) /\ MesmoStatus(o) /\ MesmaExterna(o)
        /\ status'[o] = status[o] /\ orc'[o] = b
        /\ datas'[o] = datas[o] /\ autorizado'[o] = autorizado[o]
    BY <2>2, <2>3, OrcamentoEscrito
  <2>7. Evento(o)
    BY <2>2, <2>4, <2>6
       DEF Evento, Resolve, Sabe, NaOrdem, Decisao, Orcamento, SituacaoOrcamento
  <2>8. NaOrdem("aa_ler", dados'[s], status[o], b)
    BY <2>2 DEF Sabe, NaOrdem
  <2>9. Linha(status[o], b, autorizado[o], datas[o])
    BY <2>2, <2>4 DEF Sabe, NaOrdem, Linha, Resolvidos, podeLancarServicosInsumos
  <2>10. orc[o].st # "APPROVED" /\ Decidida("aa_ler", status[o], b)
    BY <2>2, <2>4 DEF Sabe, NaOrdem, Decidida
  <2>11. QED
    BY <2>2, <2>5, <2>6, <2>7, <2>8, <2>9, <2>10 DEF Leva
<1>26. ASSUME GerarAtualizar(s)
       PROVE  Levou
  <2>1. Passo(s, "gerar_atualizar")
    BY <1>26 DEF GerarAtualizar
  <2>2. TypeOK /\ o \in Ordens /\ Sabe(s, "gerar_atualizar")
    BY <2>1, RotulosTipo, NoPasso DEF RotulosListar
  <2> DEFINE b == [st |-> "PENDING", total |-> dados[s].total]
  <2>3. /\ orc' = [orc EXCEPT ![o] = b] /\ SegueSemDados(s, "aa_ler")
        /\ UNCHANGED <<status, datas, autorizado>>
    BY <1>26, <2>2 DEF GerarAtualizar, Sabe, NaOrdem
  <2>4. Decisao(b) \in {"PENDING", "SEM_VALOR"} /\ b.st = "PENDING"
    BY DEF Decisao
  <2> HIDE DEF b
  <2>5. SoMove(s) /\ pc'[s] = "aa_ler" /\ alvo'[s] = o
    BY <2>2, <2>3, SegueSemDadosMove
  <2>6. /\ SoDaOrdem(o) /\ MesmoStatus(o) /\ MesmaExterna(o)
        /\ status'[o] = status[o] /\ orc'[o] = b
        /\ datas'[o] = datas[o] /\ autorizado'[o] = autorizado[o]
    BY <2>2, <2>3, OrcamentoEscrito
  <2>7. Evento(o)
    BY <2>2, <2>4, <2>6
       DEF Evento, Resolve, Sabe, NaOrdem, Decisao, Orcamento, SituacaoOrcamento
  <2>8. NaOrdem("aa_ler", dados'[s], status[o], b)
    BY <2>2 DEF Sabe, NaOrdem
  <2>9. Linha(status[o], b, autorizado[o], datas[o])
    BY <2>2, <2>4 DEF Sabe, NaOrdem, Linha, Resolvidos, podeLancarServicosInsumos
  <2>10. orc[o].st # "APPROVED" /\ Decidida("aa_ler", status[o], b)
    BY <2>2, <2>4 DEF Sabe, NaOrdem, Decidida
  <2>11. QED
    BY <2>2, <2>5, <2>6, <2>7, <2>8, <2>9, <2>10 DEF Leva
<1>27. ASSUME RecebidaGravar(s)
       PROVE  Levou
  BY <1>27, RotulosTipo, NoPasso DEF RecebidaGravar, RotulosCriar, Sabe, NaOrdem
<1>28. ASSUME AtualizarGravar(s)
       PROVE  Levou
  <2> DEFINE st == dados[s].novo
  <2>1. /\ Passo(s, "patch_gravar") /\ GravaStatus(o, st) /\ Termina(s)
        /\ UNCHANGED <<orc, datas, autorizado>>
    BY <1>28 DEF AtualizarGravar
  <2>2. "patch_gravar" \in Ocupados
    BY RotulosTipo DEF RotulosTriagem
  <2>3. o \in Ordens /\ Sabe(s, "patch_gravar")
    BY <2>1, <2>2, NoPasso
  <2>4. st \in Editaveis /\ st \in Status /\ status[o] \in Editaveis
    BY <2>3 DEF Sabe, NaOrdem, Editaveis, Status
  <2> HIDE DEF st
  <2>5. Evento(o)
    BY <2>1, <2>3, <2>4, StatusEscrito DEF Evento, Passa
  <2>6. /\ Linha(st, orc[o], autorizado[o], datas[o])
        /\ ~ ComFalhas => Decidida("livre", st, orc[o])
    BY <2>3, <2>4 DEF Sabe, Linha, Decidida, Resolvidos, Resolvendo, Editaveis
  <2>7. QED
    BY <2>1, <2>2, <2>3, <2>4, <2>5, <2>6, GravaFimLeva
<1>29. ASSUME ExecucaoGravar(s)
       PROVE  Levou
  <2>1. /\ Passo(s, "exec_gravar") /\ GravaStatus(o, "IN_PROGRESS") /\ Segue(s, "inicio_gravar")
        /\ UNCHANGED <<orc, datas, autorizado>>
    BY <1>29 DEF ExecucaoGravar
  <2>2. TypeOK /\ o \in Ordens /\ Sabe(s, "exec_gravar") /\ "IN_PROGRESS" \in Status
    BY <2>1, RotulosTipo, NoPasso DEF RotulosExecucao, Status
  <2>3. SoMove(s) /\ pc'[s] = "inicio_gravar" /\ alvo'[s] = o
    BY <2>1, <2>2, SegueMove
  <2>4. Decisao(orc[o]) = "APPROVED" \/ (Externa(o) /\ status[o] = "AWAITING_PARTS")
    BY <2>2 DEF Sabe, NaOrdem, Linha, Resolvidos, Externa, Decisao
  <2>5. Evento(o)
    BY <2>1, <2>2, <2>4, StatusEscrito DEF Evento, Passa, Sabe, NaOrdem
  <2>6. /\ NaOrdem("inicio_gravar", dados'[s], "IN_PROGRESS", orc[o])
        /\ Linha("IN_PROGRESS", orc[o], autorizado[o], datas[o])
        /\ ~ ComFalhas => Decidida("inicio_gravar", "IN_PROGRESS", orc[o])
    BY <2>2 DEF Sabe, NaOrdem, Linha, Decidida, Resolvidos, Resolvendo, Colunas
  <2>7. QED
    BY <2>1, <2>2, <2>3, <2>5, <2>6, GravaLeva
<1>30. ASSUME FinalizadaGravar(s)
       PROVE  Levou
  <2>1. /\ Passo(s, "fin_gravar") /\ GravaStatus(o, "FINISHED") /\ Segue(s, "fim_gravar")
        /\ UNCHANGED <<orc, datas, autorizado>>
    BY <1>30 DEF FinalizadaGravar
  <2>2. TypeOK /\ o \in Ordens /\ Sabe(s, "fin_gravar") /\ "FINISHED" \in Status
    BY <2>1, RotulosTipo, NoPasso DEF RotulosEntrega, Status
  <2>3. SoMove(s) /\ pc'[s] = "fim_gravar" /\ alvo'[s] = o
    BY <2>1, <2>2, SegueMove
  <2>4. Evento(o)
    BY <2>1, <2>2, StatusEscrito DEF Evento, Passa, Sabe, NaOrdem
  <2>5. /\ NaOrdem("fim_gravar", dados'[s], "FINISHED", orc[o])
        /\ Linha("FINISHED", orc[o], autorizado[o], datas[o])
        /\ ~ ComFalhas => Decidida("fim_gravar", "FINISHED", orc[o])
    BY <2>2 DEF Sabe, NaOrdem, Linha, Decidida, Resolvidos, Resolvendo, Colunas
  <2>6. QED
    BY <2>1, <2>2, <2>3, <2>4, <2>5, GravaLeva
<1>31. ASSUME InicioGravar(s)
       PROVE  Levou
  <2>1. Passo(s, "inicio_gravar") /\ Termina(s) /\ datas' = ComData(o, "iniciada_em")
    BY <1>31 DEF InicioGravar
  <2>2. TypeOK /\ o \in Ordens /\ Sabe(s, "inicio_gravar")
    BY <2>1, RotulosTipo, NoPasso DEF RotulosExecucao
  <2>3. SoMove(s) /\ alvo'[s] = Nada /\ alvo'[s] # o
    BY <2>1, <2>2, TerminaSai, Parametros
  <2>4. UNCHANGED <<status, orc, autorizado>> /\ "iniciada_em" \in Colunas
    BY <1>31 DEF InicioGravar, Colunas
  <2>5. Linha(status[o], orc[o], autorizado[o], datas'[o])
    BY <2>1, <2>2, <2>4, DataEscrita DEF Sabe, NaOrdem, Linha, Colunas
  <2>6. SoDaOrdem(o)
    BY <2>1, <2>2, <2>4, DataEscrita DEF SoDaOrdem
  <2>7. Evento(o)
    BY <2>4 DEF Evento, MesmoStatus, MesmaDecisao, MesmaExterna, ExternaDepois, Externa
  <2>8. ~ ComFalhas => Decidida("livre", status[o], orc[o])
    BY <2>2 DEF Sabe, Decidida, Resolvendo
  <2>9. QED
    BY <2>2, <2>3, <2>4, <2>5, <2>6, <2>7, <2>8 DEF Leva
<1>32. ASSUME FimGravar(s)
       PROVE  Levou
  <2>1. Passo(s, "fim_gravar") /\ Termina(s) /\ datas' = ComData(o, "finalizada_em")
    BY <1>32 DEF FimGravar
  <2>2. TypeOK /\ o \in Ordens /\ Sabe(s, "fim_gravar")
    BY <2>1, RotulosTipo, NoPasso DEF RotulosEntrega
  <2>3. SoMove(s) /\ alvo'[s] = Nada /\ alvo'[s] # o
    BY <2>1, <2>2, TerminaSai, Parametros
  <2>4. UNCHANGED <<status, orc, autorizado>> /\ "finalizada_em" \in Colunas
    BY <1>32 DEF FimGravar, Colunas
  <2>5. Linha(status[o], orc[o], autorizado[o], datas'[o])
    BY <2>1, <2>2, <2>4, DataEscrita DEF Sabe, NaOrdem, Linha, Colunas
  <2>6. SoDaOrdem(o)
    BY <2>1, <2>2, <2>4, DataEscrita DEF SoDaOrdem
  <2>7. Evento(o)
    BY <2>4 DEF Evento, MesmoStatus, MesmaDecisao, MesmaExterna, ExternaDepois, Externa
  <2>8. ~ ComFalhas => Decidida("livre", status[o], orc[o])
    BY <2>2 DEF Sabe, Decidida, Resolvendo
  <2>9. QED
    BY <2>2, <2>3, <2>4, <2>5, <2>6, <2>7, <2>8 DEF Leva
<1>33. ASSUME AprovarGravar(s)
       PROVE  Levou
  <2>1. Passo(s, "aprovar_gravar")
    BY <1>33 DEF AprovarGravar
  <2>2. TypeOK /\ o \in Ordens /\ Sabe(s, "aprovar_gravar")
    BY <2>1, RotulosTipo, NoPasso DEF RotulosDecisao
  <2>3. orc[o].st # "ausente"
    BY <2>2 DEF Sabe, NaOrdem
  <2> DEFINE r == VerificarNecessidadePecas(orc[o])
  <2>4. /\ orc' = [orc EXCEPT ![o].st = "APPROVED"] /\ Segue(s, r)
        /\ autorizado' = [autorizado EXCEPT ![o] = @ \cup {"orcamento"}]
        /\ UNCHANGED <<status, pecas, datas, pagos, marcos>>
    BY <1>33, <2>3 DEF AprovarGravar
  <2>5. r \in {"pecas_verificar", "exec_ler_sem"}
    BY DEF VerificarNecessidadePecas
  <2> HIDE DEF r
  <2>6. SoMove(s) /\ pc'[s] = r /\ alvo'[s] = o
    BY <2>2, <2>4, SegueMove
  <2>7. orc'[o].st = "APPROVED" /\ \A x \in Ordens \ {o} : orc'[x] = orc[x]
    BY <2>2, <2>4, SituacaoEscrita
  <2>8. SoDaOrdem(o) /\ MesmoStatus(o) /\ MesmaExterna(o)
    BY <2>2, <2>4, <2>7
       DEF TypeOK, TipoBanco, SoDaOrdem, MesmoStatus, MesmaExterna, ExternaDepois,
           Externa
  <2>9. Decisao(orc[o]) = "PENDING" /\ status[o] = "AWAITING_APPROVAL"
    BY <2>2 DEF Sabe, NaOrdem, Decisao
  <2>10. Evento(o)
    BY <2>7, <2>8, <2>9 DEF Evento, Resolve, Decisao
  <2>11. /\ NaOrdem(r, dados'[s], status'[o], orc'[o])
         /\ Linha(status'[o], orc'[o], autorizado'[o], datas'[o])
         /\ Decidida(r, status'[o], orc'[o])
    BY <2>2, <2>4, <2>5, <2>7, <2>9 DEF Sabe, NaOrdem, Linha, Decidida, Resolvidos, Resolvendo
  <2>12. QED
    BY <2>2, <2>6, <2>8, <2>10, <2>11 DEF Leva, Sabe, NaOrdem
<1>34. ASSUME RecusarGravar(s)
       PROVE  Levou
  <2>1. Passo(s, "recusar_gravar")
    BY <1>34 DEF RecusarGravar
  <2>2. TypeOK /\ o \in Ordens /\ Sabe(s, "recusar_gravar")
    BY <2>1, RotulosTipo, NoPasso DEF RotulosDecisao
  <2>3. orc[o].st # "ausente"
    BY <2>2 DEF Sabe, NaOrdem
  <2>4. /\ orc' = [orc EXCEPT ![o].st = "REJECTED"] /\ Segue(s, "encerrar_gravar")
        /\ UNCHANGED <<status, pecas, datas, pagos, marcos, autorizado>>
    BY <1>34, <2>3 DEF RecusarGravar
  <2>5. SoMove(s) /\ pc'[s] = "encerrar_gravar" /\ alvo'[s] = o
    BY <2>2, <2>4, SegueMove
  <2>6. orc'[o].st = "REJECTED" /\ \A x \in Ordens \ {o} : orc'[x] = orc[x]
    BY <2>2, <2>4, SituacaoEscrita
  <2>7. SoDaOrdem(o) /\ MesmoStatus(o) /\ MesmaExterna(o)
    BY <2>2, <2>4, <2>6 DEF SoDaOrdem, MesmoStatus, MesmaExterna, ExternaDepois, Externa
  <2>8. Decisao(orc[o]) \in {"PENDING", "SEM_VALOR"} /\ status[o] = "AWAITING_APPROVAL"
    BY <2>2 DEF Sabe, NaOrdem, Decisao
  <2>9. Evento(o)
    BY <2>6, <2>7, <2>8 DEF Evento, Resolve, Decisao
  <2>10. /\ NaOrdem("encerrar_gravar", dados'[s], status'[o], orc'[o])
        /\ Linha(status'[o], orc'[o], autorizado'[o], datas'[o])
        /\ Decidida("encerrar_gravar", status'[o], orc'[o])
    BY <2>2, <2>4, <2>6, <2>8 DEF Sabe, NaOrdem, Linha, Decidida, Resolvidos, Resolvendo
  <2>11. QED
    BY <2>2, <2>5, <2>7, <2>9, <2>10 DEF Leva, Sabe, NaOrdem
<1>35. ASSUME WebhookGravar(s)
       PROVE  Levou
  <2> DEFINE st == dados[s].novo
  <2>1. /\ Passo(s, "web_gravar") /\ GravaStatus(o, st) /\ Segue(s, "web_historico")
        /\ datas' = IF st = "FINISHED" THEN ComData(o, "finalizada_em") ELSE datas
        /\ autorizado' = IF st = "IN_PROGRESS"
                         THEN [autorizado EXCEPT ![o] = @ \cup {"webhook"}]
                         ELSE autorizado
        /\ UNCHANGED <<orc, pecas, pagos>>
    BY <1>35 DEF WebhookGravar
  <2>2. TypeOK /\ o \in Ordens /\ Sabe(s, "web_gravar")
    BY <2>1, RotulosTipo, NoPasso DEF RotulosWebhook
  <2>3. st \in validTransitions[status[o]] /\ status[o] \in Status
    BY <2>2 DEF Sabe, NaOrdem
  <2>4. SoMove(s) /\ pc'[s] = "web_historico" /\ alvo'[s] = o /\ dados'[s].novo = st
    BY <2>1, <2>2, SegueMove
  <2> HIDE DEF st
  <2>5. /\ st = "IN_PROGRESS" => status[o] \in {"AWAITING_APPROVAL", "AWAITING_PARTS"}
        /\ st \in {"AWAITING_PARTS", "FINISHED"} => status[o] = "IN_PROGRESS"
        /\ st = "DELIVERED" <=> status[o] = "FINISHED"
        /\ status[o] \in Resolvidos => st \in Resolvidos
        /\ status[o] # "CLOSED_WITHOUT_EXECUTION" /\ status[o] # "DELIVERED"
    BY <2>3 DEF validTransitions, Status, Resolvidos
  <2>6. status'[o] = st /\ \A x \in Ordens \ {o} : status'[x] = status[x]
    BY <2>1, <2>2 DEF TypeOK, TipoBanco, GravaStatus
  <2>7. /\ ExternaDepois(o) = (Externa(o) \/ st = "IN_PROGRESS")
        /\ \A x \in Ordens \ {o} : autorizado'[x] = autorizado[x]
    BY <2>1, <2>2 DEF TypeOK, TipoBanco, Externa, ExternaDepois
  <2>8. /\ \A x \in Ordens \ {o} : datas'[x] = datas[x]
        /\ st # "FINISHED" => datas'[o] = datas[o]
        /\ st = "FINISHED" =>
             \A y \in Colunas : /\ <<y, y>> \in datas'[o] => y = "finalizada_em" \/ <<y, y>> \in datas[o]
                                /\ <<y, y>> \in datas[o] => <<y, "finalizada_em">> \in datas'[o]
    BY <2>1, <2>2, DataEscrita DEF Colunas
  <2>9. Evento(o) /\ SoDaOrdem(o)
    BY <2>1, <2>3, <2>6, <2>7, <2>8 DEF Evento, SoDaOrdem, MesmaDecisao
  <2>10. Linha(st, orc[o], autorizado'[o], datas'[o])
    <3>1. st \in Resolvidos /\ ~ ExternaDepois(o) => orc[o].st = "APPROVED"
      BY <2>2, <2>5, <2>7 DEF Sabe, Linha, Resolvidos, Externa, ExternaDepois
    <3>2. <<"finalizada_em", "finalizada_em">> \in datas'[o] => st \in {"FINISHED", "DELIVERED"}
      BY <2>2, <2>5, <2>8 DEF Sabe, Linha
    <3>3. (\A c \in Colunas : <<c, c>> \in datas'[o]) => <<"iniciada_em", "finalizada_em">> \in datas'[o]
      BY <2>2, <2>8 DEF Sabe, Linha, Colunas
    <3>4. QED
      BY <3>1, <3>2, <3>3 DEF Linha, ExternaDepois
  <2>11. ~ ComFalhas => Decidida("web_historico", st, orc[o])
    BY <2>2, <2>5 DEF Sabe, Decidida, Resolvendo
  <2>12. NaOrdem("web_historico", dados'[s], st, orc[o])
    BY <2>4 DEF NaOrdem
  <2>13. QED
    BY <2>1, <2>2, <2>4, <2>6, <2>9, <2>10, <2>11, <2>12 DEF Leva
<1>36. ASSUME WebhookHistorico(s)
       PROVE  Levou
  <2>1. Passo(s, "web_historico")
    BY <1>36 DEF WebhookHistorico
  <2>2. TypeOK /\ o \in Ordens /\ Sabe(s, "web_historico")
    BY <2>1, RotulosTipo, NoPasso DEF RotulosWebhook
  <2>3. dados[s].novo = status[o] /\ SoLeitura
    BY <1>36, <2>2 DEF WebhookHistorico, Sabe, NaOrdem
  <2>4. ASSUME NEW r \in {"inicio_gravar", "fim_gravar"}, SegueSemDados(s, r),
               NaOrdem(r, dados'[s], status[o], orc[o])
        PROVE  Levou
    <3>1. SoMove(s) /\ pc'[s] = r /\ alvo'[s] = o
      BY <2>2, <2>4, SegueSemDadosMove
    <3>2. ~ ComFalhas => Decidida(r, status[o], orc[o])
      BY <2>2 DEF Sabe, Decidida, Resolvendo
    <3>3. QED
      BY <2>2, <2>3, <2>4, <3>1, <3>2, LeituraLeva
  <2>5. CASE status[o] = "IN_PROGRESS"
    BY <1>36, <2>3, <2>4, <2>5 DEF WebhookHistorico, NaOrdem
  <2>6. CASE status[o] = "FINISHED"
    BY <1>36, <2>3, <2>4, <2>6 DEF WebhookHistorico, NaOrdem
  <2>7. CASE status[o] \notin {"IN_PROGRESS", "FINISHED"}
    <3>1. Termina(s)
      BY <1>36, <2>3, <2>7 DEF WebhookHistorico
    <3>2. ~ ComFalhas => Decidida("livre", status[o], orc[o])
      BY <2>2 DEF Sabe, Decidida, Resolvendo
    <3>3. QED
      BY <2>2, <2>3, <3>1, <3>2, TerminaLeva
  <2>8. QED
    BY <2>5, <2>6, <2>7
<1>37. ASSUME OrdemAusente(s)
       PROVE  Levou
  <2>1. TypeOK /\ ~ Existe(o) /\ pc[s] # "livre" /\ Termina(s) /\ SoLeitura
    BY <1>37 DEF OrdemAusente, InvarianteIsolado, InvariantePercurso
  <2>2. o \in Ordens
    BY <2>1 DEF TypeOK, TipoSessao
  <2>3. Decidida("livre", status[o], orc[o])
    BY <2>1, <2>2 DEF InvarianteIsolado, InvariantePercurso, SemOrfaos, SemOrcamento, Decidida
  <2>4. QED
    BY <2>1, <2>2, <2>3, TerminaLeva
<1>38. QED
  BY <1>1, <1>2, <1>3, <1>4, <1>5, <1>6, <1>7, <1>8, <1>9, <1>10, <1>11, <1>12, <1>13,
     <1>14, <1>15, <1>16, <1>17, <1>18, <1>19, <1>20, <1>21, <1>22, <1>23, <1>24, <1>25,
     <1>26, <1>27, <1>28, <1>29, <1>30, <1>31, <1>32, <1>33, <1>34, <1>35, <1>36, <1>37
     DEF Avancar
-----------------------------------------------------------------------------
(* The inductive invariant and the life cycle, step by step.               *)

\* A session whose order keeps what it has to leave behind keeps the invariant:
\* no other session has that order.
LEMMA IsoladoPorSessao ==
  ASSUME InvarianteIsolado, InvariantePercurso', NEW s \in Sessoes, NEW o \in Ordens, Leva(s, o),
         alvo[s] = o \/ (alvo[s] = Nada /\ \A t \in Sessoes : alvo[t] # o)
  PROVE  InvarianteIsolado'
<1>1. /\ \A t \in Sessoes \ {s} : /\ pc'[t] = pc[t] /\ alvo'[t] = alvo[t] /\ dados'[t] = dados[t]
                                  /\ alvo[t] # o
      /\ alvo'[s] \in {o, Nada} /\ o # Nada
  BY Parametros DEF Leva, SoMove, InvarianteIsolado, Sozinhas
<1>2. \A x \in Ordens \ {o} : /\ status'[x] = status[x] /\ orc'[x] = orc[x]
                              /\ datas'[x] = datas[x] /\ autorizado'[x] = autorizado[x]
  BY DEF Leva, SoDaOrdem
<1>3. Sozinhas'
  BY <1>1 DEF InvarianteIsolado, Sozinhas
<1>4. LinhasBoas'
  BY <1>2 DEF InvarianteIsolado, LinhasBoas, Leva
<1>5. SessoesSabem'
  <2>1. ASSUME NEW t \in Sessoes, alvo'[t] # Nada
        PROVE  NaOrdem(pc'[t], dados'[t], status'[alvo'[t]], orc'[alvo'[t]])
    <3>1. CASE t = s
      BY <1>1, <2>1, <3>1 DEF Leva
    <3>2. CASE t # s
      <4>1. alvo[t] \in Ordens \ {o}
        BY <1>1, <2>1, <3>2 DEF InvarianteIsolado, InvariantePercurso, TypeOK, TipoSessao
      <4>2. QED
        BY <1>1, <1>2, <2>1, <3>2, <4>1 DEF InvarianteIsolado, SessoesSabem
    <3>3. QED
      BY <3>1, <3>2
  <2>2. QED
    BY <2>1 DEF SessoesSabem
<1>6. ASSUME ~ ComFalhas
      PROVE  Decididas'
  <2>1. ASSUME NEW x \in Ordens
        PROVE  \/ Decidida("livre", status'[x], orc'[x])
               \/ \E t \in Sessoes : alvo'[t] = x /\ Decidida(pc'[t], status'[x], orc'[x])
    <3>1. CASE x = o
      BY <1>6, <3>1 DEF Leva
    <3>2. CASE x # o
      <4>1. \A t \in Sessoes : alvo[t] = x => t # s
        BY <1>1, <3>2, Parametros
      <4>2. QED
        BY <1>1, <1>2, <1>6, <3>2, <4>1 DEF InvarianteIsolado, Decididas
    <3>3. QED
      BY <3>1, <3>2
  <2>2. QED
    BY <2>1 DEF Decididas
<1>7. QED
  BY <1>3, <1>4, <1>5, <1>6 DEF InvarianteIsolado

\* The administrator deletes an order nobody works on.
LEMMA DeletarBom ==
  ASSUME InvarianteIsolado, InvariantePercurso', Isolado, NEW o \in Ordens, Deletar(o)
  PROVE  InvarianteIsolado' /\ SoDaOrdem(o) /\ Evento(o) /\ status'[o] = "removida"
<1>1. /\ UNCHANGED <<pc, alvo, dados, autorizado>>
      /\ status[o] \in Status /\ \A t \in Sessoes : alvo[t] # o
  BY DEF Deletar, sessao, Disponivel, Existe
<1>2. /\ status'[o] = "removida" /\ orc'[o] = SemOrcamento /\ datas'[o] = {}
      /\ SoDaOrdem(o)
  BY DEF Deletar, InvarianteIsolado, InvariantePercurso, TypeOK, TipoBanco, SoDaOrdem
<1>3. Evento(o)
  BY <1>1, <1>2 DEF Evento, MesmaExterna, ExternaDepois, Externa, Decisao, SemOrcamento
<1>4. Sozinhas'
  BY <1>1 DEF InvarianteIsolado, Sozinhas
<1>5. LinhasBoas'
  <2>1. Linha(status'[o], orc'[o], autorizado'[o], datas'[o])
    BY <1>2 DEF Linha, Resolvidos, Colunas
  <2>2. QED
    BY <1>2, <2>1 DEF InvarianteIsolado, LinhasBoas, SoDaOrdem
<1>6. SessoesSabem'
  <2>1. \A t \in Sessoes : alvo[t] # Nada => alvo[t] \in Ordens \ {o}
    BY <1>1 DEF InvarianteIsolado, InvariantePercurso, TypeOK, TipoSessao
  <2>2. QED
    BY <1>1, <1>2, <2>1 DEF InvarianteIsolado, SessoesSabem, SoDaOrdem
<1>7. ~ ComFalhas => Decididas'
  <2>1. Decidida("livre", status'[o], orc'[o])
    BY <1>2 DEF Decidida, SemOrcamento
  <2>2. QED
    BY <1>1, <1>2, <2>1 DEF InvarianteIsolado, Decididas, SoDaOrdem
<1>8. QED
  BY <1>2, <1>3, <1>4, <1>5, <1>6, <1>7 DEF InvarianteIsolado

\* The request is cut short.
LEMMA InterromperLeva ==
  ASSUME InvarianteIsolado, NEW s \in Sessoes, Interromper(s)
  PROVE  alvo[s] \in Ordens /\ Leva(s, alvo[s])
<1>1. alvo[s] \in Ordens
  BY DEF Interromper, InvarianteIsolado, InvariantePercurso, TypeOK, TipoSessao
<1>2. QED
  BY <1>1, TerminaLeva DEF Interromper

LEMMA PassoIsolado ==
  ASSUME InvarianteIsolado, Isolado, Next
  PROVE  /\ InvarianteIsolado'
         /\ \E o \in Ordens : /\ SoDaOrdem(o) /\ Evento(o)
                              /\ orc[o].st = "APPROVED" /\ status'[o] \in Status => orc'[o] = orc[o]
<1>1. InvariantePercurso'
  BY Percurso DEF InvarianteIsolado
<1>2. ASSUME NEW s \in Sessoes, NEW o \in Ordens, Leva(s, o),
             alvo[s] = o \/ (alvo[s] = Nada /\ \A t \in Sessoes : alvo[t] # o)
      PROVE  /\ InvarianteIsolado'
             /\ SoDaOrdem(o) /\ Evento(o)
             /\ orc[o].st = "APPROVED" /\ status'[o] \in Status => orc'[o] = orc[o]
  BY <1>1, <1>2, IsoladoPorSessao DEF Leva
<1>3. ASSUME NEW s \in Sessoes, Requisicao(s)
      PROVE  \E o \in Ordens : /\ Leva(s, o)
                               /\ alvo[s] = o \/ (alvo[s] = Nada /\ \A t \in Sessoes : alvo[t] # o)
  BY <1>3, RequisicaoLeva
<1>4. ASSUME NEW s \in Sessoes, Avancar(s) \/ Interromper(s)
      PROVE  \E o \in Ordens : Leva(s, o) /\ alvo[s] = o
  BY <1>4, AvancarLeva, InterromperLeva
<1>5. ASSUME NEW o \in Ordens, Deletar(o)
      PROVE  /\ InvarianteIsolado'
             /\ SoDaOrdem(o) /\ Evento(o)
             /\ orc[o].st = "APPROVED" /\ status'[o] \in Status => orc'[o] = orc[o]
  BY <1>1, <1>5, DeletarBom DEF Status
<1>6. QED
  BY <1>2, <1>3, <1>4, <1>5 DEF Next

LEMMA IsoladoInicial == Init => InvarianteIsolado
<1> SUFFICES ASSUME Init
             PROVE  InvarianteIsolado
  OBVIOUS
<1>1. InvariantePercurso
  BY InicioPercurso
<1>2. Sozinhas /\ SessoesSabem
  BY DEF Init, Sozinhas, SessoesSabem
<1>3. LinhasBoas /\ Decididas
  BY DEF Init, LinhasBoas, Linha, Resolvidos, Colunas, Decididas, Decidida, SemOrcamento
<1>4. QED
  BY <1>1, <1>2, <1>3 DEF InvarianteIsolado

LEMMA IsoladoPreservado ==
  ASSUME Isolado
  PROVE  InvarianteIsolado /\ [Next]_vars => InvarianteIsolado'
<1>1. CASE Next
  BY <1>1, PassoIsolado
<1>2. ASSUME InvarianteIsolado, UNCHANGED vars
      PROVE  InvarianteIsolado'
  <2>1. InvariantePercurso'
    BY <1>2, Percurso DEF InvarianteIsolado
  <2>2. UNCHANGED <<status, orc, datas, autorizado, pc, alvo, dados>>
    BY <1>2 DEF vars, banco, sessao
  <2>3. (Sozinhas /\ LinhasBoas /\ SessoesSabem)' /\ (~ ComFalhas => Decididas')
    BY <1>2, <2>2 DEF InvarianteIsolado, Sozinhas, LinhasBoas, SessoesSabem, Decididas
  <2>4. QED
    BY <2>1, <2>3 DEF InvarianteIsolado
<1>3. QED
  BY <1>1, <1>2

LEMMA IsoladoSempre ==
  ASSUME Isolado
  PROVE  Spec => []InvarianteIsolado
<1>1. InvarianteIsolado /\ [Next]_vars => InvarianteIsolado'
  BY IsoladoPreservado
<1>2. QED
  BY <1>1, IsoladoInicial, PTL DEF Spec

-----------------------------------------------------------------------------
(* The theorems.                                                           *)

\* The chain of use cases, event handlers and database calls of a request is
\* the life cycle the service promises: each write of a status or of a budget
\* is one of its events, with its condition true at the write, and a chain cut
\* short leaves the order where the life cycle has it.
THEOREM CicloImplementado ==
  ASSUME Isolado
  PROVE  Spec => ImplementaCiclo
<1>1. Init => Ciclo!Init
  <2> SUFFICES ASSUME Init
               PROVE  Ciclo!Init
    OBVIOUS
  <2>1. \A o \in Ordens : Decisao(orc[o]) = "ausente"
    BY DEF Init, Decisao, SemOrcamento
  <2>2. {o \in Ordens : "webhook" \in autorizado[o]} = {}
    BY DEF Init
  <2>3. QED
    BY <2>1, <2>2 DEF Init, Ciclo!Init
<1>2. InvarianteIsolado /\ InvarianteIsolado' /\ [Next]_vars => [Ciclo!Next]_(Ciclo!ciclo)
  <2> SUFFICES ASSUME InvarianteIsolado, InvarianteIsolado', [Next]_vars
               PROVE  [Ciclo!Next]_(Ciclo!ciclo)
    OBVIOUS
  <2>1. TypeOK /\ TypeOK'
    BY DEF InvarianteIsolado, InvariantePercurso
  <2>2. CASE Next
    <3>1. PICK o \in Ordens : SoDaOrdem(o) /\ Evento(o)
      BY <2>2, PassoIsolado
    <3>2. QED
      BY <2>1, <3>1, EventoDoCiclo
  <2>3. CASE UNCHANGED vars
    <3>1. UNCHANGED <<status, orc, autorizado>>
      BY <2>3 DEF vars, banco
    <3>2. QED
      BY <3>1 DEF Ciclo!ciclo
  <2>4. QED
    BY <2>2, <2>3
<1>3. QED
  BY <1>1, <1>2, IsoladoSempre, PTL DEF Spec, ImplementaCiclo, Ciclo!Spec

\* An order the webhook did not start executes, waits for parts or is done only
\* with its budget approved: GerarOrcamentoHandler cannot set it back to
\* pending, nor RecusarOrcamento refuse it, after the execution began.
THEOREM ExecucaoSempreAprovada ==
  ASSUME Isolado
  PROVE  Spec => []ExecucaoComOrcamentoAprovado
<1>1. InvarianteIsolado => ExecucaoComOrcamentoAprovado
  BY DEF InvarianteIsolado, LinhasBoas, Linha, Resolvidos, ExecucaoComOrcamentoAprovado
<1>2. QED
  BY <1>1, IsoladoSempre, PTL

\* finalizada_em is never before iniciada_em: the two time monitors write each
\* its date an await after the status that asks for it, and the webhook writes
\* one of them itself, but the order they are written in is kept.
THEOREM DuracaoSempreNaoNegativa ==
  ASSUME Isolado
  PROVE  Spec => []DuracaoNaoNegativa
<1>1. InvarianteIsolado => DuracaoNaoNegativa
  BY DEF InvarianteIsolado, LinhasBoas, Linha, DuracaoNaoNegativa, Preenchida
<1>2. QED
  BY <1>1, IsoladoSempre, PTL

\* Between its approval and the removal of the order, no handler rewrites a
\* budget: GerarOrcamentoHandler refuses an approved one, an await before it
\* writes.
THEOREM AprovadoSempreImutavel ==
  ASSUME Isolado
  PROVE  Spec => OrcamentoAprovadoImutavel
<1> DEFINE Imutavel == \A o \in Ordens :
                         orc[o].st = "APPROVED" /\ Existe(o)' => orc'[o] = orc[o]
<1>1. InvarianteIsolado /\ [Next]_vars => [Imutavel]_vars
  <2>1. ASSUME InvarianteIsolado, Next
        PROVE  Imutavel
    <3>1. PICK x \in Ordens :
            /\ SoDaOrdem(x)
            /\ orc[x].st = "APPROVED" /\ status'[x] \in Status => orc'[x] = orc[x]
      BY <2>1, PassoIsolado
    <3>2. QED
      BY <3>1 DEF SoDaOrdem, Existe
  <2>2. QED
    BY <2>1
<1>2. QED
  BY <1>1, IsoladoSempre, PTL DEF Spec, OrcamentoAprovadoImutavel

\* When no request is cut short either, the decision of the client has taken
\* effect once no request works on the order: OrcamentoAprovado leads to the
\* execution or to the wait for parts, OrcamentoRecusado closes the order.
THEOREM DecisaoSempreConcluida ==
  ASSUME Isolado, ~ ComFalhas
  PROVE  Spec => []DecisaoConcluida
<1>1. InvarianteIsolado => DecisaoConcluida
  BY DEF InvarianteIsolado, Decididas, Decidida, Resolvidos, Resolvendo, DecisaoConcluida
<1>2. QED
  BY <1>1, IsoladoSempre, PTL

=============================================================================
