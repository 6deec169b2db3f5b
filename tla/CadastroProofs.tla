--------------------------- MODULE CadastroProofs ---------------------------
(***************************************************************************)
(* Proofs about Cadastro, for every set of customers, vehicles, services,  *)
(* orders, concurrent requests, request bodies and updates.                *)
(*                                                                         *)
(* A step does two things: it writes rows, and it moves a session. The     *)
(* lemma Escritas says that what any step writes is one of a dozen kinds   *)
(* of write, with the keys the database has checked; the lemma Movimentos  *)
(* says that a session only goes to a call whose data it carries. The      *)
(* invariants of the rows follow from the first, by kind of write, and     *)
(* those of the sessions from the second and from Evolui: a row, once it   *)
(* was there, keeps its document or plate until it is removed for good.    *)
(***************************************************************************)
EXTENDS Cadastro, TLAPS

-----------------------------------------------------------------------------
(* The inductive invariant.                                                *)

\* Documents and plates are stored in the form the unique keys compare.
FormaCanonica ==
  /\ \A c \in Existentes(clientes) : clientes[c].documento.grafia = "canonica"
  /\ \A v \in Existentes(veiculos) : veiculos[v].placa.grafia = "canonica"

\* Calls made with a customer, with a vehicle, with a plate in hand.
ComCliente == {"cliente_gravar", "cliente_apagar", "os_buscar_veiculo", "os_criar_veiculo",
               "os_servico", "os_criar", "os_vincular"}
ComVeiculo == {"veiculo_gravar", "veiculo_apagar", "os_servico", "os_criar", "os_vincular"}
ComPlaca   == {"os_criar_cliente", "os_buscar_veiculo", "os_criar_veiculo"}

\* What a session about to make the call r carries in d, where cs, vs and os are
\* the rows: rows that were there when it read or created them, and, when it is
\* about to create one, rows that are not the one it looked for.
Carrega(r, d, cs, vs, os) ==
  /\ r \in ComCliente => d.cliente \in Clientes /\ cs[d.cliente].st # "novo"
  /\ r \in ComVeiculo => d.veiculo \in Veiculos /\ vs[d.veiculo].st # "novo"
  /\ r \in ComPlaca => d.placa \in Placas
  /\ r = "os_vincular" => d.ordem \in Ordens /\ os[d.ordem].st # "novo"
  /\ r = "cliente_gravar" => d.alteracao \in Alteracoes
  /\ r = "veiculo_gravar" => d.modelo \in Texto
  /\ r = "os_criar_cliente" =>
       /\ d.ficha \in Fichas /\ d.vistos \subseteq Clientes
       /\ \A c \in d.vistos : /\ cs[c].st # "novo"
                              /\ cs[c].st = "presente" => cs[c].documento # d.ficha.documento
  /\ r = "os_criar_veiculo" =>
       /\ d.vistos \subseteq Veiculos
       /\ \A v \in d.vistos : /\ vs[v].st # "novo"
                              /\ vs[v].st = "presente" => vs[v].placa # d.placa

SessoesCarregam ==
  \A s \in Sessoes : Carrega(pc[s], dados[s], clientes, veiculos, ordens)

\* Two sessions never link services to the same order, and the one that does
\* finds none linked.
VinculosProprios ==
  \A s \in Sessoes : pc[s] = "os_vincular" =>
    /\ ordens[dados[s].ordem].servicos = {}
    /\ \A t \in Sessoes \ {s} : pc[t] = "os_vincular" => dados[t].ordem # dados[s].ordem

Invariante ==
  /\ TypeOK /\ SessoesCarregam /\ VinculosProprios
  /\ FormaCanonica /\ IdentidadeUnica /\ OrdemIntegra

-----------------------------------------------------------------------------
(* The kinds of write.                                                     *)

NovoCliente(c, f) ==
  /\ ~ ClienteRepetido(CriarVo(f.documento), CriarVo(f.email), {})
  /\ InsereCliente(c, f)

AlteraCliente(c, nome, email) ==
  /\ clientes[c].st = "presente"
  /\ clientes' = [clientes EXCEPT ![c].nome = nome, ![c].email = email]
  /\ UNCHANGED <<veiculos, servicos, ordens>>

NovoVeiculo(v, placa, dono) ==
  /\ ~ PlacaRepetida(CriarVo(placa)) /\ clientes[dono].st = "presente"
  /\ InsereVeiculo(v, placa, dono)

AlteraVeiculo(v, modelo) ==
  /\ veiculos[v].st = "presente"
  /\ veiculos' = [veiculos EXCEPT ![v].modelo = modelo]
  /\ UNCHANGED <<clientes, servicos, ordens>>

NovoServico(x) == servicos' = servicos \cup {x} /\ UNCHANGED <<clientes, veiculos, ordens>>

ApagaServico(x) ==
  /\ \A o \in Ordens : x \notin ordens[o].servicos
  /\ servicos' = servicos \ {x}
  /\ UNCHANGED <<clientes, veiculos, ordens>>

NovaOrdem(o, c, v) ==
  /\ ordens[o].st = "novo" /\ clientes[c].st = "presente" /\ veiculos[v].st = "presente"
  /\ ordens' = [ordens EXCEPT ![o] =
       [st |-> "presente", cliente |-> c, veiculo |-> v, servicos |-> {}]]
  /\ UNCHANGED <<clientes, veiculos, servicos>>

Vincula(o, l) ==
  /\ ordens[o].st = "presente" /\ ordens[o].servicos = {} /\ l \subseteq servicos
  /\ ordens' = [ordens EXCEPT ![o].servicos = l]
  /\ UNCHANGED <<clientes, veiculos, servicos>>

ApagaOrdem(o) ==
  /\ \E s \in Sessoes : DeletarOrdem(s, o)
  /\ ordens' = [ordens EXCEPT ![o] = [SemOrdem EXCEPT !.st = "removido"]]
  /\ UNCHANGED <<clientes, veiculos, servicos>>

Escrita ==
  \/ UNCHANGED cadastro
  \/ \E c \in Clientes, f \in Fichas : NovoCliente(c, f)
  \/ \E c \in Clientes, nome \in Texto, email \in Emails : AlteraCliente(c, nome, email)
  \/ \E C \in SUBSET Clientes, V \in SUBSET Veiculos : Apaga(C, V)
  \/ \E v \in Veiculos, p \in Placas, c \in Clientes : NovoVeiculo(v, p, c)
  \/ \E v \in Veiculos, modelo \in Texto : AlteraVeiculo(v, modelo)
  \/ \E x \in Servicos : NovoServico(x) \/ ApagaServico(x)
  \/ \E o \in Ordens, c \in Clientes, v \in Veiculos : NovaOrdem(o, c, v)
  \/ \E o \in Ordens, l \in SUBSET Servicos : Vincula(o, l)
  \/ \E o \in Ordens : ApagaOrdem(o)

\* The state of a row, by its table.
LEMMA Linhas ==
  ASSUME TipoBanco
  PROVE  /\ \A c \in Clientes : clientes[c].st = "presente" =>
              /\ clientes[c].documento \in Documentos /\ clientes[c].email \in Emails
              /\ clientes[c].nome \in Texto
         /\ \A v \in Veiculos : veiculos[v].st = "presente" =>
              /\ veiculos[v].placa \in TodasPlacas /\ veiculos[v].dono \in Clientes
              /\ veiculos[v].modelo \in Texto
         /\ \A o \in Ordens : ordens[o].st = "presente" =>
              /\ ordens[o].cliente \in Clientes /\ ordens[o].veiculo \in Veiculos
         /\ \A o \in Ordens : ordens[o].servicos \subseteq Servicos
         /\ \A c \in Clientes : clientes[c].st \in Situacao
         /\ \A v \in Veiculos : veiculos[v].st \in Situacao
         /\ \A o \in Ordens : ordens[o].st \in Situacao
BY DEF TipoBanco, LinhasCliente, LinhasVeiculo, LinhasOrdem, SemCliente, SemVeiculo,
       SemOrdem, Situacao

\* Whatever a step does, what it writes is one of the kinds above.
LEMMA Escritas ==
  ASSUME TypeOK, SessoesCarregam, VinculosProprios, Next
  PROVE  Escrita
<1> USE DEF TypeOK
<1> SUFFICES ASSUME ~ UNCHANGED cadastro
             PROVE  Escrita
  BY DEF Escrita
<1>1. ASSUME NEW s \in Sessoes, NEW f \in Fichas, CreateCliente(s, f)
      PROVE  Escrita
  BY <1>1 DEF CreateCliente, Escrita, NovoCliente
<1>2. ASSUME NEW s \in Sessoes, UpdateClienteGravar(s)
      PROVE  Escrita
  <2> DEFINE c == dados[s].cliente
             nome == Dado(dados[s].alteracao.nome, clientes[c].nome)
             email == Dado(dados[s].alteracao.email, clientes[c].email)
  <2>1. c \in Clientes /\ dados[s].alteracao \in Alteracoes /\ clientes[c].st = "presente"
    BY <1>2 DEF SessoesCarregam, Carrega, ComCliente, UpdateClienteGravar
  <2>2. nome \in Texto /\ email \in Emails
    BY <2>1, Linhas, Parametros DEF Dado
  <2>3. AlteraCliente(c, nome, email)
    BY <1>2, <2>1 DEF UpdateClienteGravar, AlteraCliente
  <2>4. QED
    BY <2>1, <2>2, <2>3 DEF Escrita
<1>3. ASSUME NEW s \in Sessoes, DeleteClienteApagar(s)
      PROVE  Escrita
  <2>1. dados[s].cliente \in Clientes /\ Apaga({dados[s].cliente}, {})
    BY <1>3 DEF SessoesCarregam, Carrega, ComCliente, DeleteClienteApagar
  <2>2. {dados[s].cliente} \in SUBSET Clientes /\ {} \in SUBSET Veiculos
    BY <2>1
  <2>3. QED
    BY <2>1, <2>2 DEF Escrita
<1>4. ASSUME NEW s \in Sessoes, NEW p \in Placas, NEW c \in Clientes, CreateVeiculo(s, p, c)
      PROVE  Escrita
  BY <1>4 DEF CreateVeiculo, Escrita, NovoVeiculo, Existentes
<1>5. ASSUME NEW s \in Sessoes, UpdateVeiculoGravar(s)
      PROVE  Escrita
  <2>1. dados[s].veiculo \in Veiculos /\ dados[s].modelo \in Texto
    BY <1>5 DEF SessoesCarregam, Carrega, ComVeiculo, UpdateVeiculoGravar
  <2>2. AlteraVeiculo(dados[s].veiculo, dados[s].modelo)
    BY <1>5 DEF UpdateVeiculoGravar, AlteraVeiculo
  <2>3. QED
    BY <2>1, <2>2 DEF Escrita
<1>6. ASSUME NEW s \in Sessoes, DeleteVeiculoApagar(s)
      PROVE  Escrita
  <2>1. dados[s].veiculo \in Veiculos /\ Apaga({}, {dados[s].veiculo})
    BY <1>6 DEF SessoesCarregam, Carrega, ComVeiculo, DeleteVeiculoApagar
  <2>2. {} \in SUBSET Clientes /\ {dados[s].veiculo} \in SUBSET Veiculos
    BY <2>1
  <2>3. QED
    BY <2>1, <2>2 DEF Escrita
<1>7. ASSUME NEW s \in Sessoes, NEW x \in Servicos,
             CreateServico(s, x) \/ DeleteServico(s, x)
      PROVE  Escrita
  BY <1>7 DEF CreateServico, DeleteServico, Escrita, NovoServico, ApagaServico
<1>8. ASSUME NEW s \in Sessoes, CriarCliente(s)
      PROVE  Escrita
  <2>1. dados[s].ficha \in Fichas
    BY <1>8 DEF SessoesCarregam, Carrega, CriarCliente
  <2>2. PICK c \in Clientes : NovoCliente(c, dados[s].ficha)
    BY <1>8 DEF CriarCliente, Falha, NovoCliente
  <2>3. QED
    BY <2>1, <2>2 DEF Escrita
<1>9. ASSUME NEW s \in Sessoes, CriarVeiculo(s)
      PROVE  Escrita
  <2>1. /\ dados[s].placa \in Placas
        /\ dados[s].cliente \in Clientes /\ clientes[dados[s].cliente].st # "novo"
    BY <1>9 DEF SessoesCarregam, Carrega, ComCliente, ComPlaca, CriarVeiculo
  <2>2. PICK v \in Veiculos : NovoVeiculo(v, dados[s].placa, dados[s].cliente)
    BY <1>9, <2>1, Linhas DEF CriarVeiculo, Falha, NovoVeiculo, Situacao
  <2>3. QED
    BY <2>1, <2>2 DEF Escrita
<1>10. ASSUME NEW s \in Sessoes, CriarOrdem(s)
      PROVE  Escrita
  <2>1. /\ dados[s].cliente \in Clientes /\ clientes[dados[s].cliente].st # "novo"
        /\ dados[s].veiculo \in Veiculos /\ veiculos[dados[s].veiculo].st # "novo"
    BY <1>10 DEF SessoesCarregam, Carrega, ComCliente, ComVeiculo, CriarOrdem
  <2>2. PICK o \in Ordens : NovaOrdem(o, dados[s].cliente, dados[s].veiculo)
    BY <1>10, <2>1, Linhas DEF CriarOrdem, Falha, NovaOrdem, Situacao
  <2>3. QED
    BY <2>1, <2>2 DEF Escrita
<1>11. ASSUME NEW s \in Sessoes, VincularServicos(s)
      PROVE  Escrita
  <2>1. dados[s].ordem \in Ordens /\ ordens[dados[s].ordem].st # "novo"
    BY <1>11 DEF SessoesCarregam, Carrega, VincularServicos
  <2>2. Vincula(dados[s].ordem, dados[s].servicos)
    BY <1>11, <2>1, Linhas DEF VincularServicos, Falha, Vincula, Situacao, VinculosProprios
  <2>3. dados[s].servicos \in SUBSET Servicos
    BY DEF TipoSessao, Dados
  <2>4. QED
    BY <2>1, <2>2, <2>3 DEF Escrita
<1>12. ASSUME NEW s \in Sessoes, NEW o \in Ordens, DeletarOrdem(s, o)
      PROVE  Escrita
  BY <1>12 DEF DeletarOrdem, Escrita, ApagaOrdem
<1>13. ASSUME NEW s \in Sessoes,
              \/ \E c \in Clientes : \/ \E m \in Alteracoes : UpdateCliente(s, c, m)
                                     \/ DeleteCliente(s, c)
              \/ \E v \in Veiculos : \/ \E m \in Texto : UpdateVeiculo(s, v, m)
                                     \/ DeleteVeiculo(s, v)
              \/ \E f \in Fichas, p \in Placas, l \in SUBSET Servicos :
                   BuscarCliente(s, f, p, l)
              \/ BuscarVeiculo(s) \/ LerServico(s) \/ Interromper(s)
      PROVE  Escrita
  BY <1>13 DEF UpdateCliente, DeleteCliente, FindCliente, UpdateVeiculo, DeleteVeiculo,
     FindVeiculo, BuscarCliente, BuscarVeiculo, LerServico, Interromper
<1>14. QED
  BY <1>1, <1>2, <1>3, <1>4, <1>5, <1>6, <1>7, <1>8, <1>9, <1>10, <1>11, <1>12, <1>13
     DEF Next, ClienteController, VeiculoController, ServicoController, OrdemController,
     Avancar

-----------------------------------------------------------------------------
(* What writes do to the rows.                                             *)

\* A row that was there does not come back once removed, and keeps its document
\* or plate while it is.
Evolui ==
  /\ \A c \in Clientes : clientes[c].st # "novo" =>
       /\ clientes'[c].st # "novo"
       /\ clientes'[c].st = "presente" =>
            clientes[c].st = "presente" /\ clientes'[c].documento = clientes[c].documento
  /\ \A v \in Veiculos : veiculos[v].st # "novo" =>
       /\ veiculos'[v].st # "novo"
       /\ veiculos'[v].st = "presente" =>
            veiculos[v].st = "presente" /\ veiculos'[v].placa = veiculos[v].placa
  /\ \A o \in Ordens : ordens[o].st # "novo" => ordens'[o].st # "novo"

\* The rows of a cascade: untouched, or removed.
LEMMA Cascata ==
  ASSUME TipoBanco, NEW C \in SUBSET Clientes, NEW V \in SUBSET Veiculos, Apaga(C, V)
  PROVE  /\ \A c \in Clientes :
              \/ clientes'[c].st = "removido"
              \/ clientes'[c] = clientes[c] /\ c \notin C
         /\ \A v \in Veiculos :
              \/ veiculos'[v].st = "removido"
                   /\ (v \in V \/ (veiculos[v].st = "presente" /\ veiculos[v].dono \in C))
              \/ /\ veiculos'[v] = veiculos[v] /\ v \notin V
                 /\ veiculos[v].st = "presente" => veiculos[v].dono \notin C
         /\ \A o \in Ordens :
              \/ ordens'[o].st = "removido" /\ ordens'[o].servicos = {}
                   /\ \/ ordens[o].cliente \in C
                      \/ ordens[o].veiculo \in Veiculos
                           /\ veiculos'[ordens[o].veiculo].st = "removido"
              \/ /\ ordens'[o] = ordens[o] /\ ordens[o].cliente \notin C
                 /\ ordens[o].veiculo \in Veiculos =>
                      veiculos'[ordens[o].veiculo] = veiculos[ordens[o].veiculo]
         /\ \A c \in Clientes \ C : clientes'[c] = clientes[c]
         /\ \A c \in C : clientes'[c].st = "removido"
<1> DEFINE frota == V \cup {v \in Existentes(veiculos) : veiculos[v].dono \in C}
<1>1. /\ [SemCliente EXCEPT !.st = "removido"].st = "removido"
      /\ [SemVeiculo EXCEPT !.st = "removido"].st = "removido"
      /\ [SemOrdem EXCEPT !.st = "removido"].st = "removido"
      /\ [SemOrdem EXCEPT !.st = "removido"].servicos = {}
  BY DEF SemCliente, SemVeiculo, SemOrdem
<1>2. /\ \A c \in C : clientes'[c].st = "removido"
      /\ \A c \in Clientes \ C : clientes'[c] = clientes[c]
  BY <1>1 DEF Apaga
<1>3. /\ frota \subseteq Veiculos
      /\ \A v \in frota : veiculos'[v].st = "removido"
      /\ \A v \in Veiculos \ frota : veiculos'[v] = veiculos[v]
  BY <1>1 DEF Apaga, Existentes, TipoBanco
<1>4. \A v \in Veiculos : v \in frota <=>
         v \in V \/ (veiculos[v].st = "presente" /\ veiculos[v].dono \in C)
  BY DEF Existentes, TipoBanco
<1>5. \A o \in Ordens :
        \/ /\ ordens'[o].st = "removido" /\ ordens'[o].servicos = {}
           /\ ordens[o].cliente \in C \/ ordens[o].veiculo \in frota
        \/ /\ ordens'[o] = ordens[o]
           /\ ordens[o].cliente \notin C /\ ordens[o].veiculo \notin frota
  BY <1>1 DEF Apaga, ApagaOrdens
<1> HIDE DEF frota
<1>6. QED
  BY <1>2, <1>3, <1>4, <1>5

LEMMA EvoluiPorEscrita ==
  ASSUME TipoBanco, Escrita
  PROVE  Evolui
<1> USE DEF Evolui
<1>1. CASE UNCHANGED cadastro
  BY <1>1 DEF cadastro
<1>2. ASSUME NEW c \in Clientes, NEW f \in Fichas, NovoCliente(c, f)
      PROVE  Evolui
  BY <1>2 DEF NovoCliente, InsereCliente, TipoBanco
<1>3. ASSUME NEW c \in Clientes, NEW nome \in Texto, NEW email \in Emails,
             AlteraCliente(c, nome, email)
      PROVE  Evolui
  BY <1>3 DEF AlteraCliente, TipoBanco, LinhasCliente
<1>4. ASSUME NEW C \in SUBSET Clientes, NEW V \in SUBSET Veiculos, Apaga(C, V)
      PROVE  Evolui
  BY <1>4, Cascata
<1>5. ASSUME NEW v \in Veiculos, NEW p \in Placas, NEW c \in Clientes, NovoVeiculo(v, p, c)
      PROVE  Evolui
  BY <1>5 DEF NovoVeiculo, InsereVeiculo, TipoBanco
<1>6. ASSUME NEW v \in Veiculos, NEW modelo \in Texto, AlteraVeiculo(v, modelo)
      PROVE  Evolui
  BY <1>6 DEF AlteraVeiculo, TipoBanco, LinhasVeiculo
<1>7. ASSUME NEW x \in Servicos, NovoServico(x) \/ ApagaServico(x)
      PROVE  Evolui
  BY <1>7 DEF NovoServico, ApagaServico
<1>8. ASSUME NEW o \in Ordens, NEW c \in Clientes, NEW v \in Veiculos, NovaOrdem(o, c, v)
      PROVE  Evolui
  BY <1>8 DEF NovaOrdem, TipoBanco
<1>9. ASSUME NEW o \in Ordens, NEW l \in SUBSET Servicos, Vincula(o, l)
      PROVE  Evolui
  BY <1>9 DEF Vincula, TipoBanco, LinhasOrdem, SemOrdem
<1>10. ASSUME NEW o \in Ordens, ApagaOrdem(o)
      PROVE  Evolui
  BY <1>10 DEF ApagaOrdem, TipoBanco, SemOrdem
<1>11. QED
  BY <1>1, <1>2, <1>3, <1>4, <1>5, <1>6, <1>7, <1>8, <1>9, <1>10 DEF Escrita

\* Every write keeps the columns within their types.
LEMMA TipoPorEscrita ==
  ASSUME TipoBanco, Escrita
  PROVE  TipoBanco'
<1> USE DEF TipoBanco
<1>1. CASE UNCHANGED cadastro
  BY <1>1 DEF cadastro
<1>2. ASSUME NEW c \in Clientes, NEW f \in Fichas, NovoCliente(c, f)
      PROVE  TipoBanco'
  BY <1>2, Parametros DEF NovoCliente, InsereCliente, LinhasCliente, CriarVo, Documentos,
     Emails, Grafia, Texto
<1>3. ASSUME NEW c \in Clientes, NEW nome \in Texto, NEW email \in Emails,
             AlteraCliente(c, nome, email)
      PROVE  TipoBanco'
  <2> DEFINE linha == [clientes[c] EXCEPT !.nome = nome, !.email = email]
             Presentes == [st : {"presente"}, documento : Documentos, email : Emails, nome : Texto]
  <2>1. clientes[c] \in Presentes
    BY <1>3 DEF AlteraCliente, LinhasCliente, SemCliente
  <2>2. linha \in Presentes
    <3> HIDE DEF TipoBanco
    <3> QED
      BY <2>1
  <2>3. clientes' = [clientes EXCEPT ![c] = linha]
    BY <1>3, <2>1 DEF AlteraCliente
  <2>4. QED
    BY <1>3, <2>2, <2>3 DEF AlteraCliente, LinhasCliente
<1>4. ASSUME NEW C \in SUBSET Clientes, NEW V \in SUBSET Veiculos, Apaga(C, V)
      PROVE  TipoBanco'
  BY <1>4 DEF Apaga, ApagaOrdens, LinhasCliente, LinhasVeiculo, LinhasOrdem
<1>5. ASSUME NEW v \in Veiculos, NEW p \in Placas, NEW c \in Clientes, NovoVeiculo(v, p, c)
      PROVE  TipoBanco'
  BY <1>5, Parametros DEF NovoVeiculo, InsereVeiculo, LinhasVeiculo, CriarVo, TodasPlacas,
     Grafia, Texto
<1>6. ASSUME NEW v \in Veiculos, NEW modelo \in Texto, AlteraVeiculo(v, modelo)
      PROVE  TipoBanco'
  <2>1. [veiculos[v] EXCEPT !.modelo = modelo] \in LinhasVeiculo
    BY <1>6 DEF AlteraVeiculo, LinhasVeiculo, SemVeiculo
  <2>2. QED
    BY <1>6, <2>1 DEF AlteraVeiculo
<1>7. ASSUME NEW x \in Servicos, NovoServico(x) \/ ApagaServico(x)
      PROVE  TipoBanco'
  BY <1>7 DEF NovoServico, ApagaServico
<1>8. ASSUME NEW o \in Ordens, NEW c \in Clientes, NEW v \in Veiculos, NovaOrdem(o, c, v)
      PROVE  TipoBanco'
  BY <1>8 DEF NovaOrdem, LinhasOrdem
<1>9. ASSUME NEW o \in Ordens, NEW l \in SUBSET Servicos, Vincula(o, l)
      PROVE  TipoBanco'
  <2>1. [ordens[o] EXCEPT !.servicos = l] \in LinhasOrdem
    BY <1>9 DEF Vincula, LinhasOrdem, SemOrdem
  <2>2. QED
    BY <1>9, <2>1 DEF Vincula
<1>10. ASSUME NEW o \in Ordens, ApagaOrdem(o)
      PROVE  TipoBanco'
  BY <1>10 DEF ApagaOrdem, LinhasOrdem
<1>11. QED
  BY <1>1, <1>2, <1>3, <1>4, <1>5, <1>6, <1>7, <1>8, <1>9, <1>10 DEF Escrita

-----------------------------------------------------------------------------
(* How sessions move.                                                      *)

\* A session goes to a call whose data it carries, once the rows are written.
Movimento ==
  \E s \in Sessoes, r \in {"livre"} \cup Chamadas, d \in Dados :
    Chama(s, r, d) /\ Carrega(r, d, clientes', veiculos', ordens')

\* What a session carries stays true of the rows as others write them.
LEMMA CarregaDepois ==
  ASSUME Evolui, NEW r, NEW d, Carrega(r, d, clientes, veiculos, ordens)
  PROVE  Carrega(r, d, clientes', veiculos', ordens')
BY DEF Evolui, Carrega

\* An idle session carries nothing.
LEMMA VazioTipo ==
  Vazio \in Dados /\ Carrega("livre", Vazio, clientes', veiculos', ordens')
BY DEF Vazio, Dados, Carrega, ComCliente, ComVeiculo, ComPlaca

LEMMA TerminaMove ==
  ASSUME NEW s \in Sessoes, Termina(s)
  PROVE  Movimento
BY VazioTipo DEF Termina, Movimento

\* The loop over the services of an order goes on with the data it has.
LEMMA ProximoServicoMove ==
  ASSUME NEW s \in Sessoes, NEW d \in Dados, ProximoServico(s, d),
         Carrega("os_criar", d, clientes', veiculos', ordens')
  PROVE  Movimento
<1> DEFINE r == IF d.fila = {} THEN "os_criar" ELSE "os_servico"
           e == [d EXCEPT !.placa = Nada]
<1>1. r \in {"livre"} \cup Chamadas /\ e \in Dados
  BY DEF Chamadas, Dados
<1>2. Carrega(r, e, clientes', veiculos', ordens')
  BY DEF Carrega, ComCliente, ComVeiculo, ComPlaca, Dados
<1>3. Chama(s, r, e)
  BY DEF ProximoServico
<1>4. QED
  BY <1>1, <1>2, <1>3 DEF Movimento

\* A request that starts with a look at a customer or a vehicle.
LEMMA FindClienteMove ==
  ASSUME NEW s \in Sessoes, NEW c \in Clientes, NEW r \in {"cliente_gravar", "cliente_apagar"},
         NEW d \in Dados, FindCliente(s, c, r, d), d.alteracao \in Alteracoes \/ r = "cliente_apagar"
  PROVE  Movimento
<1>1. [d EXCEPT !.cliente = c] \in Dados /\ r \in {"livre"} \cup Chamadas
  BY DEF Dados, Chamadas
<1>2. Carrega(r, [d EXCEPT !.cliente = c], clientes', veiculos', ordens')
  BY DEF Carrega, ComVeiculo, ComPlaca, Dados, FindCliente, Existentes, cadastro
<1>3. QED
  BY <1>1, <1>2 DEF Movimento, FindCliente

LEMMA FindVeiculoMove ==
  ASSUME NEW s \in Sessoes, NEW v \in Veiculos, NEW r \in {"veiculo_gravar", "veiculo_apagar"},
         NEW d \in Dados, FindVeiculo(s, v, r, d), d.modelo \in Texto \/ r = "veiculo_apagar"
  PROVE  Movimento
<1>1. [d EXCEPT !.veiculo = v] \in Dados /\ r \in {"livre"} \cup Chamadas
  BY DEF Dados, Chamadas
<1>2. Carrega(r, [d EXCEPT !.veiculo = v], clientes', veiculos', ordens')
  BY DEF Carrega, ComCliente, ComPlaca, Dados, FindVeiculo, Existentes, cadastro
<1>3. QED
  BY <1>1, <1>2 DEF Movimento, FindVeiculo

\* Whatever a step does to the sessions, it leaves them alone or is a move.
LEMMA Movimentos ==
  ASSUME TypeOK, SessoesCarregam, Evolui, Next
  PROVE  UNCHANGED <<pc, dados>> \/ Movimento
<1> USE DEF TypeOK
<1>1. ASSUME NEW s \in Sessoes,
             \/ \E f \in Fichas : CreateCliente(s, f)
             \/ \E p \in Placas, c \in Clientes : CreateVeiculo(s, p, c)
             \/ \E x \in Servicos : CreateServico(s, x) \/ DeleteServico(s, x)
             \/ \E o \in Ordens : DeletarOrdem(s, o)
      PROVE  UNCHANGED <<pc, dados>>
  BY <1>1 DEF CreateCliente, CreateVeiculo, CreateServico, DeleteServico, DeletarOrdem, DeUmaVez
<1>2. ASSUME NEW s \in Sessoes,
             UpdateClienteGravar(s) \/ DeleteClienteApagar(s) \/ UpdateVeiculoGravar(s)
               \/ DeleteVeiculoApagar(s) \/ VincularServicos(s) \/ Interromper(s)
      PROVE  Movimento
  BY <1>2, TerminaMove DEF UpdateClienteGravar, DeleteClienteApagar, UpdateVeiculoGravar,
     DeleteVeiculoApagar, VincularServicos, Interromper, Falha
<1>3. ASSUME NEW s \in Sessoes, NEW c \in Clientes,
             (\E m \in Alteracoes : UpdateCliente(s, c, m)) \/ DeleteCliente(s, c)
      PROVE  Movimento
  <2>1. ASSUME NEW m \in Alteracoes, UpdateCliente(s, c, m)
        PROVE  Movimento
    <3>1. [Vazio EXCEPT !.alteracao = m] \in Dados /\ [Vazio EXCEPT !.alteracao = m].alteracao = m
      BY DEF Vazio, Dados
    <3>2. QED
      BY <2>1, <3>1, FindClienteMove DEF UpdateCliente
  <2>2. CASE DeleteCliente(s, c)
    BY <2>2, VazioTipo, FindClienteMove DEF DeleteCliente
  <2>3. QED
    BY <1>3, <2>1, <2>2
<1>4. ASSUME NEW s \in Sessoes, NEW v \in Veiculos,
             (\E m \in Texto : UpdateVeiculo(s, v, m)) \/ DeleteVeiculo(s, v)
      PROVE  Movimento
  <2>1. ASSUME NEW m \in Texto, UpdateVeiculo(s, v, m)
        PROVE  Movimento
    <3>1. [Vazio EXCEPT !.modelo = m] \in Dados /\ [Vazio EXCEPT !.modelo = m].modelo = m
      BY DEF Vazio, Dados
    <3>2. QED
      BY <2>1, <3>1, FindVeiculoMove DEF UpdateVeiculo
  <2>2. CASE DeleteVeiculo(s, v)
    BY <2>2, VazioTipo, FindVeiculoMove DEF DeleteVeiculo
  <2>3. QED
    BY <1>4, <2>1, <2>2
<1>5. ASSUME NEW s \in Sessoes, NEW f \in Fichas, NEW p \in Placas,
             NEW l \in SUBSET Servicos, BuscarCliente(s, f, p, l)
      PROVE  Movimento
  <2> DEFINE achados == {c \in Existentes(clientes) : clientes[c].documento = f.documento}
             d == [Vazio EXCEPT !.placa = p, !.servicos = l, !.fila = l]
  <2>1. d \in Dados /\ d.placa = p
    BY DEF Vazio, Dados
  <2>2. CASE achados = {}
    <3> DEFINE e == [d EXCEPT !.ficha = f, !.vistos = Existentes(clientes)]
    <3>1. e \in Dados /\ "os_criar_cliente" \in {"livre"} \cup Chamadas
      BY <2>1 DEF Dados, Chamadas, Existentes, TipoBanco
    <3>2. e.placa = p /\ e.ficha = f /\ e.vistos = Existentes(clientes)
      BY <2>1 DEF Dados
    <3>3. UNCHANGED <<clientes, veiculos, ordens>> /\ Chama(s, "os_criar_cliente", e)
      BY <1>5, <2>2 DEF BuscarCliente, cadastro
    <3>4. Carrega("os_criar_cliente", e, clientes', veiculos', ordens')
      BY <2>2, <3>2, <3>3 DEF Carrega, ComCliente, ComVeiculo, Existentes, TipoBanco
    <3>5. QED
      BY <3>1, <3>3, <3>4 DEF Movimento
  <2>3. ASSUME NEW c \in achados, Chama(s, "os_buscar_veiculo", [d EXCEPT !.cliente = c])
        PROVE  Movimento
    <3> DEFINE e == [d EXCEPT !.cliente = c]
    <3>1. c \in Clientes /\ clientes[c].st = "presente"
      BY DEF Existentes, TipoBanco
    <3>2. e \in Dados /\ e.placa = p /\ e.cliente = c
      BY <2>1, <3>1 DEF Dados
    <3>3. Carrega("os_buscar_veiculo", e, clientes', veiculos', ordens')
      BY <1>5, <3>1, <3>2 DEF BuscarCliente, cadastro, Carrega, ComVeiculo
    <3>4. QED
      BY <2>3, <3>2, <3>3 DEF Movimento, Chamadas
  <2>4. QED
    BY <1>5, <2>2, <2>3, TerminaMove DEF BuscarCliente
<1>6. ASSUME NEW s \in Sessoes, CriarCliente(s)
      PROVE  Movimento
  <2>1. ASSUME NEW c \in Clientes, InsereCliente(c, dados[s].ficha),
               Chama(s, "os_buscar_veiculo",
                     [dados[s] EXCEPT !.cliente = c, !.ficha = Nada, !.vistos = {}])
        PROVE  Movimento
    <3> DEFINE e == [dados[s] EXCEPT !.cliente = c, !.ficha = Nada, !.vistos = {}]
    <3>1. dados[s].placa \in Placas /\ dados[s] \in Dados
      BY <1>6 DEF CriarCliente, SessoesCarregam, Carrega, ComPlaca, TipoSessao
    <3>2. e \in Dados /\ e.placa = dados[s].placa /\ e.cliente = c
      BY <3>1 DEF Dados
    <3>3. clientes'[c].st = "presente"
      BY <2>1 DEF InsereCliente, TipoBanco
    <3>4. Carrega("os_buscar_veiculo", e, clientes', veiculos', ordens')
      BY <3>1, <3>2, <3>3 DEF Carrega, ComVeiculo
    <3>5. QED
      BY <2>1, <3>2, <3>4 DEF Movimento, Chamadas
  <2>2. QED
    BY <1>6, <2>1, TerminaMove DEF CriarCliente, Falha
<1>7. ASSUME NEW s \in Sessoes, BuscarVeiculo(s)
      PROVE  Movimento
  <2> DEFINE achados == {v \in Existentes(veiculos) : veiculos[v].placa = dados[s].placa}
  <2>1. /\ dados[s] \in Dados /\ dados[s].placa \in Placas
        /\ dados[s].cliente \in Clientes /\ clientes[dados[s].cliente].st # "novo"
    BY <1>7 DEF BuscarVeiculo, SessoesCarregam, Carrega, ComPlaca, ComCliente, TipoSessao
  <2>2. CASE achados = {}
    <3> DEFINE e == [dados[s] EXCEPT !.vistos = Existentes(veiculos)]
    <3>1. e \in Dados /\ e.placa = dados[s].placa /\ e.cliente = dados[s].cliente
          /\ e.vistos = Existentes(veiculos)
      BY <2>1 DEF Dados, Existentes, TipoBanco
    <3>2. UNCHANGED <<clientes, veiculos, ordens>> /\ Chama(s, "os_criar_veiculo", e)
      BY <1>7, <2>2 DEF BuscarVeiculo, cadastro
    <3>3. Carrega("os_criar_veiculo", e, clientes', veiculos', ordens')
      BY <2>1, <2>2, <3>1, <3>2 DEF Carrega, ComVeiculo, Existentes, TipoBanco
    <3>4. QED
      BY <3>1, <3>2, <3>3 DEF Movimento, Chamadas
  <2>3. ASSUME NEW v \in achados, ProximoServico(s, [dados[s] EXCEPT !.veiculo = v])
        PROVE  Movimento
    <3> DEFINE e == [dados[s] EXCEPT !.veiculo = v]
    <3>1. v \in Veiculos /\ veiculos[v].st = "presente"
      BY DEF Existentes, TipoBanco
    <3>2. e \in Dados /\ e.veiculo = v /\ e.cliente = dados[s].cliente
      BY <2>1, <3>1 DEF Dados
    <3>3. Carrega("os_criar", e, clientes', veiculos', ordens')
      BY <1>7, <2>1, <3>1, <3>2 DEF BuscarVeiculo, cadastro, Carrega, ComPlaca
    <3>4. QED
      BY <2>3, <3>2, <3>3, ProximoServicoMove
  <2>4. QED
    BY <1>7, <2>2, <2>3, TerminaMove DEF BuscarVeiculo
<1>8. ASSUME NEW s \in Sessoes, CriarVeiculo(s)
      PROVE  Movimento
  <2>1. ASSUME NEW v \in Veiculos, InsereVeiculo(v, dados[s].placa, dados[s].cliente),
               ProximoServico(s, [dados[s] EXCEPT !.veiculo = v, !.vistos = {}])
        PROVE  Movimento
    <3> DEFINE e == [dados[s] EXCEPT !.veiculo = v, !.vistos = {}]
    <3>1. /\ dados[s] \in Dados
          /\ dados[s].cliente \in Clientes /\ clientes[dados[s].cliente].st # "novo"
      BY <1>8 DEF CriarVeiculo, SessoesCarregam, Carrega, ComCliente, TipoSessao
    <3>2. e \in Dados /\ e.veiculo = v /\ e.cliente = dados[s].cliente
      BY <3>1 DEF Dados
    <3>3. veiculos'[v].st = "presente" /\ clientes' = clientes
      BY <2>1 DEF InsereVeiculo, TipoBanco
    <3>4. Carrega("os_criar", e, clientes', veiculos', ordens')
      BY <3>1, <3>2, <3>3 DEF Carrega, ComPlaca
    <3>5. QED
      BY <2>1, <3>2, <3>4, ProximoServicoMove
  <2>2. QED
    BY <1>8, <2>1, TerminaMove DEF CriarVeiculo, Falha
<1>9. ASSUME NEW s \in Sessoes, LerServico(s)
      PROVE  Movimento
  <2>1. ASSUME NEW x \in dados[s].fila,
               ProximoServico(s, [dados[s] EXCEPT !.fila = @ \ {x}])
        PROVE  Movimento
    <3> DEFINE e == [dados[s] EXCEPT !.fila = @ \ {x}]
    <3>1. /\ dados[s] \in Dados
          /\ dados[s].cliente \in Clientes /\ clientes[dados[s].cliente].st # "novo"
          /\ dados[s].veiculo \in Veiculos /\ veiculos[dados[s].veiculo].st # "novo"
      BY <1>9 DEF LerServico, SessoesCarregam, Carrega, ComCliente, ComVeiculo, TipoSessao
    <3>2. e \in Dados /\ e.veiculo = dados[s].veiculo /\ e.cliente = dados[s].cliente
      BY <3>1 DEF Dados
    <3>3. Carrega("os_criar", e, clientes', veiculos', ordens')
      BY <1>9, <3>1, <3>2 DEF LerServico, cadastro, Carrega, ComPlaca
    <3>4. QED
      BY <2>1, <3>2, <3>3, ProximoServicoMove
  <2>2. QED
    BY <1>9, <2>1, TerminaMove DEF LerServico
<1>10. ASSUME NEW s \in Sessoes, CriarOrdem(s)
      PROVE  Movimento
  <2>1. /\ dados[s] \in Dados
        /\ dados[s].cliente \in Clientes /\ clientes[dados[s].cliente].st # "novo"
        /\ dados[s].veiculo \in Veiculos /\ veiculos[dados[s].veiculo].st # "novo"
    BY <1>10 DEF CriarOrdem, SessoesCarregam, Carrega, ComCliente, ComVeiculo, TipoSessao
  <2>2. ASSUME NEW o \in Ordens, Chama(s, "os_vincular", [dados[s] EXCEPT !.ordem = o]),
               ordens' = [ordens EXCEPT ![o] = [st |-> "presente", cliente |-> dados[s].cliente,
                                        veiculo |-> dados[s].veiculo, servicos |-> {}]],
               UNCHANGED <<clientes, veiculos, servicos>>
        PROVE  Movimento
    <3> DEFINE e == [dados[s] EXCEPT !.ordem = o]
    <3>1. e \in Dados /\ e.veiculo = dados[s].veiculo /\ e.cliente = dados[s].cliente
          /\ e.ordem = o
      BY <2>1 DEF Dados
    <3>2. ordens'[o].st = "presente"
      BY <2>2 DEF TipoBanco
    <3>3. Carrega("os_vincular", e, clientes', veiculos', ordens')
      BY <2>1, <2>2, <3>1, <3>2 DEF Carrega, ComPlaca
    <3>4. QED
      BY <2>2, <3>1, <3>3 DEF Movimento, Chamadas
  <2>3. QED
    BY <1>10, <2>2, TerminaMove DEF CriarOrdem, Falha
<1>11. QED
  BY <1>1, <1>2, <1>3, <1>4, <1>5, <1>6, <1>7, <1>8, <1>9, <1>10
     DEF Next, ClienteController, VeiculoController, ServicoController, OrdemController,
     Avancar

\* A move keeps the sessions well typed.
LEMMA TipoPorMovimento ==
  ASSUME TipoSessao, Movimento
  PROVE  TipoSessao'
BY DEF TipoSessao, Movimento, Chama

\* A step keeps every session supplied with what its next call takes.
LEMMA CarregaPorMovimento ==
  ASSUME TipoSessao, SessoesCarregam, Evolui, UNCHANGED <<pc, dados>> \/ Movimento
  PROVE  SessoesCarregam'
<1>1. \A s \in Sessoes : Carrega(pc[s], dados[s], clientes', veiculos', ordens')
  BY CarregaDepois DEF SessoesCarregam
<1>2. CASE UNCHANGED <<pc, dados>>
  BY <1>1, <1>2 DEF SessoesCarregam
<1>3. ASSUME NEW s \in Sessoes, NEW r \in {"livre"} \cup Chamadas, NEW d \in Dados,
             Chama(s, r, d), Carrega(r, d, clientes', veiculos', ordens')
      PROVE  SessoesCarregam'
  <2> SUFFICES ASSUME NEW t \in Sessoes
               PROVE  Carrega(pc'[t], dados'[t], clientes', veiculos', ordens')
    BY DEF SessoesCarregam
  <2>1. CASE t = s
    BY <1>3, <2>1 DEF Chama, TipoSessao
  <2>2. CASE t # s
    BY <1>1, <1>3, <2>2 DEF Chama, TipoSessao
  <2>3. QED
    BY <2>1, <2>2
<1>4. QED
  BY <1>2, <1>3 DEF Movimento

-----------------------------------------------------------------------------
(* One row for a person, one for a vehicle.                                *)

\* Two values in the stored form are the same if they identify the same.
LEMMA CanonicaIgual ==
  /\ \A d, e \in Documentos :
       d.grafia = "canonica" /\ CriarVo(e) # d => d.numero # e.numero
  /\ \A p, q \in TodasPlacas :
       p.grafia = "canonica" /\ CriarVo(q) # p => p.letras # q.letras
<1>1. ASSUME NEW d \in Documentos, NEW e \in Documentos, d.grafia = "canonica",
             d.numero = e.numero
      PROVE  CriarVo(e) = d
  BY <1>1 DEF Documentos, CriarVo
<1>2. ASSUME NEW p \in TodasPlacas, NEW q \in TodasPlacas, p.grafia = "canonica",
             p.letras = q.letras
      PROVE  CriarVo(q) = p
  BY <1>2 DEF TodasPlacas, CriarVo
<1>3. QED
  BY <1>1, <1>2

\* What CriarVo returns: the same identity in the stored form.
LEMMA CriarVoForma ==
  /\ \A d \in Documentos : CriarVo(d) \in Documentos /\ CriarVo(d).grafia = "canonica"
                           /\ CriarVo(d).numero = d.numero
  /\ \A p \in TodasPlacas : CriarVo(p) \in TodasPlacas /\ CriarVo(p).grafia = "canonica"
                            /\ CriarVo(p).letras = p.letras
BY DEF Documentos, TodasPlacas, CriarVo, Grafia

IdentidadeClientes ==
  \A c, d \in Clientes :
    clientes[c].st = "presente" /\ clientes[d].st = "presente" =>
      /\ clientes[c].documento.grafia = "canonica"
      /\ c # d => clientes[c].documento.numero # clientes[d].documento.numero
IdentidadeVeiculos ==
  \A v, w \in Veiculos :
    veiculos[v].st = "presente" /\ veiculos[w].st = "presente" =>
      /\ veiculos[v].placa.grafia = "canonica"
      /\ v # w => veiculos[v].placa.letras # veiculos[w].placa.letras

LEMMA IdentidadePorTabela ==
  ASSUME TipoBanco
  PROVE  IdentidadeUnica /\ FormaCanonica <=> IdentidadeClientes /\ IdentidadeVeiculos
BY DEF TipoBanco, IdentidadeUnica, FormaCanonica, IdentidadeClientes, IdentidadeVeiculos,
       Existentes

\* A table whose rows keep their document or plate, or go, keeps its identities.
LEMMA IdentidadeSemNovos ==
  ASSUME TipoBanco, Evolui
  PROVE  /\ IdentidadeClientes /\ (\A c \in Clientes : clientes[c].st = "novo" =>
                                     clientes'[c].st # "presente") => IdentidadeClientes'
         /\ IdentidadeVeiculos /\ (\A v \in Veiculos : veiculos[v].st = "novo" =>
                                     veiculos'[v].st # "presente") => IdentidadeVeiculos'
BY DEF Evolui, IdentidadeClientes, IdentidadeVeiculos

\* The unique keys compare what the creations normalise.
LEMMA IdentidadePorEscrita ==
  ASSUME TipoBanco, Evolui, Escrita, IdentidadeClientes, IdentidadeVeiculos
  PROVE  IdentidadeClientes' /\ IdentidadeVeiculos'
<1>1. ASSUME NEW c \in Clientes, NEW f \in Fichas, NovoCliente(c, f)
      PROVE  IdentidadeClientes' /\ IdentidadeVeiculos'
  <2> DEFINE doc == CriarVo(f.documento)
  <2>1. f.documento \in Documentos
    BY Parametros
  <2>2. \A d \in Clientes : clientes'[d].st = "presente" =>
          clientes'[d].documento = IF d = c THEN doc ELSE clientes[d].documento
    BY <1>1 DEF NovoCliente, InsereCliente, TipoBanco
  <2>3. \A d \in Clientes : clientes[d].st = "presente" =>
          clientes[d].documento # doc /\ clientes[d].documento \in Documentos
    BY <1>1, Linhas DEF NovoCliente, ClienteRepetido, Existentes, TipoBanco
  <2>4. \A d \in Clientes : clientes[d].st = "presente" =>
          clientes[d].documento.numero # doc.numero
    BY <2>1, <2>3, CanonicaIgual, CriarVoForma DEF IdentidadeClientes
  <2>5. \A d \in Clientes \ {c} : clientes'[d] = clientes[d]
    BY <1>1 DEF NovoCliente, InsereCliente, TipoBanco
  <2>6. IdentidadeClientes'
    BY <2>1, <2>2, <2>4, <2>5, CriarVoForma DEF IdentidadeClientes
  <2>7. UNCHANGED veiculos
    BY <1>1 DEF NovoCliente, InsereCliente
  <2>8. QED
    BY <2>6, <2>7 DEF IdentidadeVeiculos
<1>2. ASSUME NEW v \in Veiculos, NEW p \in Placas, NEW c \in Clientes, NovoVeiculo(v, p, c)
      PROVE  IdentidadeClientes' /\ IdentidadeVeiculos'
  <2> DEFINE placa == CriarVo(p)
  <2>1. p \in TodasPlacas
    BY Parametros
  <2>2. \A w \in Veiculos : veiculos'[w].st = "presente" =>
          veiculos'[w].placa = IF w = v THEN placa ELSE veiculos[w].placa
    BY <1>2 DEF NovoVeiculo, InsereVeiculo, TipoBanco
  <2>3. \A w \in Veiculos : veiculos[w].st = "presente" =>
          veiculos[w].placa # placa /\ veiculos[w].placa \in TodasPlacas
    BY <1>2, Linhas DEF NovoVeiculo, PlacaRepetida, Existentes, TipoBanco
  <2>4. \A w \in Veiculos : veiculos[w].st = "presente" =>
          veiculos[w].placa.letras # placa.letras
    BY <2>1, <2>3, CanonicaIgual, CriarVoForma DEF IdentidadeVeiculos
  <2>5. \A w \in Veiculos \ {v} : veiculos'[w] = veiculos[w]
    BY <1>2 DEF NovoVeiculo, InsereVeiculo, TipoBanco
  <2>6. IdentidadeVeiculos'
    BY <2>1, <2>2, <2>4, <2>5, CriarVoForma DEF IdentidadeVeiculos
  <2>7. UNCHANGED clientes
    BY <1>2 DEF NovoVeiculo, InsereVeiculo
  <2>8. QED
    BY <2>6, <2>7 DEF IdentidadeClientes
<1>3. ASSUME NEW c \in Clientes, NEW nome \in Texto, NEW email \in Emails,
             AlteraCliente(c, nome, email)
      PROVE  IdentidadeClientes' /\ IdentidadeVeiculos'
  <2>1. /\ \A d \in Clientes : clientes[d].st = "novo" => clientes'[d].st # "presente"
        /\ UNCHANGED veiculos
    BY <1>3 DEF AlteraCliente, TipoBanco
  <2>2. QED
    BY <2>1, IdentidadeSemNovos DEF IdentidadeVeiculos
<1>4. ASSUME NEW v \in Veiculos, NEW modelo \in Texto, AlteraVeiculo(v, modelo)
      PROVE  IdentidadeClientes' /\ IdentidadeVeiculos'
  <2>1. /\ \A w \in Veiculos : veiculos[w].st = "novo" => veiculos'[w].st # "presente"
        /\ UNCHANGED clientes
    BY <1>4 DEF AlteraVeiculo, TipoBanco
  <2>2. QED
    BY <2>1, IdentidadeSemNovos DEF IdentidadeClientes
<1>5. ASSUME NEW C \in SUBSET Clientes, NEW V \in SUBSET Veiculos, Apaga(C, V)
      PROVE  IdentidadeClientes' /\ IdentidadeVeiculos'
  <2>1. /\ \A d \in Clientes : clientes[d].st = "novo" => clientes'[d].st # "presente"
        /\ \A w \in Veiculos : veiculos[w].st = "novo" => veiculos'[w].st # "presente"
    BY <1>5, Cascata
  <2>2. QED
    BY <2>1, IdentidadeSemNovos
<1>6. ASSUME UNCHANGED <<clientes, veiculos>>
      PROVE  IdentidadeClientes' /\ IdentidadeVeiculos'
  BY <1>6 DEF IdentidadeClientes, IdentidadeVeiculos
<1>7. QED
  BY <1>1, <1>2, <1>3, <1>4, <1>5, <1>6
     DEF Escrita, cadastro, NovoServico, ApagaServico, NovaOrdem, Vincula, ApagaOrdem

-----------------------------------------------------------------------------
(* What an order refers to is there.                                       *)

\* OrdemIntegra, row by row.
OrdemLigada(o) ==
  ordens[o].st = "presente" =>
    /\ clientes[ordens[o].cliente].st = "presente"
    /\ veiculos[ordens[o].veiculo].st = "presente"
    /\ ordens[o].servicos \subseteq servicos
VeiculoLigado(v) ==
  veiculos[v].st = "presente" => clientes[veiculos[v].dono].st = "presente"

TudoLigado ==
  /\ \A o \in Ordens : OrdemLigada(o)
  /\ \A v \in Veiculos : VeiculoLigado(v)

LEMMA IntegraPorLinha ==
  ASSUME TipoBanco
  PROVE  OrdemIntegra <=> TudoLigado
<1>1. DOMAIN clientes = Clientes /\ DOMAIN veiculos = Veiculos /\ DOMAIN ordens = Ordens
  BY DEF TipoBanco
<1>2. QED
  BY <1>1, Linhas DEF OrdemIntegra, TudoLigado, OrdemLigada, VeiculoLigado, Existentes

LEMMA IntegraPorEscrita ==
  ASSUME TipoBanco, Evolui, Escrita, TudoLigado
  PROVE  TudoLigado'
<1> USE DEF TudoLigado, OrdemLigada, VeiculoLigado
<1>1. CASE UNCHANGED cadastro
  BY <1>1 DEF cadastro
<1>2. ASSUME NEW c \in Clientes, NEW f \in Fichas, NovoCliente(c, f)
      PROVE  TudoLigado'
  BY <1>2, Linhas DEF NovoCliente, InsereCliente, TipoBanco
<1>3. ASSUME NEW c \in Clientes, NEW nome \in Texto, NEW email \in Emails,
             AlteraCliente(c, nome, email)
      PROVE  TudoLigado'
  <2>1. \A d \in Clientes : clientes[d].st = "presente" => clientes'[d].st = "presente"
    BY <1>3 DEF AlteraCliente, TipoBanco, LinhasCliente
  <2>2. QED
    BY <1>3, <2>1, Linhas DEF AlteraCliente
<1>4. ASSUME NEW C \in SUBSET Clientes, NEW V \in SUBSET Veiculos, Apaga(C, V)
      PROVE  TudoLigado'
  <2>1. \A v \in Veiculos : veiculos'[v].st = "presente" =>
          veiculos'[v] = veiculos[v] /\ veiculos[v].dono \notin C
    BY <1>4, Cascata
  <2>2. \A o \in Ordens : ordens'[o].st = "presente" =>
          /\ ordens'[o] = ordens[o] /\ ordens[o].cliente \notin C
          /\ ordens[o].veiculo \in Veiculos => veiculos'[ordens[o].veiculo] = veiculos[ordens[o].veiculo]
    BY <1>4, Cascata
  <2>3. (\A c \in Clientes \ C : clientes'[c] = clientes[c]) /\ UNCHANGED servicos
    BY <1>4, Cascata DEF Apaga
  <2>4. \A v \in Veiculos : VeiculoLigado(v)'
    BY <2>1, <2>3, Linhas
  <2>5. \A o \in Ordens : OrdemLigada(o)'
    BY <2>2, <2>3, Linhas
  <2>6. QED
    BY <2>4, <2>5
<1>5. ASSUME NEW v \in Veiculos, NEW p \in Placas, NEW c \in Clientes, NovoVeiculo(v, p, c)
      PROVE  TudoLigado'
  BY <1>5, Linhas DEF NovoVeiculo, InsereVeiculo, TipoBanco
<1>6. ASSUME NEW v \in Veiculos, NEW modelo \in Texto, AlteraVeiculo(v, modelo)
      PROVE  TudoLigado'
  <2>1. \A w \in Veiculos : veiculos'[w].st = veiculos[w].st
                            /\ (veiculos[w].st = "presente" => veiculos'[w].dono = veiculos[w].dono)
    BY <1>6 DEF AlteraVeiculo, TipoBanco, LinhasVeiculo
  <2>2. QED
    BY <1>6, <2>1, Linhas DEF AlteraVeiculo
<1>7. ASSUME NEW x \in Servicos, NovoServico(x) \/ ApagaServico(x)
      PROVE  TudoLigado'
  BY <1>7 DEF NovoServico, ApagaServico
<1>8. ASSUME NEW o \in Ordens, NEW c \in Clientes, NEW v \in Veiculos, NovaOrdem(o, c, v)
      PROVE  TudoLigado'
  BY <1>8 DEF NovaOrdem, TipoBanco
<1>9. ASSUME NEW o \in Ordens, NEW l \in SUBSET Servicos, Vincula(o, l)
      PROVE  TudoLigado'
  <2>1. ordens[o] \in [st : {"presente"}, cliente : Clientes, veiculo : Veiculos,
                      servicos : SUBSET Servicos]
    <3>1. ordens[o] \in LinhasOrdem /\ ordens[o].st = "presente"
      BY <1>9 DEF Vincula, TipoBanco
    <3>2. [SemOrdem EXCEPT !.st = "removido"].st = "removido" /\ SemOrdem.st = "novo"
      BY DEF SemOrdem
    <3>3. QED
      BY <3>1, <3>2 DEF LinhasOrdem
  <2>2. /\ \A q \in Ordens \ {o} : ordens'[q] = ordens[q]
        /\ ordens'[o] = [ordens[o] EXCEPT !.servicos = l]
    BY <1>9 DEF Vincula, TipoBanco
  <2>3. /\ ordens'[o].st = ordens[o].st /\ ordens'[o].cliente = ordens[o].cliente
        /\ ordens'[o].veiculo = ordens[o].veiculo /\ ordens'[o].servicos = l
    BY <2>1, <2>2
  <2>4. QED
    BY <1>9, <2>2, <2>3 DEF Vincula
<1>10. ASSUME NEW o \in Ordens, ApagaOrdem(o)
      PROVE  TudoLigado'
  BY <1>10 DEF ApagaOrdem, TipoBanco, SemOrdem
<1>11. QED
  BY <1>1, <1>2, <1>3, <1>4, <1>5, <1>6, <1>7, <1>8, <1>9, <1>10 DEF Escrita

-----------------------------------------------------------------------------
(* Links of services to orders.                                            *)

\* A write other than the links leaves an order without services without them.
SemServicosFica ==
  \A o \in Ordens : ordens[o].servicos = {} => ordens'[o].servicos = {}

\* No session comes to the call that links.
NinguemVincula ==
  \A t \in Sessoes : pc'[t] = "os_vincular" => pc[t] = "os_vincular" /\ dados'[t] = dados[t]

LEMMA VinculosSemNovos ==
  ASSUME TypeOK, SessoesCarregam, VinculosProprios, SemServicosFica, NinguemVincula
  PROVE  VinculosProprios'
BY DEF TypeOK, VinculosProprios, SemServicosFica, NinguemVincula, SessoesCarregam, Carrega

LEMMA ChamaNaoVincula ==
  ASSUME TipoSessao, NEW s \in Sessoes, NEW r, NEW d, r # "os_vincular", Chama(s, r, d)
  PROVE  NinguemVincula
BY DEF TipoSessao, Chama, NinguemVincula

LEMMA TerminaNaoVincula ==
  ASSUME TipoSessao, NEW s \in Sessoes, Termina(s)
  PROVE  NinguemVincula
BY ChamaNaoVincula DEF Termina

LEMMA ProximoNaoVincula ==
  ASSUME TipoSessao, NEW s \in Sessoes, NEW d, ProximoServico(s, d)
  PROVE  NinguemVincula
BY ChamaNaoVincula DEF ProximoServico

\* Every step keeps the links of a session its own.
LEMMA VinculosPorPasso ==
  ASSUME TypeOK, SessoesCarregam, VinculosProprios, Next
  PROVE  VinculosProprios'
<1> USE DEF TypeOK
<1>1. ASSUME UNCHANGED ordens
      PROVE  SemServicosFica
  BY <1>1 DEF SemServicosFica
<1>2. ASSUME UNCHANGED <<pc, dados>>
      PROVE  NinguemVincula
  BY <1>2 DEF NinguemVincula
<1>3. ASSUME NEW s \in Sessoes,
             \/ \E f \in Fichas : CreateCliente(s, f)
             \/ \E p \in Placas, c \in Clientes : CreateVeiculo(s, p, c)
             \/ \E x \in Servicos : CreateServico(s, x) \/ DeleteServico(s, x)
      PROVE  VinculosProprios'
  BY <1>1, <1>2, <1>3, VinculosSemNovos DEF CreateCliente, CreateVeiculo, CreateServico,
     DeleteServico, DeUmaVez, InsereCliente, InsereVeiculo
<1>4. ASSUME NEW s \in Sessoes, NEW o \in Ordens, DeletarOrdem(s, o)
      PROVE  VinculosProprios'
  <2>1. SemServicosFica
    BY <1>4 DEF DeletarOrdem, SemServicosFica, SemOrdem, TipoBanco
  <2>2. QED
    BY <1>2, <1>4, <2>1, VinculosSemNovos DEF DeletarOrdem, DeUmaVez
<1>5. ASSUME NEW s \in Sessoes, DeleteClienteApagar(s) \/ DeleteVeiculoApagar(s)
      PROVE  VinculosProprios'
  <2>1. NinguemVincula
    BY <1>5, TerminaNaoVincula DEF DeleteClienteApagar, DeleteVeiculoApagar
  <2>2. \/ UNCHANGED ordens
        \/ \E C \in SUBSET Clientes, V \in SUBSET Veiculos : Apaga(C, V)
    <3>1. CASE DeleteClienteApagar(s)
      <4>1. dados[s].cliente \in Clientes
        BY <3>1 DEF DeleteClienteApagar, SessoesCarregam, Carrega, ComCliente
      <4>2. {dados[s].cliente} \in SUBSET Clientes /\ {} \in SUBSET Veiculos
        BY <4>1
      <4>3. QED
        BY <3>1, <4>2 DEF DeleteClienteApagar, cadastro
    <3>2. CASE DeleteVeiculoApagar(s)
      <4>1. dados[s].veiculo \in Veiculos
        BY <3>2 DEF DeleteVeiculoApagar, SessoesCarregam, Carrega, ComVeiculo
      <4>2. {} \in SUBSET Clientes /\ {dados[s].veiculo} \in SUBSET Veiculos
        BY <4>1
      <4>3. QED
        BY <3>2, <4>2 DEF DeleteVeiculoApagar, cadastro
    <3>3. QED
      BY <1>5, <3>1, <3>2
  <2>3. ASSUME NEW C \in SUBSET Clientes, NEW V \in SUBSET Veiculos, Apaga(C, V)
        PROVE  SemServicosFica
    BY <2>3, Cascata DEF SemServicosFica
  <2>4. QED
    BY <1>1, <2>1, <2>2, <2>3, VinculosSemNovos
<1>6. ASSUME NEW s \in Sessoes,
             UpdateClienteGravar(s) \/ UpdateVeiculoGravar(s) \/ Interromper(s)
      PROVE  VinculosProprios'
  BY <1>1, <1>6, TerminaNaoVincula, VinculosSemNovos
     DEF UpdateClienteGravar, UpdateVeiculoGravar, Interromper, cadastro
<1>7. ASSUME NEW s \in Sessoes,
             \/ \E c \in Clientes : \/ \E m \in Alteracoes : UpdateCliente(s, c, m)
                                    \/ DeleteCliente(s, c)
             \/ \E v \in Veiculos : \/ \E m \in Texto : UpdateVeiculo(s, v, m)
                                    \/ DeleteVeiculo(s, v)
      PROVE  VinculosProprios'
  BY <1>1, <1>7, ChamaNaoVincula, VinculosSemNovos DEF UpdateCliente, DeleteCliente,
     FindCliente, UpdateVeiculo, DeleteVeiculo, FindVeiculo, cadastro
<1>8. ASSUME NEW s \in Sessoes, NEW f \in Fichas, NEW p \in Placas,
             NEW l \in SUBSET Servicos, BuscarCliente(s, f, p, l)
      PROVE  VinculosProprios'
  <2>1. UNCHANGED ordens
    BY <1>8 DEF BuscarCliente, cadastro
  <2>2. NinguemVincula
    BY <1>8, ChamaNaoVincula, TerminaNaoVincula DEF BuscarCliente
  <2>3. QED
    BY <1>1, <2>1, <2>2, VinculosSemNovos
<1>9. ASSUME NEW s \in Sessoes, CriarCliente(s) \/ CriarVeiculo(s)
      PROVE  VinculosProprios'
  <2>1. UNCHANGED ordens
    BY <1>9 DEF CriarCliente, CriarVeiculo, Falha, InsereCliente, InsereVeiculo, cadastro
  <2>2. NinguemVincula
    BY <1>9, ChamaNaoVincula, TerminaNaoVincula, ProximoNaoVincula
       DEF CriarCliente, CriarVeiculo, Falha
  <2>3. QED
    BY <1>1, <2>1, <2>2, VinculosSemNovos
<1>10. ASSUME NEW s \in Sessoes, BuscarVeiculo(s) \/ LerServico(s)
      PROVE  VinculosProprios'
  <2>1. UNCHANGED ordens
    BY <1>10 DEF BuscarVeiculo, LerServico, cadastro
  <2>2. NinguemVincula
    BY <1>10, ChamaNaoVincula, TerminaNaoVincula, ProximoNaoVincula
       DEF BuscarVeiculo, LerServico
  <2>3. QED
    BY <1>1, <2>1, <2>2, VinculosSemNovos
<1>11. ASSUME NEW s \in Sessoes, CriarOrdem(s)
      PROVE  VinculosProprios'
  <2>1. CASE Falha(s)
    BY <1>1, <2>1, TerminaNaoVincula, VinculosSemNovos DEF Falha, cadastro
  <2>2. ASSUME NEW o \in Ordens, ordens[o].st = "novo",
               ordens' = [ordens EXCEPT ![o] = [st |-> "presente", cliente |-> dados[s].cliente,
                                        veiculo |-> dados[s].veiculo, servicos |-> {}]],
               Termina(s) \/ Chama(s, "os_vincular", [dados[s] EXCEPT !.ordem = o])
        PROVE  VinculosProprios'
    <3>1. ordens'[o].servicos = {} /\ SemServicosFica
      BY <2>2 DEF TipoBanco, SemServicosFica
    <3>2. CASE Termina(s)
      BY <3>1, <3>2, TerminaNaoVincula, VinculosSemNovos
    <3>3. CASE Chama(s, "os_vincular", [dados[s] EXCEPT !.ordem = o])
      <4>1. /\ pc'[s] = "os_vincular" /\ dados'[s].ordem = o
            /\ \A t \in Sessoes \ {s} : pc'[t] = pc[t] /\ dados'[t] = dados[t]
        BY <3>3 DEF Chama, TipoSessao, Dados
      <4>2. \A t \in Sessoes \ {s} : pc[t] = "os_vincular" => dados[t].ordem \in Ordens \ {o}
        BY <2>2 DEF SessoesCarregam, Carrega
      <4>3. QED
        BY <3>1, <4>1, <4>2 DEF VinculosProprios, SemServicosFica
    <3>4. QED
      BY <2>2, <3>2, <3>3
  <2>3. QED
    BY <1>11, <2>1, <2>2 DEF CriarOrdem
<1>12. ASSUME NEW s \in Sessoes, VincularServicos(s)
      PROVE  VinculosProprios'
  <2>1. CASE Falha(s)
    BY <1>1, <2>1, TerminaNaoVincula, VinculosSemNovos DEF Falha, cadastro
  <2>2. CASE Termina(s) /\ ordens' = [ordens EXCEPT ![dados[s].ordem].servicos = dados[s].servicos]
    <3>1. /\ pc'[s] # "os_vincular" /\ pc[s] = "os_vincular"
          /\ \A t \in Sessoes \ {s} : pc'[t] = pc[t] /\ dados'[t] = dados[t]
      BY <1>12, <2>2 DEF VincularServicos, Termina, Chama, TipoSessao
    <3>2. \A o \in Ordens : o # dados[s].ordem => ordens'[o] = ordens[o]
      BY <2>2 DEF TipoBanco
    <3>3. \A t \in Sessoes : pc[t] = "os_vincular" => dados[t].ordem \in Ordens
      BY DEF SessoesCarregam, Carrega
    <3>4. QED
      BY <3>1, <3>2, <3>3 DEF VinculosProprios
  <2>3. QED
    BY <1>12, <2>1, <2>2 DEF VincularServicos
<1>13. QED
  BY <1>3, <1>4, <1>5, <1>6, <1>7, <1>8, <1>9, <1>10, <1>11, <1>12
     DEF Next, ClienteController, VeiculoController, ServicoController, OrdemController,
     Avancar

-----------------------------------------------------------------------------
(* Theorems.                                                               *)

LEMMA InvarianteInicial == Init => Invariante
<1> SUFFICES ASSUME Init
             PROVE  Invariante
  OBVIOUS
<1>1. TypeOK
  BY VazioTipo DEF Init, TypeOK, TipoBanco, TipoSessao, LinhasCliente, LinhasVeiculo, LinhasOrdem
<1>2. SessoesCarregam /\ VinculosProprios
  BY DEF Init, SessoesCarregam, Carrega, VinculosProprios, ComCliente, ComVeiculo, ComPlaca
<1>3. /\ Existentes(clientes) = {} /\ Existentes(veiculos) = {} /\ Existentes(ordens) = {}
  BY DEF Init, Existentes, SemCliente, SemVeiculo, SemOrdem
<1>4. FormaCanonica /\ IdentidadeUnica /\ OrdemIntegra
  BY <1>3 DEF FormaCanonica, IdentidadeUnica, OrdemIntegra
<1>5. QED
  BY <1>1, <1>2, <1>4 DEF Invariante

LEMMA InvariantePreservado ==
  ASSUME Invariante, [Next]_vars
  PROVE  Invariante'
<1>1. CASE UNCHANGED vars
  <2>1. UNCHANGED <<clientes, veiculos, servicos, ordens, pc, dados>>
    BY <1>1 DEF vars, cadastro
  <2>2. TypeOK'
    BY <2>1 DEF Invariante, TypeOK, TipoBanco, TipoSessao
  <2>3. SessoesCarregam' /\ VinculosProprios'
    BY <2>1 DEF Invariante, SessoesCarregam, VinculosProprios
  <2>4. FormaCanonica' /\ IdentidadeUnica' /\ OrdemIntegra'
    BY <2>1 DEF Invariante, FormaCanonica, IdentidadeUnica, OrdemIntegra, Existentes
  <2>5. QED
    BY <2>2, <2>3, <2>4 DEF Invariante
<1>2. CASE Next
  <2> USE DEF Invariante, TypeOK
  <2>1. Escrita
    BY <1>2, Escritas
  <2>2. Evolui /\ TipoBanco'
    BY <2>1, EvoluiPorEscrita, TipoPorEscrita
  <2>3. UNCHANGED <<pc, dados>> \/ Movimento
    BY <1>2, <2>2, Movimentos
  <2>4. TipoSessao'
    BY <2>3, TipoPorMovimento DEF TipoSessao
  <2>5. SessoesCarregam'
    BY <2>2, <2>3, CarregaPorMovimento
  <2>6. VinculosProprios'
    BY <1>2, VinculosPorPasso
  <2>7. IdentidadeClientes' /\ IdentidadeVeiculos'
    BY <2>1, <2>2, IdentidadePorTabela, IdentidadePorEscrita
  <2>8. (IdentidadeUnica /\ FormaCanonica)'
    BY <2>2, <2>7, IdentidadePorTabela, PTL
  <2>9. TudoLigado'
    BY <2>1, <2>2, IntegraPorLinha, IntegraPorEscrita
  <2>10. OrdemIntegra'
    BY <2>2, <2>9, IntegraPorLinha, PTL
  <2>11. QED
    BY <2>2, <2>4, <2>5, <2>6, <2>8, <2>10
<1>3. QED
  BY <1>1, <1>2

LEMMA InvarianteSempre == Spec => []Invariante
BY InvarianteInicial, InvariantePreservado, PTL DEF Spec

\* Rows keep the shape of the schema, and a session holds what it read, however
\* requests interleave and wherever they are cut short.
THEOREM TipoCorreto == Spec => []TypeOK
BY InvarianteSempre, PTL DEF Invariante

\* A person has one row and a vehicle has one row, however their documents and
\* plates are written in the requests: IdentidadeUnica.
THEOREM IdentidadeCorreta == Spec => []IdentidadeUnica
BY InvarianteSempre, PTL DEF Invariante

\* An order has its customer, its vehicle and its services, and a vehicle its
\* owner, although the lookups and the writes of a registration are several
\* calls that removals come between: OrdemIntegra.
THEOREM IntegridadeCorreta == Spec => []OrdemIntegra
BY InvarianteSempre, PTL DEF Invariante

\* A registration meets a unique key only for a reason outside its own calls:
\* ConflitoExplicado.
THEOREM ConflitoSempreExplicado == Spec => []ConflitoExplicado
<1>1. Invariante => ConflitoExplicado
  <2> SUFFICES ASSUME Invariante, NEW s \in Sessoes
               PROVE  LET f == dados[s].ficha
                          p == dados[s].placa
                      IN
                      /\ pc[s] = "os_criar_cliente" =>
                           \A c \in Existentes(clientes) :
                             /\ clientes[c].documento = CriarVo(f.documento) =>
                                  f.documento.grafia # "canonica" \/ c \notin dados[s].vistos
                             /\ clientes[c].email = CriarVo(f.email) /\ c \in dados[s].vistos =>
                                  \/ clientes[c].documento.numero # f.documento.numero
                                  \/ f.documento.grafia # "canonica"
                      /\ pc[s] = "os_criar_veiculo" =>
                           \A v \in Existentes(veiculos) :
                             veiculos[v].placa = CriarVo(p) =>
                               p.grafia # "canonica" \/ v \notin dados[s].vistos
    BY DEF ConflitoExplicado
  <2> DEFINE f == dados[s].ficha
             p == dados[s].placa
  <2> USE DEF Invariante, TypeOK
  <2>1. ASSUME pc[s] = "os_criar_cliente", NEW c \in Existentes(clientes),
               c \in dados[s].vistos, f.documento.grafia = "canonica"
        PROVE  clientes[c].documento.numero # f.documento.numero
    <3>1. c \in Clientes /\ clientes[c].st = "presente"
      BY DEF Existentes, TipoBanco
    <3>2. f \in Fichas /\ clientes[c].documento # f.documento
      BY <2>1, <3>1 DEF SessoesCarregam, Carrega
    <3>3. clientes[c].documento \in Documentos /\ clientes[c].documento.grafia = "canonica"
      BY <3>1, Linhas DEF FormaCanonica
    <3>4. f.documento \in Documentos
      BY <3>2, Parametros
    <3>5. QED
      BY <2>1, <3>2, <3>3, <3>4 DEF Documentos
  <2>2. ASSUME pc[s] = "os_criar_veiculo", NEW v \in Existentes(veiculos),
               v \in dados[s].vistos, p.grafia = "canonica"
        PROVE  veiculos[v].placa # CriarVo(p)
    <3>1. v \in Veiculos /\ veiculos[v].st = "presente"
      BY DEF Existentes, TipoBanco
    <3>2. p \in Placas /\ veiculos[v].placa # p
      BY <2>2, <3>1 DEF SessoesCarregam, Carrega, ComPlaca
    <3>3. p \in TodasPlacas
      BY <3>2, Parametros
    <3>4. QED
      BY <2>2, <3>2, <3>3 DEF TodasPlacas, CriarVo
  <2>3. ASSUME pc[s] = "os_criar_cliente"
        PROVE  f.documento \in Documentos
    BY <2>3, Parametros DEF SessoesCarregam, Carrega
  <2>4. QED
    BY <2>1, <2>2, <2>3, CriarVoForma
<1>2. QED
  BY <1>1, InvarianteSempre, PTL

\* An order goes only by its own removal or with its customer or its vehicle, and
\* keeps the services it lists while it is there: OrdemSaiComMotivo.
THEOREM OrdemSoSaiComMotivo == Spec => OrdemSaiComMotivo
<1> DEFINE ComMotivo ==
      \A o \in Existentes(ordens) :
        \/ ordens'[o].st = "presente" /\ ordens[o].servicos \subseteq ordens'[o].servicos
        \/ clientes'[ordens[o].cliente].st = "removido"
        \/ veiculos'[ordens[o].veiculo].st = "removido"
        \/ \E s \in Sessoes : DeletarOrdem(s, o)
<1>1. ASSUME Invariante, [Next]_vars
      PROVE  [ComMotivo]_vars
  <2> SUFFICES ASSUME Invariante, Next, NEW o \in Existentes(ordens),
                      \A s \in Sessoes : ~ DeletarOrdem(s, o)
               PROVE  \/ /\ ordens'[o].st = "presente"
                         /\ ordens[o].servicos \subseteq ordens'[o].servicos
                      \/ clientes'[ordens[o].cliente].st = "removido"
                      \/ veiculos'[ordens[o].veiculo].st = "removido"
    BY <1>1
  <2> USE DEF Invariante, TypeOK
  <2>1. o \in Ordens /\ ordens[o].st = "presente"
    BY DEF Existentes, TipoBanco
  <2> DEFINE Motivo == \/ /\ ordens'[o].st = "presente"
                          /\ ordens[o].servicos \subseteq ordens'[o].servicos
                       \/ clientes'[ordens[o].cliente].st = "removido"
                       \/ veiculos'[ordens[o].veiculo].st = "removido"
  <2>2. Escrita
    BY Escritas
  <2>3. CASE UNCHANGED ordens
    BY <2>1, <2>3
  <2>4. ASSUME NEW C \in SUBSET Clientes, NEW V \in SUBSET Veiculos, Apaga(C, V)
        PROVE  Motivo
    BY <2>1, <2>4, Cascata
  <2>5. ASSUME NEW q \in Ordens, NEW c \in Clientes, NEW v \in Veiculos, NovaOrdem(q, c, v)
        PROVE  Motivo
    BY <2>1, <2>5 DEF NovaOrdem, TipoBanco
  <2>6. ASSUME NEW q \in Ordens, NEW l \in SUBSET Servicos, Vincula(q, l)
        PROVE  Motivo
    <3>1. CASE q = o
      <4>1. ordens[o] \in [st : {"presente"}, cliente : Clientes, veiculo : Veiculos,
                          servicos : SUBSET Servicos]
        BY <2>1, Linhas DEF TipoBanco, LinhasOrdem, SemOrdem
      <4>2. ordens'[o] = [ordens[o] EXCEPT !.servicos = l]
        BY <2>6, <3>1 DEF Vincula, TipoBanco
      <4>3. QED
        BY <2>6, <3>1, <4>1, <4>2 DEF Vincula
    <3>2. CASE q # o
      BY <2>1, <2>6, <3>2 DEF Vincula, TipoBanco
    <3>3. QED
      BY <3>1, <3>2
  <2>7. ASSUME NEW q \in Ordens, ApagaOrdem(q)
        PROVE  Motivo
    BY <2>1, <2>7 DEF ApagaOrdem, TipoBanco
  <2>8. QED
    BY <2>2, <2>3, <2>4, <2>5, <2>6, <2>7 DEF Escrita, cadastro, NovoCliente, InsereCliente,
       AlteraCliente, NovoVeiculo, InsereVeiculo, AlteraVeiculo, NovoServico, ApagaServico
<1>2. QED
  BY <1>1, InvarianteSempre, PTL DEF Spec, OrdemSaiComMotivo

=============================================================================
