---------------------------- MODULE CargaProofs -----------------------------
(***************************************************************************)
(* Proofs about Carga, for tables of any size, any list of the templates,  *)
(* any order of the identifiers and any number of changes.                 *)
(*                                                                         *)
(* What the seed promises it promises of a database whose history is known *)
(* only by the kinds of change made to it: InvarianteCarga says what each  *)
(* set of kinds leaves true of the rows, and that a seed leaves them as it *)
(* would leave them again.                                                 *)
(***************************************************************************)
EXTENDS Carga, FiniteSetTheorems, TLAPS

-----------------------------------------------------------------------------
(* Positions: keys, items and places among the vehicles.                   *)

\* Positions are counted from zero, and every table has the first.
LEMMA ChavesNaturais ==
  /\ \A t \in Tabelas : Tamanho[t] \in Nat \ {0} /\ 0 \in Chaves(t)
  /\ \A t \in Tabelas : Chaves(t) \subseteq Nat /\ IsFiniteSet(Chaves(t))
<1>1. \A t \in Tabelas : Tamanho[t] \in Nat \ {0}
  BY Parametros
<1>2. \A t \in Tabelas : 0 \in Chaves(t) /\ Chaves(t) \subseteq Nat
  BY <1>1 DEF Chaves
<1>3. ASSUME NEW t \in Tabelas
      PROVE  IsFiniteSet(Chaves(t))
  <2>1. 0 \in Int /\ Tamanho[t] - 1 \in Int
    BY <1>1
  <2>2. IsFiniteSet(0 .. Tamanho[t] - 1)
    BY <2>1, FS_Interval
  <2>3. QED
    BY <2>2 DEF Chaves
<1>4. QED
  BY <1>1, <1>2, <1>3

\* A template goes round every table.
LEMMA VoltaNaTabela ==
  ASSUME NEW i \in DOMAIN Modelos, NEW t \in Tabelas
  PROVE  (i - 1) % Tamanho[t] \in Chaves(t)
<1>1. i \in Nat /\ i >= 1
  BY Parametros
<1>2. Tamanho[t] \in Nat \ {0}
  BY ChavesNaturais
<1>3. \A n, k \in Nat : k # 0 => n % k \in 0 .. k - 1
  OBVIOUS
<1>4. i - 1 \in Nat
  BY <1>1
<1>5. QED
  BY <1>2, <1>3, <1>4 DEF Chaves

\* The clients, vehicles, services and parts are rows of the tables.
LEMMA Mesmas ==
  /\ Clientes = Chaves("cliente") /\ Frota = Chaves("veiculo")
  /\ Servicos = Chaves("servico") /\ Pecas = Chaves("peca")
BY DEF Clientes, Frota, Servicos, Pecas

\* The identifiers order the vehicles: no two have the same place.
LEMMA PosicaoInjetiva ==
  ASSUME NEW S \in SUBSET Frota, NEW v \in S, NEW w \in S, Posicao(S, v) = Posicao(S, w)
  PROVE  v = w
<1> DEFINE Antes(x) == {y \in S : PosicaoId[y] < PosicaoId[x]}
<1>1. PosicaoId \in [Frota -> Nat] /\ \A x, y \in Frota : PosicaoId[x] = PosicaoId[y] => x = y
  BY Parametros
<1>2. IsFiniteSet(S)
  <2>1. IsFiniteSet(Frota)
    BY ChavesNaturais, Mesmas DEF Tabelas
  <2>2. QED
    BY <2>1, FS_Subset
<1>3. ASSUME NEW x \in S, NEW y \in S, PosicaoId[x] < PosicaoId[y]
      PROVE  Cardinality(Antes(x)) # Cardinality(Antes(y))
  <2>1. Antes(x) \in SUBSET Antes(y)
    <3>1. ASSUME NEW z \in Antes(x)
          PROVE  z \in Antes(y)
      BY <1>1, <1>3, <3>1
    <3>2. QED
      BY <3>1
  <2>2. x \in Antes(y) /\ x \notin Antes(x)
    BY <1>1, <1>3
  <2>3. IsFiniteSet(Antes(y))
    <3>1. Antes(y) \in SUBSET S
      OBVIOUS
    <3>2. QED
      BY <1>2, <3>1, FS_Subset
  <2> HIDE DEF Antes
  <2>4. QED
    BY <2>1, <2>2, <2>3, FS_Subset
<1>4. Cardinality(Antes(v)) = Cardinality(Antes(w))
  BY DEF Posicao
<1>5. PosicaoId[v] \in Nat /\ PosicaoId[w] \in Nat
  BY <1>1
<1> HIDE DEF Antes
<1>6. ~ PosicaoId[v] < PosicaoId[w] /\ ~ PosicaoId[w] < PosicaoId[v]
  BY <1>3, <1>4
<1>7. PosicaoId[v] = PosicaoId[w]
  BY <1>5, <1>6
<1>8. QED
  BY <1>1, <1>7

-----------------------------------------------------------------------------
(* The inductive invariant.                                                *)

Nova == {"chave", "id"}

\* As long as no request has registered a plate of the seed, a vehicle is there
\* as the seed made it or not at all; the seed then chooses among the same
\* vehicles every time, so that an order stands where the distribution over all
\* of them puts it.
FrotaInteira ==
  "registro_veiculo" \notin causas =>
    /\ \A v \in Frota : linhas["veiculo"][v] \in {{}, Nova}
    /\ \A e \in Celulas : Presente(e) => e \in Distribuicao(Frota)

\* A row the seed can live with: as it made it, or gone, or a vehicle with its
\* plate and another identifier.
Conciliavel(t, fatos) == fatos \in {{}, Nova} \/ (t = "veiculo" /\ fatos = {"chave"})

SemObstaculo ==
  causas \subseteq {"remocao", "progresso", "situacao", "registro_veiculo"} =>
    /\ \A t \in Tabelas : \A k \in Chaves(t) : Conciliavel(t, linhas[t][k])
    /\ \A e \in Celulas : ordens[e].st # "editada"

\* Nothing has changed since the last seed: every row, every order chosen, the
\* supplier order, what a login sees of the accounts and the customers it says
\* are active are as it leaves them.
Carregada ==
  /\ naCarga <= alteracoes
  /\ naCarga = alteracoes =>
       /\ \A t \in Tabelas : \A k \in Chaves(t) : "chave" \in linhas[t][k]
       /\ \A e \in Escolhidas : ordens[e] = SeedOrdem(e)
       /\ fornecedor = TRUE
       /\ \A u \in Chaves("usuario") : contas[u].perfil = "semente" /\ contas[u].senha = "semente"
       /\ inativos \cap ComAtivo = {}

InvarianteCarga == TypeOK /\ FrotaInteira /\ SemObstaculo /\ Carregada

-----------------------------------------------------------------------------
(* What a request does, row by row and order by order.                     *)

LEMMA EfeitoLinha ==
  ASSUME TipoLinhas, NEW t \in Tabelas, NEW k \in Chaves(t), NEW fatos, Linha(t, k, fatos)
  PROVE  /\ linhas' = [u \in Tabelas |-> linhas'[u]]
         /\ \A u \in Tabelas : linhas'[u] =
              [j \in Chaves(u) |-> IF u = t /\ j = k THEN fatos ELSE linhas[u][j]]
<1>1. linhas = [u \in Tabelas |-> linhas[u]]
  BY DEF TipoLinhas
<1>2. \A u \in Tabelas : linhas[u] \in [Chaves(u) -> SUBSET Fatos]
  BY DEF TipoLinhas
<1>3. linhas' = [linhas EXCEPT ![t] = [linhas[t] EXCEPT ![k] = fatos]]
  BY DEF Linha
<1> DEFINE G == [linhas[t] EXCEPT ![k] = fatos]
<1>4. G = [j \in Chaves(t) |-> IF j = k THEN fatos ELSE linhas[t][j]]
  BY <1>2
<1>5. linhas' = [linhas EXCEPT ![t] = G]
  BY <1>3
<1> HIDE DEF G
<1>6. linhas' = [u \in Tabelas |-> IF u = t THEN G ELSE linhas[u]]
  BY <1>1, <1>5
<1>7. ASSUME NEW u \in Tabelas, u # t
      PROVE  linhas'[u] = [j \in Chaves(u) |-> IF u = t /\ j = k THEN fatos ELSE linhas[u][j]]
  <2>1. linhas'[u] = linhas[u] /\ linhas[u] \in [Chaves(u) -> SUBSET Fatos]
    BY <1>2, <1>6, <1>7
  <2>2. QED
    BY <1>7, <2>1
<1>8. linhas'[t] = [j \in Chaves(t) |-> IF t = t /\ j = k THEN fatos ELSE linhas[t][j]]
  BY <1>4, <1>6
<1>9. QED
  BY <1>6, <1>7, <1>8

LEMMA EfeitoApagaLinhas ==
  ASSUME NEW R, ApagaLinhas(R)
  PROVE  /\ linhas' = [u \in Tabelas |-> linhas'[u]]
         /\ \A u \in Tabelas : linhas'[u] =
              [j \in Chaves(u) |-> IF <<u, j>> \in R THEN {} ELSE linhas[u][j]]
BY DEF ApagaLinhas

\* What the type asks of one row.
TipoDaLinha(t, fatos) ==
  /\ fatos \in SUBSET Fatos
  /\ fatos = {"id"} => t = "servico"
  /\ "email" \in fatos => t = "cliente" /\ "id" \notin fatos

LEMMA TiposDasLinhas ==
  ASSUME TipoLinhas, NEW t \in Tabelas, NEW k \in Chaves(t)
  PROVE  TipoDaLinha(t, linhas[t][k])
<1>1. linhas[t] \in [Chaves(t) -> SUBSET Fatos]
  BY DEF TipoLinhas
<1>2. linhas[t][k] \in SUBSET Fatos
  BY <1>1
<1>3. QED
  BY <1>2 DEF TipoLinhas, TipoDaLinha

LEMMA TipoLinhasDepois ==
  ASSUME linhas' = [t \in Tabelas |-> linhas'[t]],
         \A t \in Tabelas : linhas'[t] = [k \in Chaves(t) |-> linhas'[t][k]],
         \A t \in Tabelas : \A k \in Chaves(t) : TipoDaLinha(t, linhas'[t][k])
  PROVE  TipoLinhas'
<1>1. ASSUME NEW t \in Tabelas
      PROVE  linhas'[t] \in [Chaves(t) -> SUBSET Fatos]
  <2>1. linhas'[t] = [k \in Chaves(t) |-> linhas'[t][k]]
    OBVIOUS
  <2>2. \A k \in Chaves(t) : linhas'[t][k] \in SUBSET Fatos
    BY DEF TipoDaLinha
  <2>3. QED
    BY <2>1, <2>2
<1>2. QED
  BY <1>1 DEF TipoLinhas, TipoDaLinha

\* Rows that are as they were or gone keep their type.
LEMMA TipoLinhasRemovidas ==
  ASSUME TipoLinhas, NEW R, ApagaLinhas(R)
  PROVE  TipoLinhas'
<1>1. \A t \in Tabelas : linhas'[t] =
        [k \in Chaves(t) |-> IF <<t, k>> \in R THEN {} ELSE linhas[t][k]]
  BY EfeitoApagaLinhas
<1>2. linhas' = [t \in Tabelas |-> linhas'[t]]
  BY EfeitoApagaLinhas
<1>3. ASSUME NEW t \in Tabelas
      PROVE  /\ linhas'[t] = [k \in Chaves(t) |-> linhas'[t][k]]
             /\ \A k \in Chaves(t) : linhas'[t][k] \in {{}, linhas[t][k]}
  BY <1>1
<1>4. ASSUME NEW t \in Tabelas, NEW k \in Chaves(t)
      PROVE  TipoDaLinha(t, linhas'[t][k])
  <2>1. linhas'[t][k] \in {{}, linhas[t][k]}
    BY <1>3
  <2>2. TipoDaLinha(t, linhas[t][k])
    BY TiposDasLinhas
  <2>3. QED
    BY <2>1, <2>2 DEF TipoDaLinha
<1>5. QED
  BY <1>2, <1>3, <1>4, TipoLinhasDepois

\* A row that is written keeps the type of the others.
LEMMA TipoLinhaEscrita ==
  ASSUME TipoLinhas, NEW t \in Tabelas, NEW k \in Chaves(t), NEW fatos,
         TipoDaLinha(t, fatos), Linha(t, k, fatos)
  PROVE  TipoLinhas'
<1>1. \A u \in Tabelas : linhas'[u] =
        [j \in Chaves(u) |-> IF u = t /\ j = k THEN fatos ELSE linhas[u][j]]
  BY EfeitoLinha
<1>2. linhas' = [u \in Tabelas |-> linhas'[u]]
  BY EfeitoLinha
<1>3. ASSUME NEW u \in Tabelas
      PROVE  linhas'[u] = [j \in Chaves(u) |-> linhas'[u][j]]
  BY <1>1
<1>4. ASSUME NEW u \in Tabelas, NEW j \in Chaves(u)
      PROVE  TipoDaLinha(u, linhas'[u][j])
  <2>1. linhas'[u][j] = IF u = t /\ j = k THEN fatos ELSE linhas[u][j]
    BY <1>1
  <2>2. TipoDaLinha(u, linhas[u][j])
    BY TiposDasLinhas
  <2>3. QED
    BY <2>1, <2>2
<1>5. QED
  BY <1>2, <1>3, <1>4, TipoLinhasDepois

\* The references of an order that is there.
Referencias(e, ls, o) ==
  /\ "id" \in ls["veiculo"][e[1]]
  /\ "chave" \in ls["cliente"][o.cliente]
  /\ o.vinculada => "id" \in ls["peca"][(e[2] - 1) % Tamanho["peca"]]

LEMMA TipoOrdensDepois ==
  ASSUME ordens' \in [Celulas -> Ordem],
         \A e \in Celulas : ordens'[e].st # "ausente" => Referencias(e, linhas', ordens'[e])
  PROVE  TipoOrdens'
BY DEF TipoOrdens, Referencias

\* Rows gain facts or lose none an order refers to.
LEMMA TipoOrdensRelidas ==
  ASSUME TypeOK, UNCHANGED ordens,
         \A t \in Tabelas : \A k \in Chaves(t) :
           /\ "chave" \in linhas[t][k] /\ t = "cliente" => "chave" \in linhas'[t][k]
           /\ "id" \in linhas[t][k] => "id" \in linhas'[t][k]
  PROVE  TipoOrdens'
<1>1. ordens \in [Celulas -> Ordem]
  BY DEF TypeOK, TipoOrdens
<1>2. ASSUME NEW e \in Celulas, ordens'[e].st # "ausente"
      PROVE  Referencias(e, linhas', ordens'[e])
  <2>1. e[1] \in Chaves("veiculo") /\ e[2] \in DOMAIN Modelos
    BY Mesmas DEF Celulas
  <2>2. ordens[e].cliente \in Chaves("cliente")
    BY <1>1, Mesmas DEF Ordem
  <2>3. (e[2] - 1) % Tamanho["peca"] \in Chaves("peca")
    BY <2>1, VoltaNaTabela DEF Tabelas
  <2>4. /\ "id" \in linhas["veiculo"][e[1]]
        /\ "chave" \in linhas["cliente"][ordens[e].cliente]
        /\ ordens[e].vinculada => "id" \in linhas["peca"][(e[2] - 1) % Tamanho["peca"]]
    BY <1>2 DEF TypeOK, TipoOrdens
  <2>5. "veiculo" \in Tabelas /\ "cliente" \in Tabelas /\ "peca" \in Tabelas
    BY DEF Tabelas
  <2>6. QED
    BY <2>1, <2>2, <2>3, <2>4, <2>5 DEF Referencias
<1>3. QED
  BY <1>1, <1>2, TipoOrdensDepois

\* Accounts that are as they were, and customers that are no longer inactive or
\* still there.
LEMMA TipoPessoasMantidas ==
  ASSUME TypeOK, UNCHANGED contas, inativos' \subseteq inativos,
         \A u \in Chaves("usuario") :
           "chave" \in linhas'["usuario"][u] <=> "chave" \in linhas["usuario"][u],
         \A c \in inativos' : "chave" \in linhas'["cliente"][c]
  PROVE  TipoPessoas'
BY DEF TypeOK, TipoPessoas

-----------------------------------------------------------------------------
(* Types of the orders.                                                    *)

DadosDoModelo == [status : {m.status : m \in Exemplos}, orcamento : {m.orcamento : m \in Exemplos}]

LEMMA ExemplosTipados ==
  ASSUME NEW m \in Exemplos
  PROVE  m \in DadosDoModelo
<1>1. \A i \in DOMAIN OS_TEMPLATES :
        OS_TEMPLATES[i] = Modelo(OS_TEMPLATES[i].status, OS_TEMPLATES[i].orcamento)
  BY DEF OS_TEMPLATES, Modelo
<1>2. \A a \in Avancos : a = Modelo(a.status, a.orcamento)
  BY DEF Avancos, Modelo
<1>3. SemOrdem.modelo = Modelo(SemOrdem.modelo.status, SemOrdem.modelo.orcamento)
  BY DEF SemOrdem, Modelo
<1>4. m = Modelo(m.status, m.orcamento)
  BY <1>1, <1>2, <1>3 DEF Exemplos
<1>5. QED
  BY <1>4 DEF DadosDoModelo, Modelo

LEMMA SemOrdemTipada == SemOrdem \in Ordem
<1>1. SemOrdem.modelo \in DadosDoModelo
  BY ExemplosTipados DEF Exemplos
<1>2. 0 \in Clientes
  BY ChavesNaturais, Mesmas DEF Tabelas
<1>3. QED
  BY <1>1, <1>2 DEF SemOrdem, Ordem, DadosDoModelo

LEMMA SeedOrdemTipada ==
  ASSUME TypeOK, NEW e \in Celulas
  PROVE  SeedOrdem(e) \in Ordem /\ SeedOrdem(e).st = "semente" /\ SeedOrdem(e).vinculada
<1>1. e[2] \in DOMAIN Modelos
  BY DEF Celulas
<1>2. Modelos[e[2]] \in {OS_TEMPLATES[i] : i \in DOMAIN OS_TEMPLATES}
  BY <1>1, Parametros
<1>3. Modelos[e[2]] \in DadosDoModelo
  BY <1>2, ExemplosTipados DEF Exemplos
<1>4. ordens[e] \in Ordem
  BY DEF TypeOK, TipoOrdens
<1>5. ClienteDoModelo(e[2]) \in Clientes
  BY <1>1, VoltaNaTabela, Mesmas DEF ClienteDoModelo, Tabelas
<1>6. Modelo(Modelos[e[2]].status, ordens[e].modelo.orcamento) \in DadosDoModelo
  BY <1>3, <1>4 DEF Modelo, DadosDoModelo, Ordem
<1>7. QED
  BY <1>3, <1>5, <1>6 DEF SeedOrdem, Ordem, DadosDoModelo

LEMMA EscolhidasTipadas ==
  ASSUME NEW e \in Escolhidas
  PROVE  e \in Celulas /\ e[1] \in SeededVehicles /\ e[1] \in Frota /\ e[2] \in DOMAIN Modelos
BY DEF Escolhidas, Distribuicao, Veiculos, SeededVehicles, Celulas

-----------------------------------------------------------------------------
(* The seed keeps the type.                                                *)

LEMMA EfeitoSemeia ==
  ASSUME TipoLinhas, NEW t \in Tabelas, NEW k \in Chaves(t)
  PROVE  /\ Semeia(t)[k] = IF "chave" \in linhas[t][k] THEN linhas[t][k] ELSE Nova
         /\ "chave" \in Semeia(t)[k]
         /\ "id" \in linhas[t][k] => "id" \in Semeia(t)[k]
         /\ TipoDaLinha(t, Semeia(t)[k])
<1>1. Semeia(t)[k] = IF "chave" \in linhas[t][k] THEN linhas[t][k] ELSE Nova
  BY DEF Semeia, Nova
<1>2. TipoDaLinha(t, linhas[t][k])
  BY TiposDasLinhas
<1>3. QED
  BY <1>1, <1>2 DEF Nova, TipoDaLinha, Fatos

LEMMA TipoSeed ==
  ASSUME TypeOK, Seed
  PROVE  TypeOK'
<1> USE DEF TypeOK
<1>1. linhas' = [t \in Tabelas |-> Semeia(t)]
  BY DEF Seed
<1>2. TipoLinhas'
  <2>1. \A t \in Tabelas : linhas'[t] = Semeia(t)
    BY <1>1
  <2>2. linhas' = [t \in Tabelas |-> linhas'[t]]
    BY <1>1
  <2>3. \A t \in Tabelas : Semeia(t) = [k \in Chaves(t) |-> Semeia(t)[k]]
    BY DEF Semeia
  <2>4. \A t \in Tabelas : \A k \in Chaves(t) : TipoDaLinha(t, Semeia(t)[k])
    BY EfeitoSemeia
  <2>5. QED
    BY <2>1, <2>2, <2>3, <2>4, TipoLinhasDepois
<1>3. TipoOrdens'
  <2>1. ordens' = [e \in Celulas |-> IF e \in Escolhidas THEN SeedOrdem(e) ELSE ordens[e]]
    BY DEF Seed
  <2>2. ordens \in [Celulas -> Ordem]
    BY DEF TipoOrdens
  <2>3. ordens' \in [Celulas -> Ordem]
    BY <2>1, <2>2, SeedOrdemTipada
  <2>4. "veiculo" \in Tabelas /\ "cliente" \in Tabelas /\ "peca" \in Tabelas
    BY DEF Tabelas
  <2>5. ASSUME NEW e \in Celulas, ordens'[e].st # "ausente"
        PROVE  Referencias(e, linhas', ordens'[e])
    <3>1. e[1] \in Chaves("veiculo") /\ e[2] \in DOMAIN Modelos
      BY Mesmas DEF Celulas
    <3>2. (e[2] - 1) % Tamanho["peca"] \in Chaves("peca")
      BY <2>4, <3>1, VoltaNaTabela
    <3>3. ordens'[e].cliente \in Chaves("cliente")
      BY <2>3, Mesmas DEF Ordem
    <3>4. "chave" \in linhas'["cliente"][ordens'[e].cliente]
      BY <1>1, <2>4, <3>3, EfeitoSemeia
    <3>5. CASE e \in Escolhidas
      <4>1. "id" \in Semeia("veiculo")[e[1]]
        BY <3>5, EscolhidasTipadas DEF SeededVehicles
      <4>2. "id" \in Semeia("peca")[(e[2] - 1) % Tamanho["peca"]]
        BY <3>5 DEF Seed, PodeCarregar, ItemExiste
      <4>3. QED
        BY <1>1, <2>4, <3>4, <4>1, <4>2 DEF Referencias
    <3>6. CASE e \notin Escolhidas
      <4>1. ordens'[e] = ordens[e]
        BY <2>1, <3>6
      <4>2. /\ "id" \in linhas["veiculo"][e[1]]
            /\ ordens[e].vinculada => "id" \in linhas["peca"][(e[2] - 1) % Tamanho["peca"]]
        BY <2>5, <4>1 DEF TipoOrdens
      <4>3. QED
        BY <1>1, <2>4, <3>1, <3>2, <3>4, <4>1, <4>2, EfeitoSemeia DEF Referencias
    <3>7. QED
      BY <3>5, <3>6
  <2>6. QED
    BY <2>3, <2>5, TipoOrdensDepois
<1>4. TipoPessoas'
  <2>1. contas' = [u \in Chaves("usuario") |-> SeedUser(u)] /\ inativos' = inativos \ ComAtivo
    BY DEF Seed
  <2>2. "usuario" \in Tabelas /\ "cliente" \in Tabelas
    BY DEF Tabelas
  <2>3. ASSUME NEW u \in Chaves("usuario")
        PROVE  SeedUser(u) \in Conta /\ SeedUser(u) # SemConta
    <3>1. contas[u].sal \in {0, 1}
      BY DEF TipoPessoas, Conta, SemConta
    <3>2. 1 - contas[u].sal \in {0, 1}
      BY <3>1
    <3>3. QED
      BY <3>2 DEF SeedUser, Conta, SemConta
  <2>4. \A u \in Chaves("usuario") : "chave" \in linhas'["usuario"][u]
    BY <1>1, <2>2, EfeitoSemeia
  <2>5. \A c \in Clientes : "chave" \in linhas'["cliente"][c]
    BY <1>1, <2>2, EfeitoSemeia, Mesmas
  <2>6. contas' \in [Chaves("usuario") -> Conta \cup {SemConta}]
    BY <2>1, <2>3
  <2>7. \A u \in Chaves("usuario") : contas'[u] # SemConta
    BY <2>1, <2>3
  <2>8. QED
    BY <2>1, <2>4, <2>5, <2>6, <2>7 DEF TipoPessoas
<1>5. QED
  BY <1>2, <1>3, <1>4, Parametros DEF Seed

-----------------------------------------------------------------------------
(* The requests keep the type.                                             *)

LEMMA TipoAltera ==
  ASSUME TypeOK, NEW causa \in Causas, Altera(causa)
  PROVE  /\ alteracoes' \in 0 .. MaxAlteracoes /\ naCarga' \in -1 .. MaxAlteracoes
         /\ causas' \subseteq Causas
BY Parametros DEF TypeOK, Altera

\* Orders that are as they were or gone keep their type, when the rows that go
\* are none the remaining ones refer to.
LEMMA TipoOrdensRemovidas ==
  ASSUME TypeOK, NEW R, NEW O, ApagaLinhas(R),
         ordens' = [e \in Celulas |-> IF e \in O THEN SemOrdem ELSE ordens[e]],
         \A e \in Celulas \ O : Presente(e) =>
           /\ <<"veiculo", e[1]>> \notin R
           /\ <<"cliente", ordens[e].cliente>> \notin R
           /\ ordens[e].vinculada => <<"peca", (e[2] - 1) % Tamanho["peca"]>> \notin R
  PROVE  TipoOrdens'
<1>1. ordens \in [Celulas -> Ordem]
  BY DEF TypeOK, TipoOrdens
<1>2. ordens' \in [Celulas -> Ordem]
  BY <1>1, SemOrdemTipada
<1>3. \A t \in Tabelas : \A k \in Chaves(t) : <<t, k>> \notin R => linhas'[t][k] = linhas[t][k]
  <2>1. \A t \in Tabelas : linhas'[t] =
          [k \in Chaves(t) |-> IF <<t, k>> \in R THEN {} ELSE linhas[t][k]]
    BY EfeitoApagaLinhas
  <2>2. QED
    BY <2>1
<1>4. ASSUME NEW e \in Celulas, ordens'[e].st # "ausente"
      PROVE  Referencias(e, linhas', ordens'[e])
  <2>1. e \notin O /\ ordens'[e] = ordens[e]
    BY <1>4 DEF SemOrdem
  <2>2. Presente(e)
    BY <1>4, <2>1 DEF Presente
  <2>3. e[1] \in Chaves("veiculo") /\ e[2] \in DOMAIN Modelos
    BY Mesmas DEF Celulas
  <2>4. ordens[e].cliente \in Chaves("cliente")
    BY <1>1, Mesmas DEF Ordem
  <2>5. "veiculo" \in Tabelas /\ "cliente" \in Tabelas /\ "peca" \in Tabelas
    BY DEF Tabelas
  <2>6. (e[2] - 1) % Tamanho["peca"] \in Chaves("peca")
    BY <2>3, <2>5, VoltaNaTabela
  <2>7. /\ "id" \in linhas["veiculo"][e[1]]
        /\ "chave" \in linhas["cliente"][ordens[e].cliente]
        /\ ordens[e].vinculada => "id" \in linhas["peca"][(e[2] - 1) % Tamanho["peca"]]
    BY <1>4, <2>1 DEF TypeOK, TipoOrdens
  <2>8. /\ linhas'["veiculo"][e[1]] = linhas["veiculo"][e[1]]
        /\ linhas'["cliente"][ordens[e].cliente] = linhas["cliente"][ordens[e].cliente]
    BY <1>3, <2>1, <2>2, <2>3, <2>4, <2>5
  <2>9. ordens[e].vinculada => linhas'["peca"][(e[2] - 1) % Tamanho["peca"]]
                                 = linhas["peca"][(e[2] - 1) % Tamanho["peca"]]
    BY <1>3, <2>1, <2>2, <2>5, <2>6
  <2>10. QED
    BY <2>1, <2>7, <2>8, <2>9 DEF Referencias
<1>5. QED
  BY <1>2, <1>4, TipoOrdensDepois

\* No request removes an account; a customer that goes is not inactive.
LEMMA TipoPessoasRemovidas ==
  ASSUME TypeOK, NEW R, ApagaLinhas(R), UNCHANGED contas, inativos' \subseteq inativos,
         \A u \in Chaves("usuario") : <<"usuario", u>> \notin R,
         \A c \in inativos' : <<"cliente", c>> \notin R
  PROVE  TipoPessoas'
<1>1. \A t \in Tabelas : \A k \in Chaves(t) : <<t, k>> \notin R => linhas'[t][k] = linhas[t][k]
  <2>1. \A t \in Tabelas : linhas'[t] =
          [k \in Chaves(t) |-> IF <<t, k>> \in R THEN {} ELSE linhas[t][k]]
    BY EfeitoApagaLinhas
  <2>2. QED
    BY <2>1
<1>2. "usuario" \in Tabelas /\ "cliente" \in Tabelas
  BY DEF Tabelas
<1>3. \A u \in Chaves("usuario") : linhas'["usuario"][u] = linhas["usuario"][u]
  BY <1>1, <1>2
<1>4. \A c \in inativos' : c \in Chaves("cliente") /\ "chave" \in linhas["cliente"][c]
  BY Mesmas DEF TypeOK, TipoPessoas
<1>5. \A c \in inativos' : "chave" \in linhas'["cliente"][c]
  BY <1>1, <1>2, <1>4
<1>6. QED
  BY <1>3, <1>5, TipoPessoasMantidas

\* What a removal leaves: rows and orders as they were or gone.
Remocao ==
  /\ \A t \in Tabelas : \A k \in Chaves(t) : linhas'[t][k] \in {{}, linhas[t][k]}
  /\ \A e \in Celulas : ordens'[e] \in {SemOrdem, ordens[e]}
  /\ causas' = causas \cup {"remocao"}

LEMMA EfeitoRemocao ==
  ASSUME NEW R, NEW O, ApagaLinhas(R), Altera("remocao"),
         ordens' = [e \in Celulas |-> IF e \in O THEN SemOrdem ELSE ordens[e]]
  PROVE  Remocao
<1>1. \A t \in Tabelas : \A k \in Chaves(t) : linhas'[t][k] \in {{}, linhas[t][k]}
  <2>1. \A t \in Tabelas : linhas'[t] =
          [k \in Chaves(t) |-> IF <<t, k>> \in R THEN {} ELSE linhas[t][k]]
    BY EfeitoApagaLinhas
  <2>2. QED
    BY <2>1
<1>2. \A e \in Celulas : ordens'[e] \in {SemOrdem, ordens[e]}
  OBVIOUS
<1>3. QED
  BY <1>1, <1>2 DEF Remocao, Altera

LEMMA TipoDeleteCliente ==
  ASSUME TypeOK, NEW c \in Clientes, DeleteCliente(c)
  PROVE  TypeOK' /\ Remocao
<1> DEFINE frota == {v \in Frota : v % Tamanho["cliente"] = c /\ "id" \in linhas["veiculo"][v]}
           R     == {<<"cliente", c>>} \cup ({"veiculo"} \X frota)
           O     == {e \in Celulas : e[1] \in frota \/ (Presente(e) /\ ordens[e].cliente \in {c})}
<1>1. /\ ApagaLinhas(R) /\ ApagaOrdens({c}, frota) /\ Altera("remocao")
      /\ UNCHANGED <<fornecedor, contas>> /\ inativos' = inativos \ {c}
  BY DEF DeleteCliente
<1>2. ordens' = [e \in Celulas |-> IF e \in O THEN SemOrdem ELSE ordens[e]]
  BY <1>1 DEF ApagaOrdens
<1>3. \A e \in Celulas \ O : Presente(e) =>
        /\ <<"veiculo", e[1]>> \notin R
        /\ <<"cliente", ordens[e].cliente>> \notin R
        /\ <<"peca", (e[2] - 1) % Tamanho["peca"]>> \notin R
  OBVIOUS
<1>4. /\ \A u \in Chaves("usuario") : <<"usuario", u>> \notin R
      /\ \A d \in inativos' : <<"cliente", d>> \notin R
  BY <1>1
<1> HIDE DEF R, O
<1>5. TipoOrdens'
  BY <1>1, <1>2, <1>3, TipoOrdensRemovidas
<1>6. TipoLinhas'
  BY <1>1, TipoLinhasRemovidas DEF TypeOK
<1>7. TipoPessoas'
  BY <1>1, <1>4, TipoPessoasRemovidas
<1>8. Remocao
  BY <1>1, <1>2, EfeitoRemocao
<1>9. QED
  BY <1>1, <1>5, <1>6, <1>7, <1>8, TipoAltera DEF TypeOK, Causas

LEMMA TipoDeleteVeiculo ==
  ASSUME TypeOK, NEW v \in Frota, DeleteVeiculo(v)
  PROVE  TypeOK' /\ Remocao
<1> DEFINE R == {<<"veiculo", v>>}
           O == {e \in Celulas : e[1] \in {v} \/ (Presente(e) /\ ordens[e].cliente \in {})}
<1>1. /\ ApagaLinhas(R) /\ ApagaOrdens({}, {v}) /\ Altera("remocao")
      /\ UNCHANGED <<fornecedor, contas, inativos>>
  BY DEF DeleteVeiculo, pessoas
<1>2. ordens' = [e \in Celulas |-> IF e \in O THEN SemOrdem ELSE ordens[e]]
  BY <1>1 DEF ApagaOrdens
<1>3. \A e \in Celulas \ O : Presente(e) =>
        /\ <<"veiculo", e[1]>> \notin R
        /\ <<"cliente", ordens[e].cliente>> \notin R
        /\ <<"peca", (e[2] - 1) % Tamanho["peca"]>> \notin R
  OBVIOUS
<1>4. /\ \A u \in Chaves("usuario") : <<"usuario", u>> \notin R
      /\ \A d \in inativos' : <<"cliente", d>> \notin R
  BY <1>1
<1> HIDE DEF R, O
<1>5. TipoOrdens'
  BY <1>1, <1>2, <1>3, TipoOrdensRemovidas
<1>6. TipoLinhas'
  BY <1>1, TipoLinhasRemovidas DEF TypeOK
<1>7. TipoPessoas'
  BY <1>1, <1>4, TipoPessoasRemovidas
<1>8. Remocao
  BY <1>1, <1>2, EfeitoRemocao
<1>9. QED
  BY <1>1, <1>5, <1>6, <1>7, <1>8, TipoAltera DEF TypeOK, Causas

LEMMA TipoDeleteItem ==
  ASSUME TypeOK, NEW t \in {"servico", "peca"}, NEW k \in Chaves(t), DeleteItem(t, k)
  PROVE  TypeOK' /\ Remocao
<1> DEFINE R == {<<t, k>>}
           O == {}
<1>1. /\ ApagaLinhas(R) /\ Altera("remocao") /\ ~ Vinculado(t, k)
      /\ UNCHANGED <<ordens, fornecedor, contas, inativos>>
  BY DEF DeleteItem, pessoas
<1>2. ordens' = [e \in Celulas |-> IF e \in O THEN SemOrdem ELSE ordens[e]]
  BY <1>1 DEF TypeOK, TipoOrdens
<1>3. \A e \in Celulas \ O : Presente(e) =>
        /\ <<"veiculo", e[1]>> \notin R
        /\ <<"cliente", ordens[e].cliente>> \notin R
        /\ ordens[e].vinculada => <<"peca", (e[2] - 1) % Tamanho["peca"]>> \notin R
  BY <1>1 DEF Vinculado
<1>4. /\ \A u \in Chaves("usuario") : <<"usuario", u>> \notin R
      /\ \A d \in inativos' : <<"cliente", d>> \notin R
  BY <1>1
<1> HIDE DEF R, O
<1>5. TipoOrdens'
  BY <1>1, <1>2, <1>3, TipoOrdensRemovidas
<1>6. TipoLinhas'
  BY <1>1, TipoLinhasRemovidas DEF TypeOK
<1>7. TipoPessoas'
  BY <1>1, <1>4, TipoPessoasRemovidas
<1>8. Remocao
  BY <1>1, <1>2, EfeitoRemocao
<1>9. QED
  BY <1>1, <1>5, <1>6, <1>7, <1>8, TipoAltera DEF TypeOK, Causas

LEMMA TipoDeletarOrdem ==
  ASSUME TypeOK, NEW e \in Celulas, DeletarOrdem(e)
  PROVE  TypeOK' /\ Remocao
<1> DEFINE O == {e}
<1>1. Altera("remocao") /\ UNCHANGED <<linhas, fornecedor, contas, inativos>>
  BY DEF DeletarOrdem, pessoas
<1>2. ordens' = [d \in Celulas |-> IF d \in O THEN SemOrdem ELSE ordens[d]]
  BY DEF DeletarOrdem, TypeOK, TipoOrdens
<1>3. ApagaLinhas({})
  <2>1. /\ linhas = [t \in Tabelas |-> linhas[t]]
        /\ \A t \in Tabelas : linhas[t] = [k \in Chaves(t) |-> linhas[t][k]]
    BY DEF TypeOK, TipoLinhas
  <2>2. linhas = [t \in Tabelas |-> [k \in Chaves(t) |-> linhas[t][k]]]
    BY <2>1
  <2>3. QED
    BY <1>1, <2>2 DEF ApagaLinhas
<1> HIDE DEF O
<1>4. TipoOrdens'
  BY <1>2, <1>3, TipoOrdensRemovidas
<1>5. TipoLinhas'
  BY <1>3, TipoLinhasRemovidas DEF TypeOK
<1>6. TipoPessoas'
  BY <1>1, <1>3, TipoPessoasRemovidas DEF TypeOK
<1>7. Remocao
  BY <1>1, <1>2, <1>3, EfeitoRemocao
<1>8. QED
  BY <1>1, <1>4, <1>5, <1>6, <1>7, TipoAltera DEF TypeOK, Causas

\* A write that takes nothing from a row that an order may refer to.
LEMMA TipoEscrita ==
  ASSUME TypeOK, NEW t \in Tabelas, NEW k \in Chaves(t), NEW fatos, NEW causa \in Causas,
         TipoDaLinha(t, fatos), Linha(t, k, fatos), Altera(causa),
         UNCHANGED <<ordens, fornecedor, inativos>>,
         "chave" \in linhas[t][k] /\ t = "cliente" => "chave" \in fatos,
         "id" \in linhas[t][k] => "id" \in fatos,
         \/ t = "usuario" /\ "chave" \in fatos /\ \E c \in Conta : contas' = [contas EXCEPT ![k] = c]
         \/ t # "usuario" /\ UNCHANGED contas
  PROVE  TypeOK'
<1>1. TipoLinhas'
  BY TipoLinhaEscrita DEF TypeOK
<1>2. \A u \in Tabelas : linhas'[u] =
        [j \in Chaves(u) |-> IF u = t /\ j = k THEN fatos ELSE linhas[u][j]]
  BY EfeitoLinha DEF TypeOK
<1>3. ASSUME NEW u \in Tabelas, NEW j \in Chaves(u)
      PROVE  /\ "chave" \in linhas[u][j] /\ u = "cliente" => "chave" \in linhas'[u][j]
             /\ "id" \in linhas[u][j] => "id" \in linhas'[u][j]
  <2>1. linhas'[u][j] = IF u = t /\ j = k THEN fatos ELSE linhas[u][j]
    BY <1>2
  <2>2. QED
    BY <2>1
<1>4. TipoOrdens'
  BY <1>3, TipoOrdensRelidas
<1>5. TipoPessoas'
  <2>1. "usuario" \in Tabelas /\ "cliente" \in Tabelas
    BY DEF Tabelas
  <2>2. \A c \in inativos' : "chave" \in linhas'["cliente"][c]
    BY <1>3, <2>1, Mesmas DEF TypeOK, TipoPessoas
  <2>3. CASE t # "usuario"
    <3>1. linhas'["usuario"] = [j \in Chaves("usuario") |-> linhas["usuario"][j]]
      BY <1>2, <2>1, <2>3
    <3>2. QED
      BY <2>2, <2>3, <3>1, TipoPessoasMantidas
  <2>4. CASE t = "usuario"
    <3>1. PICK c \in Conta : contas' = [contas EXCEPT ![k] = c]
      BY <2>4
    <3>2. c # SemConta
      BY DEF Conta, SemConta
    <3>3. \A j \in Chaves("usuario") :
            linhas'["usuario"][j] = IF j = k THEN fatos ELSE linhas["usuario"][j]
      BY <1>2, <2>1, <2>4
    <3>4. "chave" \in fatos
      BY <2>4
    <3>5. contas \in [Chaves("usuario") -> Conta \cup {SemConta}] /\ k \in Chaves("usuario")
      BY <2>4 DEF TypeOK, TipoPessoas
    <3>6. contas' \in [Chaves("usuario") -> Conta \cup {SemConta}]
      BY <3>1, <3>5
    <3>7. \A j \in Chaves("usuario") : contas'[j] = IF j = k THEN c ELSE contas[j]
      BY <3>1, <3>5
    <3>8. ASSUME NEW j \in Chaves("usuario")
          PROVE  contas'[j] # SemConta <=> "chave" \in linhas'["usuario"][j]
      BY <3>2, <3>3, <3>4, <3>7 DEF TypeOK, TipoPessoas
    <3>9. QED
      BY <2>2, <3>6, <3>8 DEF TypeOK, TipoPessoas
  <2>5. QED
    BY <2>3, <2>4
<1>6. QED
  BY <1>1, <1>4, <1>5, TipoAltera DEF TypeOK

LEMMA TipoRegistrar ==
  ASSUME TypeOK, NEW t \in Tabelas, NEW k \in Chaves(t), Registrar(t, k)
  PROVE  TypeOK'
<1> DEFINE fatos == linhas[t][k] \cup {"chave"}
           causa == IF t = "veiculo" THEN "registro_veiculo" ELSE "registro"
<1>1. /\ Linha(t, k, fatos) /\ Altera(causa) /\ UNCHANGED <<ordens, fornecedor, inativos>>
      /\ "email" \notin linhas[t][k]
      /\ \/ t = "usuario" /\ \E c \in Conta : contas' = [contas EXCEPT ![k] = c]
         \/ t # "usuario" /\ UNCHANGED contas
  BY DEF Registrar
<1>2. TipoDaLinha(t, linhas[t][k])
  BY TiposDasLinhas DEF TypeOK
<1>3. TipoDaLinha(t, fatos)
  BY <1>1, <1>2 DEF TipoDaLinha, Fatos
<1>4. causa \in Causas
  BY DEF Causas
<1>5. "chave" \in fatos /\ ("id" \in linhas[t][k] => "id" \in fatos)
  OBVIOUS
<1> HIDE DEF fatos, causa
<1>6. QED
  BY <1>1, <1>3, <1>4, <1>5, TipoEscrita

LEMMA TipoRegistrarEmail ==
  ASSUME TypeOK, NEW c \in Clientes, RegistrarEmail(c)
  PROVE  TypeOK'
<1>1. /\ linhas["cliente"][c] = {} /\ Linha("cliente", c, {"email"}) /\ Altera("registro")
      /\ UNCHANGED <<ordens, fornecedor, contas, inativos>>
  BY DEF RegistrarEmail, pessoas
<1>2. TipoDaLinha("cliente", {"email"})
  BY DEF TipoDaLinha, Fatos
<1>3. "cliente" \in Tabelas /\ c \in Chaves("cliente") /\ "registro" \in Causas
  BY Mesmas DEF Tabelas, Causas
<1>4. QED
  BY <1>1, <1>2, <1>3, TipoEscrita

LEMMA TipoRenomearServico ==
  ASSUME TypeOK, NEW x \in Servicos, RenomearServico(x)
  PROVE  TypeOK'
<1>1. /\ Linha("servico", x, {"id"}) /\ Altera("renomeacao")
      /\ UNCHANGED <<ordens, fornecedor, contas, inativos>>
  BY DEF RenomearServico, pessoas
<1>2. TipoDaLinha("servico", {"id"})
  BY DEF TipoDaLinha, Fatos
<1>3. "servico" \in Tabelas /\ x \in Chaves("servico") /\ "renomeacao" \in Causas
  BY Mesmas DEF Tabelas, Causas
<1>4. QED
  BY <1>1, <1>2, <1>3, TipoEscrita

LEMMA TipoMudarAtivo ==
  ASSUME TypeOK, NEW c \in Clientes, MudarAtivo(c)
  PROVE  TypeOK' /\ UNCHANGED <<linhas, ordens>>
<1>1. /\ "chave" \in linhas["cliente"][c] /\ Altera("situacao")
      /\ inativos' = IF c \in inativos THEN inativos \ {c} ELSE inativos \cup {c}
      /\ UNCHANGED <<linhas, ordens, fornecedor, contas>>
  BY DEF MudarAtivo
<1>2. TipoPessoas'
  BY <1>1 DEF TypeOK, TipoPessoas
<1>3. TipoLinhas' /\ TipoOrdens'
  BY <1>1 DEF TypeOK, TipoLinhas, TipoOrdens
<1>4. "situacao" \in Causas
  BY DEF Causas
<1>5. QED
  BY <1>1, <1>2, <1>3, <1>4, TipoAltera DEF TypeOK

\* An order that changes keeps its vehicle and its customer, and has no items
\* it had not.
LEMMA TipoOrdemAlterada ==
  ASSUME TypeOK, NEW e \in Celulas, NEW o \in Ordem, NEW causa \in Causas,
         Presente(e), o.cliente = ordens[e].cliente, o.vinculada => ordens[e].vinculada,
         ordens' = [ordens EXCEPT ![e] = o], Altera(causa),
         UNCHANGED <<linhas, fornecedor, contas, inativos>>
  PROVE  TypeOK'
<1>1. ordens \in [Celulas -> Ordem]
  BY DEF TypeOK, TipoOrdens
<1>2. ordens' \in [Celulas -> Ordem]
  BY <1>1
<1>3. ASSUME NEW d \in Celulas, ordens'[d].st # "ausente"
      PROVE  Referencias(d, linhas', ordens'[d])
  <2>1. CASE d = e
    BY <1>1, <2>1 DEF TypeOK, TipoOrdens, Presente, Referencias
  <2>2. CASE d # e
    BY <1>1, <1>3, <2>2 DEF TypeOK, TipoOrdens, Referencias
  <2>3. QED
    BY <2>1, <2>2
<1>4. TipoOrdens'
  BY <1>2, <1>3, TipoOrdensDepois
<1>5. TipoLinhas' /\ TipoPessoas'
  BY DEF TypeOK, TipoLinhas, TipoPessoas
<1>6. QED
  BY <1>4, <1>5, TipoAltera DEF TypeOK

LEMMA TipoAvancarOrdem ==
  ASSUME TypeOK, NEW e \in Celulas, NEW m \in Avancos, NEW b \in BOOLEAN, AvancarOrdem(e, m, b)
  PROVE  TypeOK' /\ \A d \in Celulas : ordens'[d].st = ordens[d].st
<1> DEFINE o == [st |-> ordens[e].st, cliente |-> ordens[e].cliente, modelo |-> m, vinculada |-> b]
<1>1. /\ Presente(e) /\ (b => ordens[e].vinculada)
      /\ ordens' = [ordens EXCEPT ![e].modelo = m, ![e].vinculada = b]
      /\ Altera("progresso") /\ UNCHANGED <<linhas, fornecedor, contas, inativos>>
  BY DEF AvancarOrdem, pessoas
<1>2. ordens \in [Celulas -> Ordem] /\ ordens[e] \in Ordem
  BY DEF TypeOK, TipoOrdens
<1>3. ordens' = [ordens EXCEPT ![e] = o]
  <2>1. [[ordens[e] EXCEPT !.modelo = m] EXCEPT !.vinculada = b] = o
    <3>1. ordens[e] = [st |-> ordens[e].st, cliente |-> ordens[e].cliente,
                       modelo |-> ordens[e].modelo, vinculada |-> ordens[e].vinculada]
      BY <1>2 DEF Ordem
    <3> DEFINE q == [ordens[e] EXCEPT !.modelo = m]
    <3>2. q = [st |-> ordens[e].st, cliente |-> ordens[e].cliente,
               modelo |-> m, vinculada |-> ordens[e].vinculada]
      BY <3>1
    <3> HIDE DEF q
    <3>3. [q EXCEPT !.vinculada = b] = o
      BY <3>2
    <3>4. QED
      BY <3>3 DEF q
  <2>2. ordens' = [ordens EXCEPT ![e] = [[ordens[e] EXCEPT !.modelo = m] EXCEPT !.vinculada = b]]
    BY <1>1, <1>2
  <2>3. QED
    BY <2>1, <2>2
<1>4. o \in Ordem
  <2>1. m \in DadosDoModelo
    BY ExemplosTipados DEF Exemplos
  <2>2. QED
    BY <1>2, <2>1 DEF Ordem, DadosDoModelo
<1>5. o.cliente = ordens[e].cliente /\ o.st = ordens[e].st /\ o.vinculada = b
  OBVIOUS
<1> HIDE DEF o
<1>6. "progresso" \in Causas
  BY DEF Causas
<1>7. TypeOK'
  BY <1>1, <1>3, <1>4, <1>5, <1>6, TipoOrdemAlterada
<1>8. QED
  BY <1>2, <1>3, <1>5, <1>7

LEMMA TipoEditarDescricao ==
  ASSUME TypeOK, NEW e \in Celulas, EditarDescricao(e)
  PROVE  TypeOK' /\ \A d \in Celulas : d # e => ordens'[d] = ordens[d]
<1> DEFINE o == [ordens[e] EXCEPT !.st = "editada"]
<1>1. /\ ordens[e].st = "semente" /\ ordens' = [ordens EXCEPT ![e].st = "editada"]
      /\ Altera("descricao") /\ UNCHANGED <<linhas, fornecedor, contas, inativos>>
  BY DEF EditarDescricao, pessoas
<1>2. ordens \in [Celulas -> Ordem] /\ ordens[e] \in Ordem
  BY DEF TypeOK, TipoOrdens
<1>3. ordens' = [ordens EXCEPT ![e] = o]
  BY <1>1
<1>4. o \in Ordem /\ o.cliente = ordens[e].cliente /\ o.vinculada = ordens[e].vinculada
  BY <1>2 DEF Ordem
<1> HIDE DEF o
<1>5. "descricao" \in Causas /\ Presente(e)
  BY <1>1 DEF Causas, Presente
<1>6. TypeOK'
  BY <1>1, <1>3, <1>4, <1>5, TipoOrdemAlterada
<1>7. QED
  BY <1>2, <1>3, <1>6

-----------------------------------------------------------------------------
(* The requests keep the rest of the invariant.                            *)

\* The kinds of request: a removal, a registration, a change of an order.
LEMMA RequisicaoMantem ==
  ASSUME InvarianteCarga, Requisicao,
         Remocao => FrotaInteira' /\ SemObstaculo',
         \A t \in Tabelas : \A k \in Chaves(t) : Registrar(t, k) => FrotaInteira' /\ SemObstaculo',
         \A c \in Clientes : RegistrarEmail(c) => FrotaInteira' /\ SemObstaculo',
         \A c \in Clientes : MudarAtivo(c) => FrotaInteira' /\ SemObstaculo',
         \A x \in Servicos : RenomearServico(x) => FrotaInteira' /\ SemObstaculo',
         \A e \in Celulas : \A m \in Avancos : \A b \in BOOLEAN :
           AvancarOrdem(e, m, b) => FrotaInteira' /\ SemObstaculo',
         \A e \in Celulas : EditarDescricao(e) => FrotaInteira' /\ SemObstaculo'
  PROVE  InvarianteCarga'
<1> USE DEF InvarianteCarga
<1>1. ASSUME NEW causa, Altera(causa)
      PROVE  Carregada'
  <2>1. alteracoes' = alteracoes + 1 /\ naCarga' = naCarga
    BY <1>1 DEF Altera
  <2>2. naCarga <= alteracoes /\ naCarga \in Int /\ alteracoes \in Int
    BY DEF Carregada, TypeOK
  <2>3. naCarga' <= alteracoes' /\ naCarga' # alteracoes'
    BY <2>1, <2>2
  <2>4. QED
    BY <2>3 DEF Carregada
<1>2. CASE \E c \in Clientes : DeleteCliente(c)
  <2>1. PICK c \in Clientes : DeleteCliente(c)
    BY <1>2
  <2>2. TypeOK' /\ Remocao
    BY <2>1, TipoDeleteCliente
  <2>3. Carregada'
    BY <1>1, <2>1 DEF DeleteCliente
  <2>4. QED
    BY <2>2, <2>3
<1>3. CASE \E c \in Clientes : RegistrarEmail(c)
  <2>1. PICK c \in Clientes : RegistrarEmail(c)
    BY <1>3
  <2>2. TypeOK'
    BY <2>1, TipoRegistrarEmail
  <2>3. Carregada'
    BY <1>1, <2>1 DEF RegistrarEmail
  <2>4. QED
    BY <2>1, <2>2, <2>3
<1>4. CASE \E v \in Frota : DeleteVeiculo(v)
  <2>1. PICK v \in Frota : DeleteVeiculo(v)
    BY <1>4
  <2>2. TypeOK' /\ Remocao
    BY <2>1, TipoDeleteVeiculo
  <2>3. Carregada'
    BY <1>1, <2>1 DEF DeleteVeiculo
  <2>4. QED
    BY <2>2, <2>3
<1>5. CASE \E t \in Tabelas : \E k \in Chaves(t) : Registrar(t, k)
  <2>1. PICK t \in Tabelas : \E k \in Chaves(t) : Registrar(t, k)
    BY <1>5
  <2>2. PICK k \in Chaves(t) : Registrar(t, k)
    BY <2>1
  <2>3. TypeOK'
    BY <2>2, TipoRegistrar
  <2>4. Carregada'
    BY <1>1, <2>2 DEF Registrar
  <2>5. QED
    BY <2>2, <2>3, <2>4
<1>6. CASE \E t \in {"servico", "peca"} : \E k \in Chaves(t) : DeleteItem(t, k)
  <2>1. PICK t \in {"servico", "peca"} : \E k \in Chaves(t) : DeleteItem(t, k)
    BY <1>6
  <2>2. PICK k \in Chaves(t) : DeleteItem(t, k)
    BY <2>1
  <2>3. TypeOK' /\ Remocao
    BY <2>2, TipoDeleteItem
  <2>4. Carregada'
    BY <1>1, <2>2 DEF DeleteItem
  <2>5. QED
    BY <2>3, <2>4
<1>7. CASE \E x \in Servicos : RenomearServico(x)
  <2>1. PICK x \in Servicos : RenomearServico(x)
    BY <1>7
  <2>2. TypeOK'
    BY <2>1, TipoRenomearServico
  <2>3. Carregada'
    BY <1>1, <2>1 DEF RenomearServico
  <2>4. QED
    BY <2>1, <2>2, <2>3
<1>8. CASE \E e \in Celulas : \E m \in Avancos, b \in BOOLEAN : AvancarOrdem(e, m, b)
  <2>1. PICK e \in Celulas, m \in Avancos, b \in BOOLEAN : AvancarOrdem(e, m, b)
    BY <1>8
  <2>2. TypeOK'
    BY <2>1, TipoAvancarOrdem
  <2>3. Carregada'
    BY <1>1, <2>1 DEF AvancarOrdem
  <2>4. QED
    BY <2>1, <2>2, <2>3
<1>9. CASE \E e \in Celulas : EditarDescricao(e)
  <2>1. PICK e \in Celulas : EditarDescricao(e)
    BY <1>9
  <2>2. TypeOK'
    BY <2>1, TipoEditarDescricao
  <2>3. Carregada'
    BY <1>1, <2>1 DEF EditarDescricao
  <2>4. QED
    BY <2>1, <2>2, <2>3
<1>10. CASE \E e \in Celulas : DeletarOrdem(e)
  <2>1. PICK e \in Celulas : DeletarOrdem(e)
    BY <1>10
  <2>2. TypeOK' /\ Remocao
    BY <2>1, TipoDeletarOrdem
  <2>3. Carregada'
    BY <1>1, <2>1 DEF DeletarOrdem
  <2>4. QED
    BY <2>2, <2>3
<1>11. CASE \E c \in Clientes : MudarAtivo(c)
  <2>1. PICK c \in Clientes : MudarAtivo(c)
    BY <1>11
  <2>2. TypeOK'
    BY <2>1, TipoMudarAtivo
  <2>3. Carregada'
    BY <1>1, <2>1 DEF MudarAtivo
  <2>4. QED
    BY <2>1, <2>2, <2>3
<1>12. QED
  BY <1>2, <1>3, <1>4, <1>5, <1>6, <1>7, <1>8, <1>9, <1>10, <1>11, Mesmas DEF Requisicao

\* What is gone is neither in the way nor out of place.
LEMMA MantidoPorRemocao ==
  ASSUME FrotaInteira, SemObstaculo, Remocao
  PROVE  FrotaInteira' /\ SemObstaculo'
<1>1. causas \subseteq causas'
  BY DEF Remocao
<1>2. \A e \in Celulas : ordens'[e] \in {SemOrdem, ordens[e]}
  BY DEF Remocao
<1>3. \A t \in Tabelas : \A k \in Chaves(t) : linhas'[t][k] \in {{}, linhas[t][k]}
  BY DEF Remocao
<1>4. FrotaInteira'
  <2>1. SUFFICES ASSUME "registro_veiculo" \notin causas'
                 PROVE  /\ \A v \in Frota : linhas'["veiculo"][v] \in {{}, Nova}
                        /\ \A e \in Celulas : ordens'[e].st # "ausente" => e \in Distribuicao(Frota)
    BY DEF FrotaInteira, Presente
  <2>2. \A v \in Frota : linhas'["veiculo"][v] \in {{}, Nova}
    BY <1>1, <1>3, <2>1, Mesmas DEF FrotaInteira, Tabelas
  <2>3. ASSUME NEW e \in Celulas, ordens'[e].st # "ausente"
        PROVE  e \in Distribuicao(Frota)
    BY <1>1, <1>2, <2>1, <2>3 DEF FrotaInteira, Presente, SemOrdem
  <2>4. QED
    BY <2>2, <2>3
<1>5. SemObstaculo'
  <2>1. SUFFICES ASSUME causas' \subseteq {"remocao", "progresso", "situacao", "registro_veiculo"}
                 PROVE  /\ \A t \in Tabelas : \A k \in Chaves(t) : Conciliavel(t, linhas'[t][k])
                        /\ \A e \in Celulas : ordens'[e].st # "editada"
    BY DEF SemObstaculo
  <2>2. causas \subseteq {"remocao", "progresso", "situacao", "registro_veiculo"}
    BY <1>1, <2>1
  <2>3. \A e \in Celulas : ordens'[e].st # "editada"
    BY <1>2, <2>2 DEF SemObstaculo, SemOrdem
  <2>4. \A t \in Tabelas : \A k \in Chaves(t) : Conciliavel(t, linhas'[t][k])
    BY <1>3, <2>2 DEF SemObstaculo, Conciliavel
  <2>5. QED
    BY <2>3, <2>4
<1>6. QED
  BY <1>4, <1>5

\* A write of one row, when the vehicles are untouched or the kind of change
\* says that one was registered, and the row can be lived with or the kind says
\* that it may not.
LEMMA MantidoPorEscrita ==
  ASSUME TypeOK, FrotaInteira, SemObstaculo, NEW t \in Tabelas, NEW k \in Chaves(t), NEW fatos,
         NEW causa, Linha(t, k, fatos), Altera(causa), UNCHANGED ordens,
         t = "veiculo" => causa = "registro_veiculo",
         causa \in {"remocao", "progresso", "situacao", "registro_veiculo"} /\ Conciliavel(t, linhas[t][k])
           => Conciliavel(t, fatos)
  PROVE  FrotaInteira' /\ SemObstaculo'
<1>1. causas' = causas \cup {causa}
  BY DEF Altera
<1>2. \A u \in Tabelas : linhas'[u] =
        [j \in Chaves(u) |-> IF u = t /\ j = k THEN fatos ELSE linhas[u][j]]
  BY EfeitoLinha DEF TypeOK
<1>3. FrotaInteira'
  <2>1. SUFFICES ASSUME "registro_veiculo" \notin causas'
                 PROVE  /\ \A v \in Frota : linhas'["veiculo"][v] \in {{}, Nova}
                        /\ \A e \in Celulas : ordens'[e].st # "ausente" => e \in Distribuicao(Frota)
    BY DEF FrotaInteira, Presente
  <2>2. t # "veiculo" /\ "registro_veiculo" \notin causas
    BY <1>1, <2>1
  <2>3. \A v \in Frota : linhas'["veiculo"][v] = linhas["veiculo"][v]
    BY <1>2, <2>2, Mesmas DEF Tabelas
  <2>4. QED
    BY <2>2, <2>3 DEF FrotaInteira, Presente
<1>4. SemObstaculo'
  <2>1. SUFFICES ASSUME causas' \subseteq {"remocao", "progresso", "situacao", "registro_veiculo"}
                 PROVE  /\ \A u \in Tabelas : \A j \in Chaves(u) : Conciliavel(u, linhas'[u][j])
                        /\ \A e \in Celulas : ordens'[e].st # "editada"
    BY DEF SemObstaculo
  <2>2. /\ causas \subseteq {"remocao", "progresso", "situacao", "registro_veiculo"}
        /\ causa \in {"remocao", "progresso", "situacao", "registro_veiculo"}
    BY <1>1, <2>1
  <2>3. ASSUME NEW u \in Tabelas, NEW j \in Chaves(u)
        PROVE  Conciliavel(u, linhas'[u][j])
    <3>1. linhas'[u][j] = IF u = t /\ j = k THEN fatos ELSE linhas[u][j]
      BY <1>2
    <3>2. Conciliavel(u, linhas[u][j])
      BY <2>2 DEF SemObstaculo
    <3>3. QED
      BY <2>2, <3>1, <3>2
  <2>4. QED
    BY <2>2, <2>3 DEF SemObstaculo
<1>5. QED
  BY <1>3, <1>4

LEMMA InvarianteRequisicao ==
  ASSUME InvarianteCarga, Requisicao
  PROVE  InvarianteCarga'
<1>1. TypeOK /\ FrotaInteira /\ SemObstaculo
  BY DEF InvarianteCarga
<1>2. Remocao => FrotaInteira' /\ SemObstaculo'
  BY <1>1, MantidoPorRemocao
<1>3. ASSUME NEW t \in Tabelas, NEW k \in Chaves(t), Registrar(t, k)
      PROVE  FrotaInteira' /\ SemObstaculo'
  <2> DEFINE fatos == linhas[t][k] \cup {"chave"}
             causa == IF t = "veiculo" THEN "registro_veiculo" ELSE "registro"
  <2>1. /\ Linha(t, k, fatos) /\ Altera(causa) /\ UNCHANGED ordens
        /\ "chave" \notin linhas[t][k]
    BY <1>3 DEF Registrar
  <2>2. t = "veiculo" => causa = "registro_veiculo"
    OBVIOUS
  <2>3. causa \in {"remocao", "progresso", "situacao", "registro_veiculo"} /\ Conciliavel(t, linhas[t][k])
          => Conciliavel(t, fatos)
    BY <2>1 DEF Conciliavel, Nova
  <2> HIDE DEF fatos, causa
  <2>4. QED
    BY <1>1, <2>1, <2>2, <2>3, MantidoPorEscrita
<1>4. ASSUME NEW c \in Clientes, RegistrarEmail(c)
      PROVE  FrotaInteira' /\ SemObstaculo'
  <2>1. Linha("cliente", c, {"email"}) /\ Altera("registro") /\ UNCHANGED ordens
    BY <1>4 DEF RegistrarEmail
  <2>2. "cliente" \in Tabelas /\ c \in Chaves("cliente")
    BY Mesmas DEF Tabelas
  <2>3. QED
    BY <1>1, <2>1, <2>2, MantidoPorEscrita
<1>5. ASSUME NEW x \in Servicos, RenomearServico(x)
      PROVE  FrotaInteira' /\ SemObstaculo'
  <2>1. Linha("servico", x, {"id"}) /\ Altera("renomeacao") /\ UNCHANGED ordens
    BY <1>5 DEF RenomearServico
  <2>2. "servico" \in Tabelas /\ x \in Chaves("servico")
    BY Mesmas DEF Tabelas
  <2>3. QED
    BY <1>1, <2>1, <2>2, MantidoPorEscrita
<1>6. ASSUME NEW e \in Celulas, NEW m \in Avancos, NEW b \in BOOLEAN, AvancarOrdem(e, m, b)
      PROVE  FrotaInteira' /\ SemObstaculo'
  <2>1. \A d \in Celulas : ordens'[d].st = ordens[d].st
    BY <1>1, <1>6, TipoAvancarOrdem
  <2>2. UNCHANGED linhas /\ causas' = causas \cup {"progresso"}
    BY <1>6 DEF AvancarOrdem, Altera
  <2>3. QED
    BY <1>1, <2>1, <2>2 DEF FrotaInteira, SemObstaculo, Presente
<1>7. ASSUME NEW e \in Celulas, EditarDescricao(e)
      PROVE  FrotaInteira' /\ SemObstaculo'
  <2>1. \A d \in Celulas : d # e => ordens'[d] = ordens[d]
    BY <1>1, <1>7, TipoEditarDescricao
  <2>2. UNCHANGED linhas /\ causas' = causas \cup {"descricao"} /\ ordens[e].st = "semente"
    BY <1>7 DEF EditarDescricao, Altera
  <2>3. \A d \in Celulas : ordens'[d].st # "ausente" => ordens[d].st # "ausente"
    BY <2>1, <2>2
  <2>4. FrotaInteira'
    BY <1>1, <2>2, <2>3 DEF FrotaInteira, Presente
  <2>5. SemObstaculo'
    BY <2>2 DEF SemObstaculo
  <2>6. QED
    BY <2>4, <2>5
<1>8. ASSUME NEW c \in Clientes, MudarAtivo(c)
      PROVE  FrotaInteira' /\ SemObstaculo'
  <2>1. UNCHANGED <<linhas, ordens>> /\ causas' = causas \cup {"situacao"}
    BY <1>8 DEF MudarAtivo, Altera
  <2>2. QED
    BY <1>1, <2>1 DEF FrotaInteira, SemObstaculo, Presente
<1>9. QED
  BY <1>2, <1>3, <1>4, <1>5, <1>6, <1>7, <1>8, RequisicaoMantem

-----------------------------------------------------------------------------
(* The seed keeps the rest of the invariant.                               *)

LEMMA EfeitoSeed ==
  ASSUME Seed, NEW t \in Tabelas, NEW k \in Chaves(t)
  PROVE  linhas'[t] = Semeia(t) /\ linhas'[t][k] = Semeia(t)[k]
BY DEF Seed

\* The vehicles that are chosen are chosen again.
LEMMA EscolhidasDepois ==
  ASSUME TypeOK, Seed
  PROVE  Escolhidas' = Escolhidas
<1>1. \A v \in Frota : Semeia("veiculo")[v] = linhas'["veiculo"][v]
                       /\ "chave" \in linhas'["veiculo"][v]
  BY EfeitoSeed, EfeitoSemeia, Mesmas DEF Tabelas, TypeOK
<1>2. \A v \in Frota : Semeia("veiculo")'[v] = linhas'["veiculo"][v]
  BY <1>1, Mesmas DEF Semeia
<1>3. SeededVehicles' = {v \in Frota : "id" \in Semeia("veiculo")'[v]}
  BY DEF SeededVehicles
<1>4. SeededVehicles' = SeededVehicles
  BY <1>1, <1>2, <1>3 DEF SeededVehicles
<1>5. Escolhidas' = Distribuicao(SeededVehicles')
  BY DEF Escolhidas
<1>6. QED
  BY <1>4, <1>5 DEF Escolhidas

\* An order the seed has left is left as it is.
LEMMA OrdemRepetida ==
  ASSUME TypeOK, Seed, NEW e \in Escolhidas
  PROVE  ordens'[e] = SeedOrdem(e) /\ SeedOrdem(e)' = SeedOrdem(e)
<1>1. ordens'[e] = SeedOrdem(e)
  BY EscolhidasTipadas DEF Seed
<1>2. SeedOrdem(e).modelo = IF Modelos[e[2]].orcamento # SemOrcamento THEN Modelos[e[2]]
                            ELSE Modelo(Modelos[e[2]].status, ordens[e].modelo.orcamento)
  BY DEF SeedOrdem
<1>3. Modelos[e[2]].orcamento = SemOrcamento =>
        ordens'[e].modelo.orcamento = ordens[e].modelo.orcamento
  BY <1>1, <1>2 DEF Modelo
<1>4. QED
  BY <1>1, <1>3 DEF SeedOrdem

LEMMA InvarianteSeed ==
  ASSUME InvarianteCarga, Seed
  PROVE  InvarianteCarga'
<1>1. TypeOK /\ FrotaInteira /\ SemObstaculo /\ Carregada
  BY DEF InvarianteCarga
<1>2. TypeOK'
  BY <1>1, TipoSeed
<1>3. \A t \in Tabelas : \A k \in Chaves(t) :
        /\ linhas'[t][k] = IF "chave" \in linhas[t][k] THEN linhas[t][k] ELSE Nova
        /\ "chave" \in linhas'[t][k]
  BY <1>1, EfeitoSeed, EfeitoSemeia DEF TypeOK
<1>4. ordens' = [e \in Celulas |-> IF e \in Escolhidas THEN SeedOrdem(e) ELSE ordens[e]]
  BY DEF Seed
<1>5. causas' = causas
  BY DEF Seed
<1>6. FrotaInteira'
  <2>1. SUFFICES ASSUME "registro_veiculo" \notin causas
                 PROVE  /\ \A v \in Frota : linhas'["veiculo"][v] \in {{}, Nova}
                        /\ \A e \in Celulas : ordens'[e].st # "ausente" => e \in Distribuicao(Frota)
    BY <1>5 DEF FrotaInteira, Presente
  <2>2. \A v \in Frota : linhas["veiculo"][v] \in {{}, Nova}
    BY <1>1, <2>1 DEF FrotaInteira
  <2>3. \A v \in Frota : linhas'["veiculo"][v] = Nova
    BY <1>3, <2>2, Mesmas DEF Tabelas, Nova
  <2>4. \A v \in Frota : Semeia("veiculo")[v] = Nova
    BY <2>3, EfeitoSeed, Mesmas DEF Tabelas
  <2>5. SeededVehicles = Frota
    BY <2>4 DEF SeededVehicles, Nova
  <2>6. Escolhidas = Distribuicao(Frota)
    BY <2>5 DEF Escolhidas
  <2>7. \A e \in Celulas : ordens'[e].st # "ausente" => e \in Distribuicao(Frota)
    BY <1>1, <1>4, <2>1, <2>6 DEF FrotaInteira, Presente
  <2>8. QED
    BY <2>3, <2>7
<1>7. SemObstaculo'
  <2>1. SUFFICES ASSUME causas \subseteq {"remocao", "progresso", "situacao", "registro_veiculo"}
                 PROVE  /\ \A t \in Tabelas : \A k \in Chaves(t) : Conciliavel(t, linhas'[t][k])
                        /\ \A e \in Celulas : ordens'[e].st # "editada"
    BY <1>5 DEF SemObstaculo
  <2>2. \A t \in Tabelas : \A k \in Chaves(t) : Conciliavel(t, linhas'[t][k])
    BY <1>1, <1>3, <2>1 DEF SemObstaculo, Conciliavel
  <2>3. \A e \in Celulas : SeedOrdem(e).st = "semente"
    BY DEF SeedOrdem
  <2>4. \A e \in Celulas : ordens'[e].st # "editada"
    BY <1>1, <1>4, <2>1, <2>3 DEF SemObstaculo
  <2>5. QED
    BY <2>2, <2>4
<1>8. Carregada'
  <2>1. naCarga' = alteracoes /\ alteracoes' = alteracoes /\ fornecedor' = TRUE
    BY DEF Seed
  <2>2. alteracoes \in Int
    BY <1>1 DEF TypeOK
  <2>3. \A e \in Escolhidas' : ordens'[e] = SeedOrdem(e)'
    BY <1>1, EscolhidasDepois, OrdemRepetida
  <2>4. \A u \in Chaves("usuario") : contas'[u].perfil = "semente" /\ contas'[u].senha = "semente"
    BY DEF Seed, SeedUser
  <2>5. inativos' \cap ComAtivo = {}
    BY DEF Seed
  <2>6. QED
    BY <1>3, <2>1, <2>2, <2>3, <2>4, <2>5 DEF Carregada
<1>9. QED
  BY <1>2, <1>6, <1>7, <1>8 DEF InvarianteCarga

-----------------------------------------------------------------------------
(* The invariant.                                                          *)

LEMMA InicioCarga ==
  ASSUME Init
  PROVE  InvarianteCarga
<1> USE DEF Init
<1>1. TipoLinhas
  <2>1. linhas = [t \in Tabelas |-> [k \in Chaves(t) |-> {}]]
    OBVIOUS
  <2>2. \A t \in Tabelas : linhas[t] = [k \in Chaves(t) |-> {}]
    BY <2>1
  <2>3. linhas = [t \in Tabelas |-> linhas[t]]
    BY <2>1
  <2>4. QED
    BY <2>2, <2>3 DEF TipoLinhas
<1>2. TipoOrdens
  BY SemOrdemTipada DEF TipoOrdens, SemOrdem
<1>3. TypeOK
  <2>1. MaxAlteracoes \in Nat
    BY Parametros
  <2>2. alteracoes \in 0 .. MaxAlteracoes /\ naCarga \in -1 .. MaxAlteracoes
    BY <2>1
  <2>3. fornecedor \in BOOLEAN /\ causas \subseteq Causas
    OBVIOUS
  <2>4. TipoPessoas
    BY DEF TipoPessoas, Tabelas
  <2>5. QED
    BY <1>1, <1>2, <2>2, <2>3, <2>4 DEF TypeOK
<1>4. FrotaInteira
  BY Mesmas DEF FrotaInteira, Presente, SemOrdem, Tabelas
<1>5. SemObstaculo
  BY DEF SemObstaculo, Conciliavel, SemOrdem
<1>6. Carregada
  BY DEF Carregada
<1>7. QED
  BY <1>3, <1>4, <1>5, <1>6 DEF InvarianteCarga

LEMMA PassoCarga ==
  ASSUME InvarianteCarga, [Next]_vars
  PROVE  InvarianteCarga'
<1>1. CASE Seed
  BY <1>1, InvarianteSeed
<1>2. CASE Requisicao
  BY <1>2, InvarianteRequisicao
<1>3. CASE UNCHANGED vars
  <2>1. UNCHANGED <<linhas, ordens, fornecedor, contas, inativos, alteracoes, naCarga, causas>>
    BY <1>3 DEF vars, banco, pessoas
  <2>2. TypeOK'
    BY <2>1 DEF InvarianteCarga, TypeOK, TipoLinhas, TipoOrdens, TipoPessoas
  <2>3. FrotaInteira' /\ SemObstaculo'
    BY <2>1 DEF InvarianteCarga, FrotaInteira, SemObstaculo, Presente
  <2>4. Semeia("veiculo")' = Semeia("veiculo")
    BY <2>1 DEF Semeia
  <2>5. Escolhidas' = Escolhidas
    BY <2>4 DEF Escolhidas, SeededVehicles
  <2>6. \A e \in Escolhidas : SeedOrdem(e)' = SeedOrdem(e)
    BY <2>1 DEF SeedOrdem
  <2>7. Carregada'
    BY <2>1, <2>5, <2>6 DEF InvarianteCarga, Carregada
  <2>8. QED
    BY <2>2, <2>3, <2>7 DEF InvarianteCarga
<1>4. QED
  BY <1>1, <1>2, <1>3 DEF Next, SeedFalha

LEMMA CargaCorreta == Spec => []InvarianteCarga
<1>1. Init => InvarianteCarga
  BY InicioCarga
<1>2. InvarianteCarga /\ [Next]_vars => InvarianteCarga'
  BY PassoCarga
<1>3. QED
  BY <1>1, <1>2, PTL DEF Spec

\* The references between rows hold in every state: no removal leaves an order
\* without its vehicle, its customer or the part of its items, and the seed
\* creates none without them.
THEOREM TipoCorreto == Spec => []TypeOK
<1>1. InvarianteCarga => TypeOK
  BY DEF InvarianteCarga
<1>2. QED
  BY <1>1, CargaCorreta, PTL

\* Until a request registers a plate of the seed, every template has one order
\* at most, on the vehicle of its turn, however often the seed runs and
\* whatever is removed, edited or advanced in between.
THEOREM UmaOrdemSempre == Spec => []UmaOrdemPorModelo
<1>1. ASSUME InvarianteCarga
      PROVE  UmaOrdemPorModelo
  <2>1. SUFFICES ASSUME "registro_veiculo" \notin causas,
                        NEW d \in Celulas, NEW e \in Celulas,
                        Presente(d), Presente(e), d[2] = e[2]
                 PROVE  d = e
    BY DEF UmaOrdemPorModelo
  <2>2. d \in Distribuicao(Frota) /\ e \in Distribuicao(Frota)
    BY <1>1, <2>1 DEF InvarianteCarga, FrotaInteira
  <2>3. /\ d[1] \in Frota /\ e[1] \in Frota
        /\ Posicao(Frota, d[1]) = Posicao(Frota, e[1])
    BY <2>1, <2>2 DEF Distribuicao, Veiculos
  <2>4. d[1] = e[1]
    BY <2>3, PosicaoInjetiva
  <2>5. QED
    BY <2>1, <2>4 DEF Celulas
<1>2. QED
  BY <1>1, CargaCorreta, PTL

\* Removals, the progress of orders and plates that requests register never
\* make the seed fail.
THEOREM RemocaoNuncaImpedeCarga == Spec => []RemocaoNaoImpedeCarga
<1>1. ASSUME InvarianteCarga
      PROVE  RemocaoNaoImpedeCarga
  <2>1. SUFFICES ASSUME causas \subseteq {"remocao", "progresso", "situacao", "registro_veiculo"}
                 PROVE  PodeCarregar
    BY DEF RemocaoNaoImpedeCarga
  <2>2. \A t \in Tabelas : \A k \in Chaves(t) : Conciliavel(t, linhas[t][k])
    BY <1>1, <2>1 DEF InvarianteCarga, SemObstaculo
  <2>3. \A t \in Tabelas : ~ Colide(t)
    BY <2>2 DEF Colide, Conciliavel, Nova
  <2>4. ASSUME NEW t \in {"servico", "peca"}, NEW k \in Chaves(t)
        PROVE  "id" \in Semeia(t)[k]
    BY <1>1, <2>2, EfeitoSemeia DEF Conciliavel, Nova, Tabelas, InvarianteCarga, TypeOK
  <2>5. ASSUME NEW e \in Escolhidas
        PROVE  ~ OrdemColide(e) /\ ItemExiste(e)
    <3>1. e \in Celulas /\ e[2] \in DOMAIN Modelos
      BY EscolhidasTipadas
    <3>2. ~ OrdemColide(e)
      BY <1>1, <2>1, <3>1 DEF InvarianteCarga, SemObstaculo, OrdemColide
    <3>3. /\ (e[2] - 1) % Tamanho["servico"] \in Chaves("servico")
          /\ (e[2] - 1) % Tamanho["peca"] \in Chaves("peca")
      BY <3>1, VoltaNaTabela DEF Tabelas
    <3>4. QED
      BY <2>4, <3>2, <3>3 DEF ItemExiste
  <2>6. "id" \in Semeia("peca")[0]
    BY <2>4, ChavesNaturais DEF Tabelas
  <2>7. QED
    BY <2>3, <2>5, <2>6 DEF PodeCarregar
<1>2. QED
  BY <1>1, CargaCorreta, PTL

\* A seed that is run again with nothing changed since leaves the rows of its
\* tables, the orders and the activity of the customers as they are, and the
\* accounts with the same names, roles and passwords, whose hashes it renews,
\* for any tables, templates and customers it says are active.
THEOREM CargaSempreIdempotente == Spec => CargaIdempotente
<1> DEFINE Igual == /\ UNCHANGED <<linhas, ordens, fornecedor, inativos>>
                    /\ \A u \in Chaves("usuario") : /\ contas'[u].perfil = contas[u].perfil
                                                   /\ contas'[u].senha = contas[u].senha
<1>1. ASSUME InvarianteCarga, Seed, alteracoes = naCarga
      PROVE  Igual
  <2>1. TypeOK /\ Carregada
    BY <1>1 DEF InvarianteCarga
  <2>2. \A t \in Tabelas : \A k \in Chaves(t) : "chave" \in linhas[t][k]
    BY <1>1, <2>1 DEF Carregada
  <2>3. /\ linhas = [t \in Tabelas |-> linhas[t]]
        /\ \A t \in Tabelas : linhas[t] = [k \in Chaves(t) |-> linhas[t][k]]
    BY <2>1 DEF TypeOK, TipoLinhas
  <2>4. \A t \in Tabelas : Semeia(t) = linhas[t]
    BY <2>2, <2>3 DEF Semeia
  <2>5. linhas' = linhas
    BY <1>1, <2>3, <2>4 DEF Seed
  <2>6. \A e \in Escolhidas : SeedOrdem(e) = ordens[e]
    BY <1>1, <2>1 DEF Carregada
  <2>7. ordens = [e \in Celulas |-> ordens[e]]
    BY <2>1 DEF TypeOK, TipoOrdens
  <2>8. ordens' = ordens
    BY <1>1, <2>6, <2>7 DEF Seed
  <2>9. fornecedor' = fornecedor
    BY <1>1, <2>1 DEF Seed, Carregada
  <2>10. inativos' = inativos
    BY <1>1, <2>1 DEF Seed, Carregada
  <2>11. ASSUME NEW u \in Chaves("usuario")
         PROVE  contas'[u].perfil = contas[u].perfil /\ contas'[u].senha = contas[u].senha
    <3>1. contas'[u].perfil = "semente" /\ contas'[u].senha = "semente"
      BY <1>1 DEF Seed, SeedUser
    <3>2. contas[u].perfil = "semente" /\ contas[u].senha = "semente"
      BY <1>1, <2>1 DEF Carregada
    <3>3. QED
      BY <3>1, <3>2
  <2>12. QED
    BY <2>5, <2>8, <2>9, <2>10, <2>11
<1>2. InvarianteCarga => [Seed /\ alteracoes = naCarga => Igual]_vars
  BY <1>1
<1>3. QED
  BY <1>2, CargaCorreta, PTL DEF CargaIdempotente

=============================================================================
