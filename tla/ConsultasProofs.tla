-------------------------- MODULE ConsultasProofs --------------------------
(***************************************************************************)
(* Proofs about Consultas, for any rows, terms, page sizes and instants.   *)
(*                                                                         *)
(* A page is a window on an order of the rows that each query chooses. A   *)
(* row with an instant of its own has the same place in all of them: the   *)
(* number of rows that come before it. The reader misses none as long as   *)
(* that number never falls below the rows it has skipped.                  *)
(***************************************************************************)
EXTENDS Consultas, FiniteSetTheorems, SequenceTheorems, TLAPS

-----------------------------------------------------------------------------
(* The inductive invariant.                                                *)

Lista == Seleciona(leitor.modo, leitor.busca)

\* How many rows come before x.
Frente(x) == {y \in Lista : Antes(leitor.modo, y, x)}
Lugar(x)  == Cardinality(Frente(x))

Lendo == leitor.pc # "parado"
Lidas == ToSet(leitor.lidas)
Pulo  == (leitor.pagina - 1) * leitor.limite

\* While a page is under way, and what the history says of the rows.
Curso ==
  /\ leitor.falta # {} => leitor.pc = "pagina"
  /\ leitor.pc = "pagina" => leitor.pagina >= 1
  /\ Lendo => leitor.intactas \subseteq Lista
  /\ Lendo /\ leitor.quieta => leitor.intactas = Lista /\ ~ leitor.saiu

\* A row that stayed has been read, is in the page, or is yet to come.
Aguarda(x) ==
  \/ x \in Lidas
  \/ leitor.pc = "pagina" /\ "dados" \in leitor.falta /\ Lugar(x) >= Pulo
  \/ /\ leitor.pc = "pagina" /\ "dados" \notin leitor.falta
     /\ \/ x \in ToSet(leitor.dados)
        \/ Lugar(x) >= Pulo + leitor.limite /\ Len(leitor.dados) = leitor.limite

Completa ==
  Lendo /\ ~ leitor.saiu => \A x \in leitor.intactas : SemGemea(x) => Aguarda(x)

\* The rows of s are those of the listing from place a on.
Corresponde(s, a) ==
  \A i \in 1 .. Len(s) : \A x \in Linhas : s[i] = x => x \in Lista /\ Lugar(x) = a + i - 1

\* With nothing changing, what was read is the beginning of the listing.
PaginaExata ==
  /\ Corresponde(leitor.dados, Pulo)
  /\ Len(leitor.dados) = IF Pulo + leitor.limite <= Cardinality(Lista) THEN leitor.limite
                         ELSE Cardinality(Lista) - Pulo

Inicio ==
  /\ "total" \notin leitor.falta => leitor.total = Cardinality(Lista)
  /\ Corresponde(leitor.lidas, 0)
  /\ leitor.pc = "pagina" => Len(leitor.lidas) = Pulo /\ Pulo <= Cardinality(Lista)
  /\ leitor.pc = "pagina" /\ "dados" \notin leitor.falta => PaginaExata
  /\ leitor.pc = "fim" => Len(leitor.lidas) = Cardinality(Lista)

SemGemeas == \A x \in leitor.intactas : SemGemea(x)

Exata == Lendo /\ leitor.quieta /\ SemGemeas => Inicio

InvarianteConsultas == TypeOK /\ Curso /\ Completa /\ Exata

-----------------------------------------------------------------------------
(* The order of the rows.                                                  *)

LEMMA Prioridades ==
  /\ Prioridade("IN_PROGRESS") = 1 /\ Prioridade("AWAITING_APPROVAL") = 2
  /\ Prioridade("UNDER_DIAGNOSIS") = 3 /\ Prioridade("RECEIVED") = 4
  /\ \A s : /\ Prioridade(s) \in Nat
            /\ s \in StatusExcluidos <=> Prioridade(s) >= 7
<1> DEFINE q == <<"IN_PROGRESS", "AWAITING_APPROVAL", "UNDER_DIAGNOSIS", "RECEIVED",
                  "AWAITING_PARTS", "CLOSED_WITHOUT_EXECUTION", "FINISHED", "DELIVERED">>
           I(s) == {i \in 1 .. Len(q) : q[i] = s}
<1>1. \A s : Prioridade(s) = IF I(s) # {} THEN Min(I(s)) ELSE 0
  BY DEF Prioridade, SelectInSeq
<1>2. \A i \in 1 .. 8 : Min({i}) = i
  BY DEF Min
<1>3. Len(q) = 8
  OBVIOUS
<1>4. \A i \in 1 .. 8 : I(q[i]) = {i}
  OBVIOUS
<1>5. \A i \in 1 .. 8 : Prioridade(q[i]) = i
  BY <1>1, <1>2, <1>4
<1>6. \A s : (\A i \in 1 .. 8 : q[i] # s) => Prioridade(s) = 0
  BY <1>1, <1>3
<1>7. q[7] = "FINISHED" /\ q[8] = "DELIVERED"
  OBVIOUS
<1>8. \A i \in 1 .. 8 : q[i] \in StatusExcluidos <=> i >= 7
  BY DEF StatusExcluidos
<1>9. q[1] = "IN_PROGRESS" /\ q[2] = "AWAITING_APPROVAL" /\ q[3] = "UNDER_DIAGNOSIS"
      /\ q[4] = "RECEIVED"
  OBVIOUS
<1> HIDE DEF q, I
<1>10. ASSUME NEW s
       PROVE  /\ Prioridade(s) \in Nat
              /\ s \in StatusExcluidos <=> Prioridade(s) >= 7
  <2>1. CASE \E i \in 1 .. 8 : q[i] = s
    BY <1>5, <1>8, <2>1
  <2>2. CASE \A i \in 1 .. 8 : q[i] # s
    BY <1>6, <1>7, <2>2 DEF StatusExcluidos
  <2>3. QED
    BY <2>1, <2>2
<1>11. QED
  BY <1>5, <1>9, <1>10

LEMMA Tabela ==
  ASSUME TypeOK, NEW x \in Existentes
  PROVE  x \in Linhas /\ tabela[x].criada \in Nat /\ Prioridade(tabela[x].status) \in Nat
<1>1. x \in Linhas /\ tabela[x] \in Linha
  BY DEF TypeOK, Existentes
<1>2. QED
  BY <1>1, Prioridades DEF Linha

\* Two rows of different instants come in one order; and the order has no
\* circles.
LEMMA OrdemDasLinhas ==
  ASSUME TypeOK, NEW modo, NEW x \in Existentes, NEW y \in Existentes
  PROVE  /\ tabela[x].criada # tabela[y].criada => Antes(modo, x, y) \/ Antes(modo, y, x)
         /\ ~ (Antes(modo, x, y) /\ Antes(modo, y, x))
         /\ ~ Antes(modo, x, x)
         /\ \A z \in Existentes : Antes(modo, x, y) /\ Antes(modo, y, z) => Antes(modo, x, z)
<1>1. \A w \in Existentes : tabela[w].criada \in Nat /\ Prioridade(tabela[w].status) \in Nat
  BY Tabela
<1>2. QED
  BY <1>1 DEF Antes

LEMMA ListaFinita ==
  ASSUME TypeOK
  PROVE  /\ Lista \subseteq Existentes /\ Existentes \subseteq Linhas
         /\ IsFiniteSet(Lista) /\ Cardinality(Lista) \in Nat
         /\ \A x : IsFiniteSet(Frente(x)) /\ Lugar(x) \in Nat
<1>1. Lista \subseteq Existentes /\ Existentes \subseteq Linhas
  BY DEF Lista, Seleciona, Existentes
<1>2. IsFiniteSet(Lista)
  BY <1>1, Parametros, FS_Subset
<1>3. ASSUME NEW x
      PROVE  IsFiniteSet(Frente(x)) /\ Lugar(x) \in Nat
  <2>1. Frente(x) \in SUBSET Lista
    BY DEF Frente
  <2>2. QED
    BY <1>2, <2>1, FS_Subset, FS_CardinalityType DEF Lugar
<1>4. QED
  BY <1>1, <1>2, <1>3, FS_CardinalityType

-----------------------------------------------------------------------------
(* Orders as sequences.                                                    *)

LEMMA Enumera ==
  ASSUME NEW S, IsFiniteSet(S), NEW q \in SetToSeqs(S)
  PROVE  /\ q \in [1 .. Cardinality(S) -> S] /\ q \in Seq(S) /\ Len(q) = Cardinality(S)
         /\ \A i, j \in 1 .. Cardinality(S) : i # j => q[i] # q[j]
         /\ \A x \in S : \E i \in 1 .. Cardinality(S) : q[i] = x
<1> DEFINE n == Cardinality(S)
<1>1. n \in Nat
  BY FS_CardinalityType
<1>2. q \in [1 .. n -> S] /\ \A i, j \in 1 .. n : i # j => q[i] # q[j]
  BY DEF SetToSeqs
<1>3. q \in Seq(S) /\ Len(q) = n
  BY <1>1, <1>2
<1>4. q \in Injection(1 .. n, S)
  BY <1>2 DEF Injection, IsInjective
<1>5. Cardinality(1 .. n) = n
  BY <1>1, FS_Interval
<1>6. q \in Surjection(1 .. n, S)
  BY <1>4, <1>5, FS_Injection
<1>7. QED
  BY <1>2, <1>3, <1>6 DEF Surjection

Primeiras(q, i) == {q[j] : j \in 1 .. i - 1}

\* As many elements come before position i as there are positions.
LEMMA QuantosAntes ==
  ASSUME NEW S, NEW n \in Nat, NEW q \in [1 .. n -> S], NEW i \in 1 .. n,
         \A j, k \in 1 .. n : j # k => q[j] # q[k]
  PROVE  Cardinality(Primeiras(q, i)) = i - 1
<1> DEFINE F == {q[j] : j \in 1 .. i - 1}
           f == [j \in 1 .. i - 1 |-> q[j]]
<1>1. f \in [1 .. i - 1 -> F]
  OBVIOUS
<1>2. \A j, k \in 1 .. i - 1 : f[j] = f[k] => j = k
  OBVIOUS
<1>3. \A x \in F : \E j \in 1 .. i - 1 : f[j] = x
  OBVIOUS
<1>4. i - 1 \in Nat
  OBVIOUS
<1> HIDE DEF f, F
<1>5. f \in Bijection(1 .. i - 1, F)
  BY <1>1, <1>2, <1>3 DEF Bijection, Injection, Surjection, IsInjective
<1>6. ExistsBijection(1 .. i - 1, F)
  BY <1>5 DEF ExistsBijection
<1>7. Cardinality(F) = i - 1
  BY <1>4, <1>6, FS_CountingElements
<1>8. QED
  BY <1>7 DEF F, Primeiras

\* In every order the query may return, a row of an instant of its own stands
\* at its place.
LEMMA LugarNaOrdem ==
  ASSUME TypeOK, NEW q \in Ordenacoes(leitor.modo, leitor.busca),
         NEW i \in 1 .. Len(q), SemGemea(q[i])
  PROVE  Lugar(q[i]) = i - 1
<1> DEFINE n == Cardinality(Lista)
           x == q[i]
<1>1. q \in SetToSeqs(Lista) /\ \A j, k \in DOMAIN q : j < k => ~ Antes(leitor.modo, q[k], q[j])
  BY DEF Ordenacoes, Lista
<1>2. /\ q \in [1 .. n -> Lista] /\ Len(q) = n
      /\ \A j, k \in 1 .. n : j # k => q[j] # q[k]
      /\ \A y \in Lista : \E j \in 1 .. n : q[j] = y
  BY <1>1, ListaFinita, Enumera
<1>3. n \in Nat /\ i \in 1 .. n /\ \A y \in Lista : y \in Existentes
  BY <1>2, ListaFinita
<1> HIDE DEF n
<1>4. ASSUME NEW j \in 1 .. n, j < i
      PROVE  Antes(leitor.modo, q[j], x)
  <2>1. q[j] \in Existentes /\ x \in Existentes /\ q[j] # x
    BY <1>2, <1>3, <1>4
  <2>2. tabela[q[j]].criada # tabela[x].criada
    BY <2>1 DEF SemGemea
  <2>3. ~ Antes(leitor.modo, x, q[j])
    BY <1>1, <1>2, <1>3, <1>4
  <2>4. QED
    BY <2>1, <2>2, <2>3, OrdemDasLinhas
<1>5. ASSUME NEW j \in 1 .. n, j > i
      PROVE  ~ Antes(leitor.modo, q[j], x)
  BY <1>1, <1>2, <1>3, <1>5
<1>6. ~ Antes(leitor.modo, x, x)
  BY <1>2, <1>3, OrdemDasLinhas
<1>7. Frente(x) = Primeiras(q, i)
  <2>1. ASSUME NEW y \in Frente(x)
        PROVE  y \in Primeiras(q, i)
    <3>1. PICK j \in 1 .. n : q[j] = y
      BY <1>2 DEF Frente
    <3>2. Antes(leitor.modo, q[j], x)
      BY <3>1 DEF Frente
    <3>3. j # i /\ ~ j > i
      BY <1>5, <1>6, <3>2
    <3>4. j \in 1 .. i - 1
      BY <1>3, <3>3
    <3>5. QED
      BY <3>1, <3>4 DEF Primeiras
  <2>2. ASSUME NEW j \in 1 .. i - 1
        PROVE  q[j] \in Frente(x)
    <3>1. j \in 1 .. n /\ j < i
      BY <1>3
    <3>2. QED
      BY <1>2, <1>4, <3>1 DEF Frente
  <2>3. QED
    BY <2>1, <2>2 DEF Primeiras
<1>8. Cardinality(Primeiras(q, i)) = i - 1
  <2>1. q \in [1 .. n -> Lista] /\ n \in Nat /\ i \in 1 .. n
    BY <1>2, <1>3
  <2>2. \A j, k \in 1 .. n : j # k => q[j] # q[k]
    BY <1>2
  <2> HIDE DEF x
  <2>3. QED
    BY <2>1, <2>2, QuantosAntes, Zenon
<1>9. QED
  BY <1>7, <1>8 DEF Lugar

-----------------------------------------------------------------------------
(* Pages as windows.                                                       *)

\* The page after the first a rows of q, which holds at most c.
LEMMA Janela ==
  ASSUME NEW q \in Seq(Linhas), NEW p \in Nat \ {0}, NEW c \in Nat \ {0}
  PROVE  /\ (p - 1) * c \in Nat /\ p * c = (p - 1) * c + c
         /\ Pagina(q, p, c) \in Seq(Linhas)
         /\ Len(Pagina(q, p, c)) =
              IF (p - 1) * c + c <= Len(q) THEN c
              ELSE IF (p - 1) * c <= Len(q) THEN Len(q) - (p - 1) * c ELSE 0
         /\ \A i \in 1 .. Len(Pagina(q, p, c)) :
              (p - 1) * c + i \in 1 .. Len(q) /\ Pagina(q, p, c)[i] = q[(p - 1) * c + i]
<1> DEFINE a == (p - 1) * c
           b == IF p * c < Len(q) THEN p * c ELSE Len(q)
           s == SubSeq(q, a + 1, b)
<1>1. a \in Nat
  OBVIOUS
<1>2. p * c = a + c
  OBVIOUS
<1>3. Pagina(q, p, c) = s
  BY DEF Pagina
<1>4. Len(q) \in Nat /\ \A i \in 1 .. Len(q) : q[i] \in Linhas
  OBVIOUS
<1>5. b = IF a + c < Len(q) THEN a + c ELSE Len(q)
  BY <1>2
<1> HIDE DEF a, b
<1>6. b \in Int /\ b <= Len(q) /\ a + 1 \in Int
  BY <1>1, <1>4, <1>5
<1>7. \A i \in a + 1 .. b : q[i] \in Linhas
  BY <1>1, <1>4, <1>6
<1>8. /\ s \in Seq(Linhas) /\ Len(s) = IF a + 1 <= b THEN b - (a + 1) + 1 ELSE 0
      /\ \A i \in 1 .. b - (a + 1) + 1 : s[i] = q[a + 1 + i - 1]
  BY <1>6, <1>7, SubSeqProperties
<1> HIDE DEF s
<1>9. Len(s) = IF a + c <= Len(q) THEN c ELSE IF a <= Len(q) THEN Len(q) - a ELSE 0
  BY <1>1, <1>4, <1>5, <1>8
<1>10. ASSUME NEW i \in 1 .. Len(s)
       PROVE  a + i \in 1 .. Len(q) /\ s[i] = q[a + i]
  <2>1. i \in 1 .. b - (a + 1) + 1
    BY <1>1, <1>6, <1>8
  <2>2. a + 1 + i - 1 = a + i
    BY <1>1
  <2>3. QED
    BY <1>1, <1>6, <1>8, <2>1, <2>2
<1>11. QED
  BY <1>1, <1>2, <1>3, <1>8, <1>9, <1>10 DEF a

LEMMA ElementosDaSoma ==
  ASSUME NEW r \in Seq(Linhas), NEW s \in Seq(Linhas)
  PROVE  /\ r \o s \in Seq(Linhas) /\ Len(r \o s) = Len(r) + Len(s)
         /\ ToSet(r \o s) = ToSet(r) \cup ToSet(s)
<1>1. /\ r \o s \in Seq(Linhas) /\ Len(r \o s) = Len(r) + Len(s)
      /\ \A i \in 1 .. Len(r) + Len(s) :
           (r \o s)[i] = IF i <= Len(r) THEN r[i] ELSE s[i - Len(r)]
  BY ConcatProperties
<1>2. /\ DOMAIN r = 1 .. Len(r) /\ DOMAIN s = 1 .. Len(s) /\ Len(r) \in Nat /\ Len(s) \in Nat
      /\ DOMAIN (r \o s) = 1 .. Len(r) + Len(s)
  BY <1>1, LenProperties
<1> DEFINE t == r \o s
<1>3. t = r \o s
  OBVIOUS
<1> HIDE DEF t
<1>4. ASSUME NEW i \in DOMAIN t
      PROVE  t[i] \in ToSet(r) \cup ToSet(s)
  <2>1. CASE i <= Len(r)
    BY <1>1, <1>2, <1>3, <2>1 DEF ToSet
  <2>2. CASE i > Len(r)
    <3>1. i - Len(r) \in DOMAIN s /\ t[i] = s[i - Len(r)]
      BY <1>1, <1>2, <1>3, <2>2
    <3>2. QED
      BY <3>1 DEF ToSet
  <2>3. QED
    BY <1>2, <1>3, <2>1, <2>2
<1>5. ASSUME NEW i \in DOMAIN r
      PROVE  i \in DOMAIN t /\ t[i] = r[i]
  BY <1>1, <1>2, <1>3
<1>6. ASSUME NEW i \in DOMAIN s
      PROVE  Len(r) + i \in DOMAIN t /\ t[Len(r) + i] = s[i]
  <2>1. Len(r) + i \in 1 .. Len(r) + Len(s) /\ ~ Len(r) + i <= Len(r) /\ Len(r) + i - Len(r) = i
    BY <1>2
  <2>2. QED
    BY <1>1, <1>2, <1>3, <2>1
<1>7. ToSet(t) = ToSet(r) \cup ToSet(s)
  BY <1>4, <1>5, <1>6 DEF ToSet
<1>8. QED
  BY <1>1, <1>3, <1>7

-----------------------------------------------------------------------------
(* The reader's steps.                                                     *)

LEMMA TipoLeitor ==
  ASSUME TypeOK
  PROVE  /\ leitor \in Leitor
         /\ leitor.limite \in Nat \ {0} /\ leitor.pagina \in Nat
         /\ leitor.dados \in Seq(Linhas) /\ leitor.lidas \in Seq(Linhas)
         /\ leitor.modo \in {"todas", "ativas"}
         /\ leitor.intactas \subseteq Linhas
         /\ leitor.pagina >= 1 => Pulo \in Nat
<1>1. leitor \in Leitor
  BY DEF TypeOK
<1>2. leitor.limite \in Nat \ {0}
  <2>1. leitor.limite \in Limites \cup {1}
    BY <1>1 DEF Leitor
  <2>2. Limites \subseteq Nat \ {0}
    BY Parametros
  <2>3. 1 \in Nat \ {0}
    OBVIOUS
  <2>4. QED
    BY <2>1, <2>2, <2>3, Zenon
<1>3. leitor.pagina \in Nat
  BY <1>1 DEF Leitor
<1>4. leitor.pagina >= 1 => Pulo \in Nat
  BY <1>2, <1>3 DEF Pulo
<1>5. QED
  BY <1>1, <1>2, <1>3, <1>4 DEF Leitor

\* As long as the rows, the kind of listing and its term are the same, so are
\* the places.
LEMMA MesmaLista ==
  ASSUME tabela' = tabela, leitor'.modo = leitor.modo, leitor'.busca = leitor.busca
  PROVE  /\ Lista' = Lista
         /\ \A x : Lugar(x)' = Lugar(x)
         /\ \A x : SemGemea(x)' <=> SemGemea(x)
<1>1. Existentes' = Existentes
  BY DEF Existentes
<1>2. Lista' = Lista
  BY <1>1 DEF Lista, Seleciona
<1>3. \A x, y : Antes(leitor.modo, x, y)' <=> Antes(leitor.modo, x, y)
  BY DEF Antes
<1>4. \A x : Frente(x)' = Frente(x)
  BY <1>2, <1>3 DEF Frente
<1>5. QED
  BY <1>1, <1>2, <1>4 DEF Lugar, SemGemea

LEMMA EfeitoLerTotal ==
  ASSUME InvarianteConsultas, LerTotal
  PROVE  InvarianteConsultas'
<1> USE DEF InvarianteConsultas
<1>1. leitor' = [leitor EXCEPT !.falta = @ \ {"total"},
                              !.total = Cardinality(Seleciona(leitor.modo, leitor.busca))]
  BY DEF LerTotal
<1>2. leitor \in Leitor
  BY TipoLeitor
<1>3. /\ leitor'.pc = leitor.pc /\ leitor'.modo = leitor.modo /\ leitor'.busca = leitor.busca
      /\ leitor'.limite = leitor.limite /\ leitor'.pagina = leitor.pagina
      /\ leitor'.falta = leitor.falta \ {"total"} /\ leitor'.dados = leitor.dados
      /\ leitor'.total = Cardinality(Lista) /\ leitor'.lidas = leitor.lidas
      /\ leitor'.intactas = leitor.intactas /\ leitor'.saiu = leitor.saiu
      /\ leitor'.quieta = leitor.quieta
  BY <1>1, <1>2 DEF Leitor, Lista
<1>4. UNCHANGED <<tabela, agora>>
  BY DEF LerTotal
<1>5. /\ Lista' = Lista
      /\ \A x : Lugar(x)' = Lugar(x) /\ (SemGemea(x)' <=> SemGemea(x))
  BY <1>3, <1>4, MesmaLista
<1>6. TypeOK'
  <2>1. Cardinality(Lista) \in Nat
    BY ListaFinita
  <2>2. leitor' \in Leitor
    BY <1>1, <1>2, <2>1 DEF Leitor, Lista
  <2>3. QED
    BY <1>3, <1>4, <2>2 DEF TypeOK
<1>7. Curso'
  BY <1>3, <1>5 DEF Curso, Lendo
<1>8. \A x : Aguarda(x) => Aguarda(x)'
  BY <1>3, <1>5 DEF Aguarda, Lidas, Pulo
<1>9. Completa'
  BY <1>3, <1>5, <1>8 DEF Completa, Lendo
<1>10. Exata'
  <2>1. SUFFICES ASSUME Lendo, leitor.quieta, SemGemeas
                 PROVE  Inicio'
    BY <1>3, <1>5 DEF Exata, Lendo, SemGemeas
  <2>2. Inicio
    BY <2>1 DEF Exata
  <2>3. Pulo' = Pulo
    BY <1>3 DEF Pulo
  <2>4. Corresponde(leitor.lidas, 0)'
    BY <1>3, <1>5, <2>2 DEF Inicio, Corresponde
  <2>5. PaginaExata => PaginaExata'
    BY <1>3, <1>5, <2>3 DEF PaginaExata, Corresponde
  <2>6. QED
    BY <1>3, <1>5, <2>2, <2>3, <2>4, <2>5 DEF Inicio
<1>11. QED
  BY <1>6, <1>7, <1>9, <1>10

\* What a page is made of: rows at the places after those skipped, all of them
\* that there are, up to the size asked for.
LEMMA PaginaLida ==
  ASSUME TypeOK, leitor.pagina >= 1, NEW q \in Ordenacoes(leitor.modo, leitor.busca),
         NEW s, s = Pagina(q, leitor.pagina, leitor.limite)
  PROVE  /\ s \in Seq(Linhas) /\ Len(s) <= leitor.limite
         /\ Pulo <= Cardinality(Lista) =>
              Len(s) = IF Pulo + leitor.limite <= Cardinality(Lista) THEN leitor.limite
                       ELSE Cardinality(Lista) - Pulo
         /\ (\A x \in Lista : SemGemea(x)) => Corresponde(s, Pulo)
         /\ \A x \in Lista : SemGemea(x) /\ Lugar(x) >= Pulo =>
              \/ x \in ToSet(s)
              \/ Lugar(x) >= Pulo + leitor.limite /\ Len(s) = leitor.limite
<1> DEFINE n == Cardinality(Lista)
           a == Pulo
           c == leitor.limite
<1>1. q \in SetToSeqs(Lista)
  BY DEF Ordenacoes, Lista
<1>2. /\ q \in [1 .. n -> Lista] /\ q \in Seq(Lista) /\ Len(q) = n
      /\ \A x \in Lista : \E i \in 1 .. n : q[i] = x
  BY <1>1, ListaFinita, Enumera
<1>3. Lista \subseteq Linhas /\ n \in Nat
  BY ListaFinita
<1>4. q \in Seq(Linhas)
  BY <1>2, <1>3, SeqMonotonic
<1>5. c \in Nat \ {0} /\ leitor.pagina \in Nat \ {0} /\ a \in Nat
  BY TipoLeitor
<1>6. /\ s \in Seq(Linhas)
      /\ Len(s) = IF a + c <= n THEN c ELSE IF a <= n THEN n - a ELSE 0
      /\ \A i \in 1 .. Len(s) : a + i \in 1 .. n /\ s[i] = q[a + i]
  <2> DEFINE p == leitor.pagina
  <2>1. a = (p - 1) * c /\ s = Pagina(q, p, c)
    BY DEF Pulo
  <2> HIDE DEF p, a, c, n
  <2>2. /\ s \in Seq(Linhas)
        /\ Len(s) = IF (p - 1) * c + c <= Len(q) THEN c
                    ELSE IF (p - 1) * c <= Len(q) THEN Len(q) - (p - 1) * c ELSE 0
        /\ \A i \in 1 .. Len(s) : (p - 1) * c + i \in 1 .. Len(q) /\ s[i] = q[(p - 1) * c + i]
    <3>1. p \in Nat \ {0} /\ c \in Nat \ {0}
      BY <1>5 DEF p
    <3> DEFINE t == Pagina(q, p, c)
    <3>2. /\ t \in Seq(Linhas)
          /\ Len(t) = IF (p - 1) * c + c <= Len(q) THEN c
                      ELSE IF (p - 1) * c <= Len(q) THEN Len(q) - (p - 1) * c ELSE 0
          /\ \A i \in 1 .. Len(t) : (p - 1) * c + i \in 1 .. Len(q) /\ t[i] = q[(p - 1) * c + i]
      BY <1>4, <3>1, Janela
    <3> HIDE DEF t
    <3>3. s = t
      BY <2>1 DEF t
    <3>4. QED
      BY <3>2, <3>3
  <2>3. QED
    BY <1>2, <2>1, <2>2
<1>7. \A i \in 1 .. n : SemGemea(q[i]) => Lugar(q[i]) = i - 1
  BY <1>2, LugarNaOrdem
<1>8. Len(s) \in Nat /\ DOMAIN s = 1 .. Len(s)
  BY <1>6, LenProperties
<1> HIDE DEF n, a, c
<1>9. Len(s) <= c
  BY <1>3, <1>5, <1>6
<1>10. a <= n => Len(s) = IF a + c <= n THEN c ELSE n - a
  BY <1>3, <1>5, <1>6
<1>11. ASSUME \A x \in Lista : SemGemea(x),
              NEW i \in 1 .. Len(s), NEW x \in Linhas, s[i] = x
       PROVE  x \in Lista /\ Lugar(x) = a + i - 1
  <2>1. a + i \in 1 .. n /\ x = q[a + i]
    BY <1>6, <1>11
  <2>2. \A j \in 1 .. n : q[j] \in Lista
    BY <1>2
  <2>3. x \in Lista
    BY <2>1, <2>2
  <2>4. PICK j \in 1 .. n : j = a + i
    BY <2>1
  <2>5. x = q[j]
    BY <2>1, <2>4
  <2>6. Lugar(x) = j - 1
    BY <1>7, <1>11, <2>3, <2>5
  <2>7. QED
    BY <1>3, <1>5, <1>8, <2>3, <2>4, <2>6
<1>12. ASSUME NEW x \in Lista, SemGemea(x), Lugar(x) >= a
       PROVE  x \in ToSet(s) \/ (Lugar(x) >= a + c /\ Len(s) = c)
  <2>1. PICK i \in 1 .. n : q[i] = x
    BY <1>2
  <2>2. Lugar(x) = i - 1
    BY <1>7, <1>12, <2>1
  <2>3. CASE i <= a + c
    <3>1. i - a \in 1 .. Len(s) /\ a + (i - a) = i
      BY <1>3, <1>5, <1>6, <1>12, <2>2, <2>3
    <3>2. s[i - a] = x
      BY <1>6, <2>1, <3>1
    <3>3. QED
      BY <1>8, <3>1, <3>2 DEF ToSet
  <2>4. CASE i > a + c
    BY <1>3, <1>5, <1>6, <2>2, <2>4
  <2>5. QED
    BY <1>5, <2>3, <2>4
<1>13. QED
  BY <1>6, <1>9, <1>10, <1>11, <1>12 DEF Corresponde, n, a, c

LEMMA EfeitoLerDados ==
  ASSUME InvarianteConsultas, LerDados
  PROVE  InvarianteConsultas'
<1> USE DEF InvarianteConsultas
<1>1. PICK q \in Ordenacoes(leitor.modo, leitor.busca) :
        leitor' = [leitor EXCEPT !.falta = @ \ {"dados"},
                                 !.dados = Pagina(q, leitor.pagina, leitor.limite)]
  BY DEF LerDados
<1> DEFINE s == Pagina(q, leitor.pagina, leitor.limite)
<1>2. leitor' = [leitor EXCEPT !.falta = @ \ {"dados"}, !.dados = s]
  BY <1>1
<1>3. leitor.pc = "pagina" /\ leitor.pagina >= 1 /\ "dados" \in leitor.falta /\ Lendo
  BY DEF LerDados, Curso, Lendo
<1>4. /\ s \in Seq(Linhas) /\ Len(s) <= leitor.limite
      /\ Pulo <= Cardinality(Lista) =>
           Len(s) = IF Pulo + leitor.limite <= Cardinality(Lista) THEN leitor.limite
                    ELSE Cardinality(Lista) - Pulo
      /\ (\A x \in Lista : SemGemea(x)) => Corresponde(s, Pulo)
      /\ \A x \in Lista : SemGemea(x) /\ Lugar(x) >= Pulo =>
           \/ x \in ToSet(s)
           \/ Lugar(x) >= Pulo + leitor.limite /\ Len(s) = leitor.limite
  BY <1>3, PaginaLida
<1> HIDE DEF s
<1>5. leitor \in Leitor
  BY TipoLeitor
<1>6. /\ leitor'.pc = leitor.pc /\ leitor'.modo = leitor.modo /\ leitor'.busca = leitor.busca
      /\ leitor'.limite = leitor.limite /\ leitor'.pagina = leitor.pagina
      /\ leitor'.falta = leitor.falta \ {"dados"} /\ leitor'.dados = s
      /\ leitor'.total = leitor.total /\ leitor'.lidas = leitor.lidas
      /\ leitor'.intactas = leitor.intactas /\ leitor'.saiu = leitor.saiu
      /\ leitor'.quieta = leitor.quieta
  BY <1>2, <1>5 DEF Leitor
<1>7. UNCHANGED <<tabela, agora>>
  BY DEF LerDados
<1>8. /\ Lista' = Lista
      /\ \A x : Lugar(x)' = Lugar(x) /\ (SemGemea(x)' <=> SemGemea(x))
  BY <1>6, <1>7, MesmaLista
<1>9. TypeOK'
  <2>1. leitor' \in Leitor
    BY <1>2, <1>4, <1>5 DEF Leitor
  <2>2. QED
    BY <1>4, <1>6, <1>7, <2>1 DEF TypeOK
<1>10. Curso'
  BY <1>3, <1>6, <1>8 DEF Curso, Lendo
<1>11. Pulo' = Pulo
  BY <1>6 DEF Pulo
<1>12. Completa'
  <2>1. SUFFICES ASSUME ~ leitor.saiu, NEW x \in leitor.intactas, SemGemea(x)
                 PROVE  Aguarda(x)'
    BY <1>6, <1>8 DEF Completa
  <2>2. Aguarda(x) /\ x \in Lista
    BY <1>3, <2>1 DEF Completa, Curso
  <2>3. CASE x \in Lidas
    BY <1>6, <2>3 DEF Aguarda, Lidas
  <2>4. CASE Lugar(x) >= Pulo
    <3>1. x \in ToSet(s) \/ (Lugar(x) >= Pulo + leitor.limite /\ Len(s) = leitor.limite)
      BY <1>4, <2>1, <2>2, <2>4
    <3>2. QED
      BY <1>3, <1>6, <1>8, <1>11, <3>1 DEF Aguarda
  <2>5. QED
    BY <1>3, <2>2, <2>3, <2>4 DEF Aguarda
<1>13. Exata'
  <2>1. SUFFICES ASSUME leitor.quieta, SemGemeas
                 PROVE  Inicio'
    BY <1>6, <1>8 DEF Exata, SemGemeas
  <2>2. Inicio /\ leitor.intactas = Lista
    BY <1>3, <2>1 DEF Exata, Curso
  <2>3. Pulo <= Cardinality(Lista) /\ Len(leitor.lidas) = Pulo
    BY <1>3, <2>2 DEF Inicio
  <2>4. \A x \in Lista : SemGemea(x)
    BY <2>1, <2>2 DEF SemGemeas
  <2>5. Corresponde(s, Pulo)
    BY <1>4, <2>4
  <2>6. PaginaExata'
    BY <1>4, <1>6, <1>8, <1>11, <2>3, <2>5 DEF PaginaExata, Corresponde
  <2>7. Corresponde(leitor.lidas, 0)'
    BY <1>6, <1>8, <2>2 DEF Inicio, Corresponde
  <2>8. QED
    BY <1>3, <1>6, <1>8, <1>11, <2>2, <2>3, <2>6, <2>7 DEF Inicio
<1>14. QED
  BY <1>9, <1>10, <1>12, <1>13

\* What has been read with the page just received.
LEMMA LidasComPagina ==
  ASSUME TypeOK, leitor.pagina >= 1, Corresponde(leitor.lidas, 0), Len(leitor.lidas) = Pulo,
         Corresponde(leitor.dados, Pulo)
  PROVE  Corresponde(leitor.lidas \o leitor.dados, 0)
<1> DEFINE r == leitor.lidas
           s == leitor.dados
<1>1. r \in Seq(Linhas) /\ s \in Seq(Linhas) /\ Pulo \in Nat
  BY TipoLeitor
<1>2. /\ Len(r \o s) = Len(r) + Len(s) /\ Len(r) \in Nat /\ Len(s) \in Nat
      /\ \A i \in 1 .. Len(r) + Len(s) :
           (r \o s)[i] = IF i <= Len(r) THEN r[i] ELSE s[i - Len(r)]
  BY <1>1, ConcatProperties, LenProperties
<1>3. /\ \A i \in 1 .. Len(r) : \A x \in Linhas : r[i] = x => x \in Lista /\ Lugar(x) = 0 + i - 1
      /\ \A i \in 1 .. Len(s) : \A x \in Linhas : s[i] = x => x \in Lista /\ Lugar(x) = Pulo + i - 1
      /\ Len(r) = Pulo
  BY DEF Corresponde
<1> DEFINE t == r \o s
<1>4. Len(t) = Len(r) + Len(s)
      /\ \A i \in 1 .. Len(t) : t[i] = IF i <= Len(r) THEN r[i] ELSE s[i - Len(r)]
  BY <1>2
<1> HIDE DEF r, s, t
<1>5. ASSUME NEW i \in 1 .. Len(t), NEW x \in Linhas, t[i] = x
      PROVE  x \in Lista /\ Lugar(x) = 0 + i - 1
  <2>1. CASE i <= Len(r)
    <3>1. i \in 1 .. Len(r) /\ r[i] = x
      BY <1>2, <1>4, <1>5, <2>1
    <3>2. QED
      BY <1>3, <3>1
  <2>2. CASE ~ i <= Len(r)
    <3>1. PICK j \in 1 .. Len(s) : j = i - Len(r)
      BY <1>2, <1>4, <2>2
    <3>2. s[j] = x
      BY <1>4, <1>5, <2>2, <3>1
    <3>3. x \in Lista /\ Lugar(x) = Pulo + j - 1
      BY <1>3, <3>2
    <3>4. Pulo + j - 1 = 0 + i - 1
      BY <1>1, <1>2, <1>3, <1>4, <3>1
    <3>5. QED
      BY <3>3, <3>4
  <2>3. QED
    BY <2>1, <2>2
<1>6. QED
  BY <1>5 DEF Corresponde, r, s, t

LEMMA EfeitoResponder ==
  ASSUME InvarianteConsultas, Responder
  PROVE  InvarianteConsultas'
<1> USE DEF InvarianteConsultas
<1> DEFINE t == leitor.lidas \o leitor.dados
<1>1. leitor.pc = "pagina" /\ leitor.falta = {} /\ leitor.pagina >= 1 /\ Lendo
  BY DEF Responder, Curso, Lendo
<1>2. leitor \in Leitor /\ leitor.pagina \in Nat /\ leitor.limite \in Nat \ {0} /\ Pulo \in Nat
  BY <1>1, TipoLeitor
<1>3. t \in Seq(Linhas) /\ ToSet(t) = Lidas \cup ToSet(leitor.dados)
      /\ Len(t) = Len(leitor.lidas) + Len(leitor.dados)
  BY TipoLeitor, ElementosDaSoma DEF Lidas
<1>4. UNCHANGED <<tabela, agora>>
  BY DEF Responder
<1>5. Len(leitor.dados) \in Nat /\ Len(leitor.dados) <= leitor.limite
  BY TipoLeitor, LenProperties DEF TypeOK
<1>6. /\ leitor'.modo = leitor.modo /\ leitor'.busca = leitor.busca
      /\ leitor'.limite = leitor.limite /\ leitor'.lidas = t
      /\ leitor'.intactas = leitor.intactas /\ leitor'.saiu = leitor.saiu
      /\ leitor'.quieta = leitor.quieta /\ leitor' \in Leitor
      /\ Len(leitor.dados) < leitor.limite =>
           leitor'.pc = "fim" /\ leitor'.falta = {} /\ leitor'.total = leitor.total
           /\ leitor'.dados = leitor.dados
      /\ ~ Len(leitor.dados) < leitor.limite =>
           leitor'.pc = "pagina" /\ leitor'.falta = {"dados", "total"}
           /\ leitor'.dados = <<>> /\ leitor'.pagina = leitor.pagina + 1
  <2> DEFINE l == [leitor EXCEPT !.lidas = @ \o leitor.dados]
  <2>1. leitor' = IF Len(leitor.dados) < leitor.limite THEN [l EXCEPT !.pc = "fim"]
                  ELSE Pede(l, leitor.pagina + 1)
    BY DEF Responder
  <2>2. l = [leitor EXCEPT !.lidas = t]
    OBVIOUS
  <2> HIDE DEF t, l
  <2>3. /\ l \in Leitor /\ l.pc = leitor.pc /\ l.modo = leitor.modo /\ l.busca = leitor.busca
        /\ l.limite = leitor.limite /\ l.pagina = leitor.pagina /\ l.falta = leitor.falta
        /\ l.dados = leitor.dados /\ l.total = leitor.total /\ l.lidas = t
        /\ l.intactas = leitor.intactas /\ l.saiu = leitor.saiu /\ l.quieta = leitor.quieta
    BY <1>2, <1>3, <2>2 DEF Leitor
  <2>4. CASE Len(leitor.dados) < leitor.limite
    <3>1. leitor' = [l EXCEPT !.pc = "fim"]
      BY <2>1, <2>4
    <3>2. QED
      BY <1>1, <2>3, <2>4, <3>1 DEF Leitor
  <2>5. CASE ~ Len(leitor.dados) < leitor.limite
    <3>1. leitor' = [l EXCEPT !.pc = "pagina", !.pagina = leitor.pagina + 1,
                              !.falta = {"dados", "total"}, !.dados = <<>>, !.total = 0]
      BY <2>1, <2>5 DEF Pede
    <3>2. leitor.pagina + 1 \in Nat /\ <<>> \in Seq(Linhas)
      BY <1>2
    <3>3. QED
      BY <2>3, <2>5, <3>1, <3>2 DEF Leitor
  <2>6. QED
    BY <2>4, <2>5
<1> HIDE DEF t
<1>7. /\ Lista' = Lista
      /\ \A x : Lugar(x)' = Lugar(x) /\ (SemGemea(x)' <=> SemGemea(x))
  BY <1>4, <1>6, MesmaLista
<1>8. TypeOK'
  <2>1. Len(leitor'.dados) <= leitor'.limite
    BY <1>2, <1>5, <1>6
  <2>2. QED
    BY <1>4, <1>6, <2>1 DEF TypeOK
<1>9. Curso'
  <2>1. leitor'.pc = "pagina" => leitor'.pagina >= 1
    BY <1>1, <1>2, <1>5, <1>6
  <2>2. QED
    BY <1>1, <1>6, <1>7, <2>1 DEF Curso, Lendo
<1>10. ~ Len(leitor.dados) < leitor.limite =>
         Len(leitor.dados) = leitor.limite /\ Pulo' = Pulo + leitor.limite
  <2>1. ASSUME ~ Len(leitor.dados) < leitor.limite
        PROVE  Pulo' = Pulo + leitor.limite
    <3>1. Pulo' = (leitor.pagina + 1 - 1) * leitor.limite
      <4>1. leitor'.pagina = leitor.pagina + 1 /\ leitor'.limite = leitor.limite
        BY <1>6, <2>1
      <4>2. Pulo' = (leitor'.pagina - 1) * leitor'.limite
        BY DEF Pulo
      <4>3. QED
        BY <1>2, <4>1, <4>2
    <3>2. \A p \in Nat, c \in Nat : (p + 1 - 1) * c = (p - 1) * c + c
      OBVIOUS
    <3>3. QED
      BY <1>2, <3>1, <3>2 DEF Pulo
  <2>2. QED
    BY <1>2, <1>5, <2>1
<1>11. Completa'
  <2>1. SUFFICES ASSUME ~ leitor.saiu, NEW x \in leitor.intactas, SemGemea(x)
                 PROVE  Aguarda(x)'
    BY <1>6, <1>7 DEF Completa
  <2>2. Aguarda(x)
    BY <1>1, <2>1 DEF Completa
  <2>3. \/ x \in ToSet(t)
        \/ Lugar(x) >= Pulo + leitor.limite /\ Len(leitor.dados) = leitor.limite
    BY <1>1, <1>3, <2>2 DEF Aguarda
  <2>4. CASE x \in ToSet(t)
    BY <1>6, <2>4 DEF Aguarda, Lidas
  <2>5. CASE Lugar(x) >= Pulo + leitor.limite /\ Len(leitor.dados) = leitor.limite
    <3>1. ~ Len(leitor.dados) < leitor.limite
      BY <1>2, <2>5
    <3>2. Lugar(x)' >= Pulo'
      BY <1>7, <1>10, <2>5, <3>1
    <3>3. QED
      BY <1>6, <3>1, <3>2 DEF Aguarda
  <2>6. QED
    BY <2>3, <2>4, <2>5
<1>12. Exata'
  <2>1. SUFFICES ASSUME leitor.quieta, SemGemeas
                 PROVE  Inicio'
    BY <1>6, <1>7 DEF Exata, SemGemeas
  <2>2. Inicio /\ PaginaExata
    BY <1>1, <2>1 DEF Exata, Inicio
  <2>3. /\ Corresponde(leitor.lidas, 0) /\ Len(leitor.lidas) = Pulo /\ Pulo <= Cardinality(Lista)
        /\ leitor.total = Cardinality(Lista) /\ Corresponde(leitor.dados, Pulo)
        /\ Len(leitor.dados) = IF Pulo + leitor.limite <= Cardinality(Lista) THEN leitor.limite
                               ELSE Cardinality(Lista) - Pulo
    BY <1>1, <2>2 DEF Inicio, PaginaExata
  <2>4. Corresponde(t, 0)
    BY <1>1, <2>3, LidasComPagina DEF t
  <2>5. Corresponde(leitor.lidas, 0)'
    BY <1>6, <1>7, <2>4 DEF Corresponde
  <2>6. Cardinality(Lista) \in Nat
    BY ListaFinita
  <2>7. CASE Len(leitor.dados) < leitor.limite
    <3>1. Len(t) = Cardinality(Lista)
      BY <1>2, <1>3, <2>3, <2>6, <2>7
    <3>2. QED
      BY <1>6, <1>7, <2>3, <2>5, <2>7, <3>1 DEF Inicio
  <2>8. CASE ~ Len(leitor.dados) < leitor.limite
    <3>1. Len(t) = Pulo' /\ Pulo' <= Cardinality(Lista)
      <4> DEFINE n == Cardinality(Lista)
                 a == Pulo
                 c == leitor.limite
                 d == Len(leitor.dados)
      <4>1. n \in Nat /\ a \in Nat /\ c \in Nat /\ d \in Nat /\ c > 0
        BY <1>2, <1>5, <2>6
      <4>2. d = c /\ Pulo' = a + c /\ Len(t) = a + d
        BY <1>3, <1>10, <2>3, <2>8
      <4>3. d = IF a + c <= n THEN c ELSE n - a
        BY <2>3
      <4> HIDE DEF n, a, c, d
      <4>4. a + c <= n
        BY <4>1, <4>2, <4>3
      <4>5. QED
        BY <4>2, <4>4 DEF n
    <3>2. QED
      BY <1>6, <1>7, <2>5, <2>8, <3>1 DEF Inicio
  <2>9. QED
    BY <2>7, <2>8
<1>13. QED
  BY <1>8, <1>9, <1>11, <1>12

\* The places are numbers after a step, too.
LEMMA LugarDepois ==
  /\ Lista' \subseteq Existentes' /\ Existentes' \subseteq Linhas
  /\ Cardinality(Lista)' \in Nat
  /\ \A x : IsFiniteSet(Frente(x)') /\ Lugar(x)' \in Nat
<1>1. Lista' \subseteq Existentes' /\ Existentes' \subseteq Linhas
  BY DEF Lista, Seleciona, Existentes
<1>2. ASSUME NEW S, S \subseteq Linhas
      PROVE  IsFiniteSet(S) /\ Cardinality(S) \in Nat
  BY <1>2, Parametros, FS_Subset, FS_CardinalityType
<1>3. Cardinality(Lista)' \in Nat
  BY <1>1, <1>2
<1>4. ASSUME NEW x
      PROVE  IsFiniteSet(Frente(x)') /\ Lugar(x)' \in Nat
  <2>1. Frente(x)' \subseteq Linhas
    BY <1>1 DEF Frente
  <2>2. QED
    BY <1>2, <2>1 DEF Lugar
<1>5. QED
  BY <1>1, <1>3, <1>4

\* A reader who does nothing is where he was, the rows being in their places.
LEMMA MesmoLeitor ==
  ASSUME TypeOK, Curso, Completa, Exata, leitor' = leitor, Lista' = Lista,
         \A x \in Linhas : Lugar(x)' = Lugar(x) /\ (SemGemea(x)' <=> SemGemea(x))
  PROVE  Curso' /\ Completa' /\ Exata'
<1>1. leitor.intactas \subseteq Linhas
  BY TipoLeitor
<1>2. Curso'
  BY DEF Curso, Lendo
<1>3. \A x \in Linhas : Aguarda(x) => Aguarda(x)'
  BY DEF Aguarda, Lidas, Pulo
<1>4. Completa'
  <2>1. SUFFICES ASSUME Lendo, ~ leitor.saiu, NEW x \in leitor.intactas, SemGemea(x)'
                 PROVE  Aguarda(x)'
    BY DEF Completa, Lendo
  <2>2. x \in Linhas /\ SemGemea(x)
    BY <1>1, <2>1
  <2>3. QED
    BY <1>3, <2>1, <2>2 DEF Completa
<1>5. Exata'
  <2>1. SUFFICES ASSUME Lendo, leitor.quieta, SemGemeas'
                 PROVE  Inicio'
    BY DEF Exata, Lendo
  <2>2. SemGemeas
    BY <1>1, <2>1 DEF SemGemeas
  <2>3. Inicio
    BY <2>1, <2>2 DEF Exata
  <2>4. Pulo' = Pulo
    BY DEF Pulo
  <2>5. Corresponde(leitor.lidas, 0)'
    BY <2>3 DEF Inicio, Corresponde
  <2>6. PaginaExata => PaginaExata'
    BY <2>4 DEF PaginaExata, Corresponde
  <2>7. QED
    BY <2>3, <2>4, <2>5, <2>6 DEF Inicio
<1>6. QED
  BY <1>2, <1>4, <1>5

LEMMA LeitorParado ==
  /\ Parado \in Leitor /\ Len(Parado.dados) <= Parado.limite
  /\ Parado.pc = "parado" /\ Parado.falta = {}
<1>1. {} \in Buscas \cup {{}} /\ {} \in SUBSET {"dados", "total"} /\ {} \in SUBSET Linhas
  OBVIOUS
<1>2. 1 \in Limites \cup {1}
  OBVIOUS
<1>3. <<>> \in Seq(Linhas) /\ Len(<<>>) = 0
  OBVIOUS
<1>4. QED
  BY <1>1, <1>2, <1>3 DEF Parado, Leitor

LEMMA EfeitoAbrir ==
  ASSUME InvarianteConsultas, Abrir
  PROVE  InvarianteConsultas'
<1> USE DEF InvarianteConsultas
<1>1. PICK modo \in {"todas", "ativas"}, limite \in Limites, busca \in Buscas :
        leitor' = Pede([Parado EXCEPT !.modo = modo, !.busca = busca, !.limite = limite,
                                      !.intactas = Seleciona(modo, busca)], 1)
  BY DEF Abrir
<1> DEFINE S == Seleciona(modo, busca)
           l == [Parado EXCEPT !.modo = modo, !.busca = busca, !.limite = limite,
                               !.intactas = S]
<1>2. UNCHANGED <<tabela, agora>>
  BY DEF Abrir
<1>3. S \in SUBSET Linhas
  BY DEF Seleciona, Existentes
<1>4. leitor' = [l EXCEPT !.pc = "pagina", !.pagina = 1, !.falta = {"dados", "total"},
                          !.dados = <<>>, !.total = 0]
  BY <1>1 DEF Pede
<1> HIDE DEF S
<1>5. /\ l \in Leitor /\ l.modo = modo /\ l.busca = busca /\ l.limite = limite
      /\ l.intactas = S /\ l.lidas = <<>> /\ l.saiu = FALSE /\ l.quieta = TRUE
  <2>1. modo \in {"todas", "ativas"} /\ limite \in Limites \cup {1} /\ busca \in Buscas \cup {{}}
    OBVIOUS
  <2>2. l \in Leitor
    BY <1>3, <2>1, LeitorParado DEF Leitor
  <2>3. QED
    BY <2>2 DEF Parado
<1> HIDE DEF l
<1>6. <<>> \in Seq(Linhas) /\ Len(<<>>) = 0 /\ limite \in Nat \ {0}
  BY Parametros
<1>7. leitor' \in Leitor
  BY <1>4, <1>5, <1>6 DEF Leitor
<1>8. /\ leitor'.modo = modo /\ leitor'.busca = busca /\ leitor'.limite = limite
      /\ leitor'.intactas = S /\ leitor'.saiu = FALSE /\ leitor'.quieta = TRUE
      /\ leitor'.pc = "pagina" /\ leitor'.pagina = 1 /\ leitor'.falta = {"dados", "total"}
      /\ leitor'.dados = <<>> /\ leitor'.lidas = <<>>
  BY <1>4, <1>5 DEF Leitor
<1>9. Lista' = S
  BY <1>2, <1>8 DEF Lista, Seleciona, Existentes, S
<1>10. Pulo' = 0
  <2>1. Pulo' = (1 - 1) * limite
    BY <1>8 DEF Pulo
  <2>2. QED
    BY <1>6, <2>1
<1>11. TypeOK'
  BY <1>2, <1>6, <1>7, <1>8 DEF TypeOK
<1>12. Curso'
  BY <1>8, <1>9 DEF Curso, Lendo
<1>13. Completa'
  <2>1. ASSUME NEW x
        PROVE  Aguarda(x)'
    <3>1. Lugar(x)' >= Pulo'
      BY <1>10, LugarDepois
    <3>2. QED
      BY <1>8, <3>1 DEF Aguarda
  <2>2. QED
    BY <2>1 DEF Completa
<1>14. Exata'
  <2>1. Corresponde(leitor.lidas, 0)'
    BY <1>6, <1>8 DEF Corresponde
  <2>2. Len(leitor.lidas)' = Pulo' /\ Pulo' <= Cardinality(Lista)'
    BY <1>6, <1>8, <1>10, LugarDepois
  <2>3. Inicio'
    BY <1>8, <2>1, <2>2 DEF Inicio
  <2>4. QED
    BY <2>3 DEF Exata
<1>15. QED
  BY <1>11, <1>12, <1>13, <1>14

LEMMA EfeitoFechar ==
  ASSUME InvarianteConsultas, Fechar
  PROVE  InvarianteConsultas'
<1>1. leitor' = Parado /\ UNCHANGED <<tabela, agora>>
  BY DEF Fechar
<1>2. TypeOK'
  BY <1>1, LeitorParado DEF InvarianteConsultas, TypeOK
<1>3. ~ Lendo' /\ leitor'.falta = {} /\ leitor'.pc # "pagina"
  BY <1>1, LeitorParado DEF Lendo
<1>4. Curso' /\ Completa' /\ Exata'
  BY <1>3 DEF Curso, Completa, Exata
<1>5. QED
  BY <1>2, <1>4 DEF InvarianteConsultas

LEMMA EfeitoPassar ==
  ASSUME InvarianteConsultas, Passar \/ UNCHANGED vars
  PROVE  InvarianteConsultas'
<1>1. tabela' = tabela /\ leitor' = leitor /\ agora' \in 1 .. MaxInstante
  BY Parametros DEF Passar, vars, InvarianteConsultas, TypeOK
<1>2. TypeOK'
  BY <1>1 DEF InvarianteConsultas, TypeOK
<1>3. /\ Lista' = Lista
      /\ \A x : Lugar(x)' = Lugar(x) /\ (SemGemea(x)' <=> SemGemea(x))
  BY <1>1, MesmaLista
<1>4. Curso' /\ Completa' /\ Exata'
  BY <1>1, <1>3, MesmoLeitor DEF InvarianteConsultas
<1>5. QED
  BY <1>2, <1>4 DEF InvarianteConsultas

-----------------------------------------------------------------------------
(* The steps of the others.                                                *)

\* More rows before x, or as many, and it is still to come.
LEMMA AguardaAinda ==
  ASSUME NEW x, Aguarda(x), Lugar(x) \in Nat, Lugar(x)' \in Nat, Lugar(x)' >= Lugar(x),
         leitor.pagina \in Nat, leitor.limite \in Nat, Pulo \in Int,
         leitor'.pc = leitor.pc, leitor'.lidas = leitor.lidas, leitor'.falta = leitor.falta,
         leitor'.dados = leitor.dados, leitor'.pagina = leitor.pagina,
         leitor'.limite = leitor.limite
  PROVE  Aguarda(x)'
<1>1. Pulo' = Pulo
  BY DEF Pulo
<1>2. Lidas' = Lidas
  BY DEF Lidas
<1> DEFINE a == Pulo
           c == leitor.limite
           m == Lugar(x)
           k == Lugar(x)'
<1>3. a \in Int /\ c \in Int /\ m \in Int /\ k \in Int /\ k >= m
  OBVIOUS
<1> HIDE DEF a, c, m, k
<1>4. (m >= a => k >= a) /\ (m >= a + c => k >= a + c)
  BY <1>3
<1>5. (Lugar(x) >= Pulo => Lugar(x)' >= Pulo')
      /\ (Lugar(x) >= Pulo + leitor.limite => Lugar(x)' >= Pulo' + leitor'.limite)
  BY <1>1, <1>4 DEF a, c, m, k
<1>6. QED
  BY <1>2, <1>5 DEF Aguarda

LEMMA MaisNaFrente ==
  ASSUME TypeOK, NEW x, Frente(x) \subseteq Frente(x)'
  PROVE  Lugar(x) \in Nat /\ Lugar(x)' \in Nat /\ Lugar(x)' >= Lugar(x)
<1>1. IsFiniteSet(Frente(x)') /\ Lugar(x) \in Nat /\ Lugar(x)' \in Nat
  BY ListaFinita, LugarDepois
<1>2. Cardinality(Frente(x)) <= Cardinality(Frente(x)')
  BY <1>1, FS_Subset
<1>3. QED
  BY <1>1, <1>2 DEF Lugar

LEMMA PuloInteiro ==
  ASSUME TypeOK
  PROVE  Pulo \in Int /\ leitor.pagina \in Nat /\ leitor.limite \in Nat
<1>1. leitor.pagina \in Nat /\ leitor.limite \in Nat
  BY TipoLeitor
<1>2. QED
  BY <1>1 DEF Pulo

LEMMA EfeitoCriar ==
  ASSUME InvarianteConsultas, NEW w \in Linhas, Criar(w)
  PROVE  InvarianteConsultas'
<1> USE DEF InvarianteConsultas
<1> DEFINE nova == [criada |-> agora, status |-> "RECEIVED"]
<1>1. /\ tabela[w] = Nada /\ tabela' = [tabela EXCEPT ![w] = nova]
      /\ leitor' = [leitor EXCEPT !.quieta = FALSE] /\ agora' = agora
  BY DEF Criar
<1>2. leitor \in Leitor /\ tabela \in [Linhas -> {Nada} \cup Linha] /\ agora \in 1 .. MaxInstante
  BY DEF TypeOK
<1>3. nova \in Linha /\ nova # Nada
  BY <1>2, Parametros DEF Linha
<1> HIDE DEF nova
<1>4. /\ leitor'.pc = leitor.pc /\ leitor'.modo = leitor.modo /\ leitor'.busca = leitor.busca
      /\ leitor'.limite = leitor.limite /\ leitor'.pagina = leitor.pagina
      /\ leitor'.falta = leitor.falta /\ leitor'.dados = leitor.dados
      /\ leitor'.lidas = leitor.lidas /\ leitor'.intactas = leitor.intactas
      /\ leitor'.saiu = leitor.saiu /\ leitor'.quieta = FALSE /\ leitor' \in Leitor
  BY <1>1, <1>2 DEF Leitor
<1>5. TypeOK'
  <2>1. tabela' \in [Linhas -> {Nada} \cup Linha]
    BY <1>1, <1>2, <1>3
  <2>2. QED
    BY <1>1, <1>2, <1>4, <2>1 DEF TypeOK
<1>6. /\ \A x \in Existentes : x # w /\ tabela'[x] = tabela[x]
      /\ Existentes \subseteq Existentes'
  BY <1>1, <1>2 DEF Existentes
<1>7. Lista \subseteq Existentes /\ Lista \subseteq Lista'
  <2>1. Lista \subseteq Existentes
    BY ListaFinita
  <2>2. ASSUME NEW x \in Lista
        PROVE  x \in Lista'
    <3>1. x \in Existentes /\ x \in Existentes' /\ tabela'[x] = tabela[x]
      BY <1>6, <2>1
    <3>2. QED
      BY <1>4, <3>1 DEF Lista, Seleciona
  <2>3. QED
    BY <2>1, <2>2
<1>8. Curso'
  BY <1>4, <1>7 DEF Curso, Lendo
<1>9. Completa'
  <2>1. SUFFICES ASSUME Lendo, ~ leitor.saiu, NEW x \in leitor.intactas, SemGemea(x)'
                 PROVE  Aguarda(x)'
    BY <1>4 DEF Completa, Lendo
  <2>2. x \in Lista /\ x \in Existentes
    BY <1>7, <2>1 DEF Curso
  <2>3. SemGemea(x)
    BY <1>6, <2>1, <2>2 DEF SemGemea
  <2>4. Aguarda(x)
    BY <2>1, <2>3 DEF Completa
  <2>5. Frente(x) \subseteq Frente(x)'
    <3>1. ASSUME NEW y \in Frente(x)
          PROVE  y \in Frente(x)'
      <4>1. y \in Lista /\ y \in Existentes /\ Antes(leitor.modo, y, x)
        BY <1>7 DEF Frente
      <4>2. tabela'[y] = tabela[y] /\ tabela'[x] = tabela[x]
        BY <1>6, <2>2, <4>1
      <4>3. Antes(leitor.modo, y, x)'
        BY <1>4, <4>1, <4>2 DEF Antes
      <4>4. QED
        BY <1>7, <4>1, <4>3 DEF Frente
    <3>2. QED
      BY <3>1
  <2>6. QED
    BY <1>4, <2>4, <2>5, MaisNaFrente, PuloInteiro, AguardaAinda
<1>10. Exata'
  BY <1>4 DEF Exata
<1>11. QED
  BY <1>5, <1>8, <1>9, <1>10

LEMMA EfeitoRemover ==
  ASSUME InvarianteConsultas, NEW w \in Linhas, Remover(w)
  PROVE  InvarianteConsultas'
<1> USE DEF InvarianteConsultas
<1>1. /\ tabela' = [tabela EXCEPT ![w] = Nada] /\ agora' = agora
      /\ leitor' = [leitor EXCEPT !.quieta = FALSE, !.saiu = TRUE, !.intactas = @ \ {w}]
  BY DEF Remover
<1>2. leitor \in Leitor /\ tabela \in [Linhas -> {Nada} \cup Linha]
  BY DEF TypeOK
<1>3. /\ leitor'.pc = leitor.pc /\ leitor'.modo = leitor.modo /\ leitor'.busca = leitor.busca
      /\ leitor'.limite = leitor.limite /\ leitor'.pagina = leitor.pagina
      /\ leitor'.falta = leitor.falta /\ leitor'.dados = leitor.dados
      /\ leitor'.lidas = leitor.lidas /\ leitor'.intactas = leitor.intactas \ {w}
      /\ leitor'.saiu = TRUE /\ leitor'.quieta = FALSE /\ leitor' \in Leitor
  BY <1>1, <1>2 DEF Leitor
<1>4. TypeOK'
  BY <1>1, <1>2, <1>3 DEF TypeOK
<1>5. ASSUME NEW x \in Lista, x # w
      PROVE  x \in Lista'
  <2>1. x \in Existentes /\ x \in Linhas
    BY ListaFinita
  <2>2. tabela'[x] = tabela[x] /\ x \in Existentes'
    BY <1>1, <1>2, <1>5, <2>1 DEF Existentes
  <2>3. QED
    BY <1>3, <2>2 DEF Lista, Seleciona
<1>6. Curso'
  BY <1>3, <1>5 DEF Curso, Lendo
<1>7. Completa' /\ Exata'
  BY <1>3 DEF Completa, Exata
<1>8. QED
  BY <1>4, <1>6, <1>7

LEMMA EfeitoMudarStatus ==
  ASSUME InvarianteConsultas, NEW w \in Linhas, MudarStatus(w)
  PROVE  InvarianteConsultas'
<1> USE DEF InvarianteConsultas
<1>1. PICK st \in Status :
        /\ tabela' = [tabela EXCEPT ![w].status = st]
        /\ leitor' = IF leitor.modo = "todas" THEN leitor
                     ELSE [leitor EXCEPT
                             !.quieta = FALSE, !.intactas = @ \ {w},
                             !.saiu = @ \/ Prioridade(st) > Prioridade(tabela[w].status)]
  BY DEF MudarStatus
<1>2. leitor \in Leitor /\ tabela \in [Linhas -> {Nada} \cup Linha]
  BY DEF TypeOK
<1>3. tabela[w] \in Linha /\ tabela[w] # Nada /\ agora' = agora
  BY <1>2 DEF MudarStatus
<1> DEFINE nova == [criada |-> tabela[w].criada, status |-> st]
<1>4. nova \in Linha /\ nova # Nada /\ tabela' = [tabela EXCEPT ![w] = nova]
  <2>1. nova \in Linha
    BY <1>3 DEF Linha
  <2>2. [tabela[w] EXCEPT !.status = st] = nova
    BY <1>3 DEF Linha
  <2>3. QED
    BY <1>1, <2>1, <2>2, Parametros
<1> HIDE DEF nova
<1>5. nova.criada = tabela[w].criada /\ nova.status = st
  BY DEF nova
<1>6. tabela' \in [Linhas -> {Nada} \cup Linha]
  BY <1>2, <1>4
<1>7. /\ \A x \in Linhas : x # w => tabela'[x] = tabela[x]
      /\ tabela'[w] = nova /\ Existentes' = Existentes
      /\ \A x \in Linhas : tabela'[x].criada = tabela[x].criada
  <2>1. \A x \in Linhas : tabela'[x] = IF x = w THEN nova ELSE tabela[x]
    BY <1>2, <1>4
  <2>2. QED
    BY <1>3, <1>4, <1>5, <2>1 DEF Existentes
<1>8. \A x \in Linhas : SemGemea(x)' <=> SemGemea(x)
  BY <1>7 DEF SemGemea, Existentes
<1>9. CASE leitor.modo = "todas"
  <2>1. leitor' = leitor
    BY <1>1, <1>9
  <2>2. TypeOK'
    BY <1>3, <1>6, <2>1 DEF TypeOK
  <2>3. Lista' = Lista
    BY <1>7, <1>9, <2>1 DEF Lista, Seleciona
  <2>4. ASSUME NEW x \in Linhas
        PROVE  Lugar(x)' = Lugar(x)
    <3>1. ASSUME NEW y \in Lista
          PROVE  Antes(leitor.modo, y, x)' <=> Antes(leitor.modo, y, x)
      <4>1. y \in Linhas
        BY ListaFinita
      <4>2. QED
        BY <1>7, <1>9, <2>1, <4>1 DEF Antes
    <3>2. Frente(x)' = Frente(x)
      BY <2>3, <3>1 DEF Frente
    <3>3. QED
      BY <3>2 DEF Lugar
  <2>5. Curso' /\ Completa' /\ Exata'
    BY <1>8, <2>1, <2>3, <2>4, MesmoLeitor
  <2>6. QED
    BY <2>2, <2>5
<1>10. CASE leitor.modo # "todas"
  <2>1. leitor' = [leitor EXCEPT !.quieta = FALSE, !.intactas = @ \ {w},
                     !.saiu = @ \/ Prioridade(st) > Prioridade(tabela[w].status)]
    BY <1>1, <1>10
  <2>2. /\ leitor'.pc = leitor.pc /\ leitor'.modo = leitor.modo /\ leitor'.busca = leitor.busca
        /\ leitor'.limite = leitor.limite /\ leitor'.pagina = leitor.pagina
        /\ leitor'.falta = leitor.falta /\ leitor'.dados = leitor.dados
        /\ leitor'.lidas = leitor.lidas /\ leitor'.intactas = leitor.intactas \ {w}
        /\ leitor'.saiu = (leitor.saiu \/ Prioridade(st) > Prioridade(tabela[w].status))
        /\ leitor'.quieta = FALSE /\ leitor' \in Leitor
    BY <1>2, <2>1 DEF Leitor
  <2>3. TypeOK'
    BY <1>3, <1>6, <2>2 DEF TypeOK
  <2>4. ASSUME NEW x \in Lista, x # w
        PROVE  x \in Lista' /\ x \in Linhas /\ tabela'[x] = tabela[x]
    <3>1. x \in Existentes /\ x \in Linhas
      BY ListaFinita
    <3>2. tabela'[x] = tabela[x] /\ x \in Existentes'
      BY <1>7, <2>4, <3>1
    <3>3. QED
      BY <2>2, <3>1, <3>2 DEF Lista, Seleciona
  <2>5. Curso'
    BY <2>2, <2>4 DEF Curso, Lendo
  <2>6. Completa'
    <3>1. SUFFICES ASSUME Lendo, ~ leitor'.saiu, NEW x \in leitor'.intactas, SemGemea(x)'
                   PROVE  Aguarda(x)'
      BY <2>2 DEF Completa, Lendo
    <3>2. x \in leitor.intactas /\ x # w /\ x \in Lista /\ x \in Linhas /\ ~ leitor.saiu
      BY <2>2, <3>1, TipoLeitor DEF Curso
    <3>3. Aguarda(x)
      BY <1>8, <3>1, <3>2 DEF Completa
    <3>4. /\ Prioridade(st) \in Nat /\ Prioridade(tabela[w].status) \in Nat
          /\ Prioridade(st) <= Prioridade(tabela[w].status)
      <4>1. Prioridade(st) \in Nat /\ Prioridade(tabela[w].status) \in Nat
        BY Prioridades
      <4>2. ~ Prioridade(st) > Prioridade(tabela[w].status)
        BY <2>2, <3>1
      <4>3. QED
        BY <4>1, <4>2
    <3>5. tabela'[x] = tabela[x]
      BY <2>4, <3>2
    <3>6. Prioridade(tabela[x].status) \in Nat /\ tabela[x].criada \in Nat
          /\ tabela[w].criada \in Nat
      <4>1. x \in Existentes /\ w \in Existentes
        BY <1>3, <3>2, ListaFinita DEF Existentes
      <4>2. QED
        BY <4>1, Tabela
    <3>7. ASSUME NEW y \in Frente(x)
          PROVE  y \in Frente(x)'
      <4>1. y \in Lista /\ Antes(leitor.modo, y, x)
        BY DEF Frente
      <4>2. CASE y # w
        <5>1. y \in Lista' /\ tabela'[y] = tabela[y]
          BY <2>4, <4>1, <4>2
        <5>2. Antes(leitor.modo, y, x)'
          BY <2>2, <3>5, <4>1, <5>1 DEF Antes
        <5>3. QED
          BY <5>1, <5>2 DEF Frente
      <4>3. CASE y = w
        <5>1. w \in Existentes /\ tabela[w].status \notin StatusExcluidos
          BY <1>10, <4>1, <4>3 DEF Lista, Seleciona
        <5>2. ~ Prioridade(tabela[w].status) >= 7
          BY <5>1, Prioridades
        <5>3. ~ Prioridade(st) >= 7
          BY <3>4, <5>2
        <5>4. st \notin StatusExcluidos
          BY <5>3, Prioridades
        <5>5. w \in Lista'
          BY <1>5, <1>7, <1>10, <2>2, <5>1, <5>4 DEF Lista, Seleciona
        <5>6. \/ Prioridade(tabela[w].status) < Prioridade(tabela[x].status)
              \/ /\ Prioridade(tabela[w].status) = Prioridade(tabela[x].status)
                 /\ tabela[w].criada < tabela[x].criada
          BY <1>10, <4>1, <4>3 DEF Antes
        <5>7. \/ Prioridade(st) < Prioridade(tabela[x].status)
              \/ /\ Prioridade(st) = Prioridade(tabela[x].status)
                 /\ tabela[w].criada < tabela[x].criada
          BY <3>4, <3>6, <5>6
        <5>8. tabela'[w].status = st /\ tabela'[w].criada = tabela[w].criada
          BY <1>5, <1>7
        <5>9. Antes(leitor.modo, w, x)'
          BY <1>10, <2>2, <3>5, <5>7, <5>8 DEF Antes
        <5>10. QED
          BY <4>3, <5>5, <5>9 DEF Frente
      <4>4. QED
        BY <4>2, <4>3
    <3>8. Frente(x) \subseteq Frente(x)'
      BY <3>7
    <3>9. QED
      BY <2>2, <3>3, <3>8, MaisNaFrente, PuloInteiro, AguardaAinda
  <2>7. Exata'
    BY <2>2 DEF Exata
  <2>8. QED
    BY <2>3, <2>5, <2>6, <2>7
<1>11. QED
  BY <1>9, <1>10

-----------------------------------------------------------------------------
(* The invariant.                                                          *)

LEMMA Comeco == Init => InvarianteConsultas
<1> SUFFICES ASSUME Init
             PROVE  InvarianteConsultas
  OBVIOUS
<1>1. tabela \in [Linhas -> {Nada} \cup Linha] /\ agora \in 1 .. MaxInstante
  BY Parametros DEF Init
<1>2. leitor = Parado
  BY DEF Init
<1>3. TypeOK
  BY <1>1, <1>2, LeitorParado DEF TypeOK
<1>4. Curso /\ Completa /\ Exata
  BY <1>2, LeitorParado DEF Curso, Completa, Exata, Lendo
<1>5. QED
  BY <1>3, <1>4 DEF InvarianteConsultas

LEMMA Passo == InvarianteConsultas /\ [Next]_vars => InvarianteConsultas'
<1> SUFFICES ASSUME InvarianteConsultas, [Next]_vars
             PROVE  InvarianteConsultas'
  OBVIOUS
<1>1. CASE Abrir
  BY <1>1, EfeitoAbrir
<1>2. CASE LerDados
  BY <1>2, EfeitoLerDados
<1>3. CASE LerTotal
  BY <1>3, EfeitoLerTotal
<1>4. CASE Responder
  BY <1>4, EfeitoResponder
<1>5. CASE Fechar
  BY <1>5, EfeitoFechar
<1>6. CASE Passar \/ UNCHANGED vars
  BY <1>6, EfeitoPassar
<1>7. ASSUME NEW x \in Linhas, Criar(x)
      PROVE  InvarianteConsultas'
  BY <1>7, EfeitoCriar
<1>8. ASSUME NEW x \in Linhas, Remover(x)
      PROVE  InvarianteConsultas'
  BY <1>8, EfeitoRemover
<1>9. ASSUME NEW x \in Linhas, MudarStatus(x)
      PROVE  InvarianteConsultas'
  BY <1>9, EfeitoMudarStatus
<1>10. QED
  BY <1>1, <1>2, <1>3, <1>4, <1>5, <1>6, <1>7, <1>8, <1>9 DEF Next

LEMMA ConsultasCorreta == Spec => []InvarianteConsultas
<1>1. QED
  BY Comeco, Passo, PTL DEF Spec

-----------------------------------------------------------------------------
(* Theorems.                                                               *)

\* Rows and reader keep their shape, and a page has at most as many rows as
\* were asked for, whatever the rows, the terms and the sizes.
THEOREM TipoCorreto == Spec => []TypeOK
<1>1. InvarianteConsultas => TypeOK
  BY DEF InvarianteConsultas
<1>2. QED
  BY <1>1, ConsultasCorreta, PTL

\* skip and take with a count read apart: whatever is created, or moves up,
\* between two pages, the reader misses no row that was there from the start
\* and has its created_at for itself. Only a removal, a move down or a tie
\* makes a listing incomplete.
THEOREM LeituraSempreCompleta == Spec => []LeituraCompleta
<1>1. InvarianteConsultas => LeituraCompleta
  <2>1. SUFFICES ASSUME InvarianteConsultas, leitor.pc = "fim", ~ leitor.saiu,
                        NEW x \in leitor.intactas, SemGemea(x)
                 PROVE  x \in ToSet(leitor.lidas)
    BY DEF LeituraCompleta
  <2>2. Aguarda(x)
    BY <2>1 DEF InvarianteConsultas, Completa, Lendo
  <2>3. QED
    BY <2>1, <2>2 DEF Aguarda, Lidas
<1>2. QED
  BY <1>1, ConsultasCorreta, PTL

\* A row read before another comes before it in the listing.
LEMMA LidasEmOrdem ==
  ASSUME TypeOK, SemGemeas, leitor.intactas = Lista, Corresponde(leitor.lidas, 0),
         NEW i \in 1 .. Len(leitor.lidas), NEW j \in 1 .. Len(leitor.lidas), i < j
  PROVE  Antes(leitor.modo, leitor.lidas[i], leitor.lidas[j])
<1> DEFINE r == leitor.lidas
<1>1. r \in Seq(Linhas) /\ Len(r) \in Nat
  BY TipoLeitor, LenProperties
<1>2. \A k \in 1 .. Len(r) : \A z \in Linhas : r[k] = z => z \in Lista /\ Lugar(z) = 0 + k - 1
  BY DEF Corresponde
<1> HIDE DEF r
<1>3. PICK x \in Linhas : r[i] = x
  BY <1>1 DEF r
<1>4. PICK y \in Linhas : r[j] = y
  BY <1>1 DEF r
<1>5. x \in Lista /\ Lugar(x) = 0 + i - 1 /\ y \in Lista /\ Lugar(y) = 0 + j - 1
  BY <1>2, <1>3, <1>4 DEF r
<1>6. i \in Int /\ j \in Int
  BY <1>1 DEF r
<1>7. Lugar(x) < Lugar(y)
  BY <1>5, <1>6
<1>8. x \in Existentes /\ y \in Existentes /\ x # y
  BY <1>5, <1>6, <1>7, ListaFinita
<1>9. tabela[x].criada # tabela[y].criada
  BY <1>5, <1>8 DEF SemGemeas, SemGemea
<1>10. ASSUME Antes(leitor.modo, y, x)
       PROVE  FALSE
  <2>1. ASSUME NEW z \in Frente(y)
        PROVE  z \in Frente(x)
    <3>1. z \in Lista /\ z \in Existentes /\ Antes(leitor.modo, z, y)
      BY ListaFinita DEF Frente
    <3>2. Antes(leitor.modo, z, x)
      BY <1>8, <1>10, <3>1, OrdemDasLinhas
    <3>3. QED
      BY <3>1, <3>2 DEF Frente
  <2>2. Frente(y) \subseteq Frente(x) /\ IsFiniteSet(Frente(x))
    BY <2>1, ListaFinita
  <2>3. Lugar(y) <= Lugar(x)
    BY <2>2, FS_Subset DEF Lugar
  <2>4. Lugar(x) \in Nat /\ Lugar(y) \in Nat
    BY ListaFinita
  <2>5. QED
    BY <1>7, <2>3, <2>4
<1>11. Antes(leitor.modo, x, y)
  BY <1>8, <1>9, <1>10, OrdemDasLinhas
<1>12. QED
  BY <1>3, <1>4, <1>11 DEF r

LEMMA PaginasBastam ==
  ASSUME NEW n \in Nat, NEW c \in Nat \ {0}
  PROVE  TotalPaginas(n, c) * c \in n .. (n + c - 1)
<1> DEFINE m == n + c - 1
           k == m \div c
           r == m % c
<1>1. m \in Int /\ c \in Int /\ c > 0
  OBVIOUS
<1>2. k \in Int /\ r \in 0 .. c - 1 /\ m = c * k + r
  OBVIOUS
<1>3. m = n + c - 1
  OBVIOUS
<1>4. TotalPaginas(n, c) = k
  BY DEF TotalPaginas
<1> HIDE DEF m, k, r
<1>5. k * c = c * k
  BY <1>1, <1>2
<1> DEFINE p == c * k
<1>6. p \in Int /\ m = p + r
  BY <1>1, <1>2
<1> HIDE DEF p
<1>7. p \in n .. (n + c - 1)
  BY <1>1, <1>2, <1>3, <1>6
<1>8. QED
  BY <1>4, <1>5, <1>7 DEF p

LEMMA OrdemDocumentada ==
  ASSUME NEW s \in ToSet(Documentada)
  PROVE  Prioridade(s) \in DOMAIN Documentada /\ Documentada[Prioridade(s)] = s
<1>1. PICK i \in 1 .. 4 : Documentada[i] = s
  BY DEF ToSet, Documentada
<1>2. Prioridade(Documentada[i]) = i
  BY Prioridades DEF Documentada
<1>3. QED
  BY <1>1, <1>2 DEF Documentada

\* With nothing changing the pages put together are the listing: each row once,
\* in the documented order, the count true and the number of pages enough.
THEOREM LeituraSempreParada == Spec => []LeituraParada
<1>1. InvarianteConsultas => LeituraParada
  <2> DEFINE r == leitor.lidas
             q == [i \in DOMAIN leitor.lidas |-> tabela[leitor.lidas[i]]]
             n == Cardinality(leitor.intactas)
  <2>1. SUFFICES
          ASSUME InvarianteConsultas, leitor.pc = "fim", leitor.quieta, SemGemeas
          PROVE  /\ ToSet(leitor.lidas) = leitor.intactas
                 /\ Len(q) = n /\ Len(q) = leitor.total
                 /\ TotalPaginas(leitor.total, leitor.limite) * leitor.limite
                      \in Len(q) .. (Len(q) + leitor.limite - 1)
                 /\ \A i, j \in DOMAIN q : i < j =>
                      IF leitor.modo = "todas" THEN q[i].criada > q[j].criada
                      ELSE /\ q[i].status = q[j].status => q[i].criada < q[j].criada
                           /\ {q[i].status, q[j].status} \subseteq ToSet(Documentada) =>
                                \E m, k \in DOMAIN Documentada :
                                  /\ m <= k /\ Documentada[m] = q[i].status
                                  /\ Documentada[k] = q[j].status
    BY DEF LeituraParada, SemGemeas
  <2>2. TypeOK /\ Curso /\ Completa /\ Exata /\ Lendo
    BY <2>1 DEF InvarianteConsultas, Lendo
  <2>3. leitor.intactas = Lista /\ ~ leitor.saiu /\ Inicio /\ leitor.falta = {}
    BY <2>1, <2>2 DEF Curso, Exata
  <2>4. Corresponde(leitor.lidas, 0) /\ Len(leitor.lidas) = n /\ leitor.total = n
    BY <2>1, <2>3 DEF Inicio
  <2>5. r \in Seq(Linhas) /\ DOMAIN r = 1 .. n /\ n \in Nat /\ Lista \subseteq Linhas
    BY <2>2, <2>3, <2>4, TipoLeitor, ListaFinita, LenProperties
  <2>6. ToSet(leitor.lidas) = leitor.intactas
    <3>1. ASSUME NEW x \in leitor.intactas
          PROVE  x \in ToSet(leitor.lidas)
      BY <2>1, <2>2, <2>3 DEF Completa, Aguarda, SemGemeas, Lidas
    <3>2. ASSUME NEW i \in DOMAIN r
          PROVE  r[i] \in Lista
      <4>1. PICK x \in Linhas : r[i] = x
        BY <2>5
      <4>2. QED
        BY <2>4, <2>5, <4>1 DEF Corresponde
    <3>3. QED
      BY <2>3, <3>1, <3>2 DEF ToSet
  <2>7. /\ DOMAIN q = 1 .. n
        /\ \A i \in 1 .. n : q[i] = tabela[r[i]] /\ r[i] \in Existentes
    <3>1. \A i \in DOMAIN r : r[i] \in Lista
      BY <2>3, <2>6 DEF ToSet
    <3>2. QED
      BY <2>2, <2>5, <3>1, ListaFinita
  <2>8. Len(q) = n
    <3>1. q = [i \in 1 .. n |-> tabela[r[i]]]
      BY <2>5
    <3> HIDE DEF q, n
    <3>2. QED
      BY <2>5, <3>1
  <2>9. TotalPaginas(leitor.total, leitor.limite) * leitor.limite
          \in n .. (n + leitor.limite - 1)
    <3>1. leitor.limite \in Nat \ {0}
      BY <2>2, TipoLeitor
    <3>2. QED
      BY <2>4, <2>5, <3>1, PaginasBastam
  <2>10. ASSUME NEW i \in 1 .. n, NEW j \in 1 .. n, i < j
         PROVE  IF leitor.modo = "todas" THEN q[i].criada > q[j].criada
                ELSE /\ q[i].status = q[j].status => q[i].criada < q[j].criada
                     /\ {q[i].status, q[j].status} \subseteq ToSet(Documentada) =>
                          \E m, k \in DOMAIN Documentada :
                            /\ m <= k /\ Documentada[m] = q[i].status
                            /\ Documentada[k] = q[j].status
    <3>1. Antes(leitor.modo, r[i], r[j])
      BY <2>1, <2>2, <2>3, <2>4, <2>10, LidasEmOrdem
    <3>2. q[i] = tabela[r[i]] /\ q[j] = tabela[r[j]]
      BY <2>7
    <3> DEFINE a == q[i]
               b == q[j]
    <3>3. IF leitor.modo = "todas" THEN a.criada > b.criada
          ELSE \/ Prioridade(a.status) < Prioridade(b.status)
               \/ Prioridade(a.status) = Prioridade(b.status) /\ a.criada < b.criada
      BY <3>1, <3>2 DEF Antes
    <3>4. Prioridade(a.status) \in Nat /\ Prioridade(b.status) \in Nat
      BY Prioridades
    <3> HIDE DEF a, b
    <3>5. CASE leitor.modo = "todas"
      BY <3>3, <3>5 DEF a, b
    <3>6. CASE leitor.modo # "todas"
      <4>1. a.status = b.status => a.criada < b.criada
        BY <3>3, <3>4, <3>6
      <4>2. Prioridade(a.status) <= Prioridade(b.status)
        BY <3>3, <3>4, <3>6
      <4>3. ASSUME a.status \in ToSet(Documentada), b.status \in ToSet(Documentada)
            PROVE  \E m, k \in DOMAIN Documentada :
                     m <= k /\ Documentada[m] = a.status /\ Documentada[k] = b.status
        BY <4>2, <4>3, OrdemDocumentada
      <4>4. QED
        BY <3>6, <4>1, <4>3 DEF a, b
    <3>7. QED
      BY <3>5, <3>6
  <2> HIDE DEF q, n
  <2>11. QED
    BY <2>4, <2>6, <2>7, <2>8, <2>9, <2>10
<1>2. QED
  BY <1>1, ConsultasCorreta, PTL

=============================================================================
