------------------------------ MODULE Consultas ------------------------------
(***************************************************************************)
(* The paginated listings: findAll of the five repositories (newest first, *)
(* the database skips and takes) and findAllAtivas of the service orders   *)
(* (every active row is read, sorted by priority of status and cut in      *)
(* memory), read page after page while rows come, go and change.           *)
(*                                                                         *)
(* One page is two database calls in flight together, the rows and their   *)
(* count. Rows created in the same millisecond have no order between them: *)
(* each query may return them in another one.                              *)
(***************************************************************************)
EXTENDS Integers, FiniteSets, SequencesExt

CONSTANTS
  Linhas,      \* rows
  Status,      \* those a row takes here, "RECEIVED" among them
  Buscas,      \* rows a search term matches, one set per term
  Limites,     \* page sizes asked for
  MaxInstante, \* bound on created_at
  Nada         \* no row

Linha == [criada : 1..MaxInstante, status : Status]

ASSUME Parametros ==
  /\ IsFiniteSet(Linhas) /\ Nada \notin Linha
  /\ "RECEIVED" \in Status
  /\ Buscas \subseteq SUBSET Linhas
  /\ Limites \subseteq Nat \ {0} /\ MaxInstante \in Nat \ {0}

VARIABLES
  tabela,      \* [criada, status] of each row there is
  agora,       \* the clock created_at is taken from
  leitor       \* who reads the listing, and what it has so far

vars == <<tabela, agora, leitor>>

-----------------------------------------------------------------------------
(* The listings.                                                           *)

\* Mutant: the listing keeps the order of the database.
MutantePrioridade(status) == 1

\* STATUS_PRIORIDADE
Prioridade(status) ==
  SelectInSeq(<<"IN_PROGRESS", "AWAITING_APPROVAL", "UNDER_DIAGNOSIS", "RECEIVED",
                "AWAITING_PARTS", "CLOSED_WITHOUT_EXECUTION", "FINISHED", "DELIVERED">>,
              LAMBDA s : s = status)

StatusExcluidos == {"FINISHED", "DELIVERED"}

Existentes == {x \in Linhas : tabela[x] # Nada}

\* The where clause: buildSearchWhere, or the statuses that are not excluded.
Seleciona(modo, busca) ==
  IF modo = "todas" THEN Existentes \cap busca
  ELSE {x \in Existentes : tabela[x].status \notin StatusExcluidos}

\* x comes before y whatever the query does with rows of one instant.
Antes(modo, x, y) ==
  LET a == tabela[x]
      b == tabela[y] IN
  IF modo = "todas" THEN a.criada > b.criada
  ELSE \/ Prioridade(a.status) < Prioridade(b.status)
       \/ Prioridade(a.status) = Prioridade(b.status) /\ a.criada < b.criada

Ordenacoes(modo, busca) ==
  {q \in SetToSeqs(Seleciona(modo, busca)) :
     \A i, j \in DOMAIN q : i < j => ~Antes(modo, q[j], q[i])}

\* Mutant: the first page is skipped as if it were number zero.
MutantePagina(q, pagina, limite) ==
  SubSeq(q, pagina * limite + 1,
         IF (pagina + 1) * limite < Len(q) THEN (pagina + 1) * limite ELSE Len(q))

\* Mutant: the row after the page is taken along.
MutanteTake(q, pagina, limite) ==
  SubSeq(q, (pagina - 1) * limite + 1,
         IF pagina * limite < Len(q) THEN pagina * limite + 1 ELSE Len(q))

\* calculatePagination, skip and take, slice
Pagina(q, pagina, limite) ==
  SubSeq(q, (pagina - 1) * limite + 1,
         IF pagina * limite < Len(q) THEN pagina * limite ELSE Len(q))

TotalPaginas(total, limite) == (total + limite - 1) \div limite

-----------------------------------------------------------------------------
(* The reader. What it knows of the table's changes is history: "intactas"   *)
(* are rows there from the start and not moved since, "saiu" tells that a   *)
(* row left the listing or moved down in it, "quieta" that none did         *)
(* anything.                                                                *)

Parado == [pc |-> "parado", modo |-> "todas", busca |-> {}, limite |-> 1, pagina |-> 0,
           falta |-> {}, dados |-> <<>>, total |-> 0, lidas |-> <<>>, intactas |-> {},
           saiu |-> FALSE, quieta |-> TRUE]

Init ==
  /\ tabela = [x \in Linhas |-> Nada]
  /\ agora = 1
  /\ leitor = Parado

\* Both queries of a page are sent.
Pede(l, pagina) ==
  [l EXCEPT !.pc = "pagina", !.pagina = pagina, !.falta = {"dados", "total"},
            !.dados = <<>>, !.total = 0]

Abrir ==
  /\ leitor.pc = "parado"
  /\ \E modo \in {"todas", "ativas"}, limite \in Limites, busca \in Buscas :
       /\ modo = "ativas" => busca = Linhas
       /\ leitor' = Pede([Parado EXCEPT !.modo = modo, !.busca = busca, !.limite = limite,
                                        !.intactas = Seleciona(modo, busca)], 1)
  /\ UNCHANGED <<tabela, agora>>

LerDados ==
  /\ "dados" \in leitor.falta
  /\ \E q \in Ordenacoes(leitor.modo, leitor.busca) :
       leitor' = [leitor EXCEPT !.falta = @ \ {"dados"},
                                !.dados = Pagina(q, leitor.pagina, leitor.limite)]
  /\ UNCHANGED <<tabela, agora>>

LerTotal ==
  /\ "total" \in leitor.falta
  /\ leitor' = [leitor EXCEPT !.falta = @ \ {"total"},
                              !.total = Cardinality(Seleciona(leitor.modo, leitor.busca))]
  /\ UNCHANGED <<tabela, agora>>

\* formatPaginatedResponse. External: the reader goes on to the next page until
\* one is not full.
Responder ==
  LET l == [leitor EXCEPT !.lidas = @ \o leitor.dados] IN
  /\ leitor.pc = "pagina" /\ leitor.falta = {}
  /\ leitor' = IF Len(leitor.dados) < leitor.limite THEN [l EXCEPT !.pc = "fim"]
               ELSE Pede(l, leitor.pagina + 1)
  /\ UNCHANGED <<tabela, agora>>

Fechar == leitor.pc = "fim" /\ leitor' = Parado /\ UNCHANGED <<tabela, agora>>

-----------------------------------------------------------------------------
(* Other requests.                                                         *)

Criar(x) ==
  /\ tabela[x] = Nada
  /\ tabela' = [tabela EXCEPT ![x] = [criada |-> agora, status |-> "RECEIVED"]]
  /\ leitor' = [leitor EXCEPT !.quieta = FALSE]
  /\ UNCHANGED agora

Passar == agora < MaxInstante /\ agora' = agora + 1 /\ UNCHANGED <<tabela, leitor>>

Remover(x) ==
  /\ tabela[x] # Nada
  /\ tabela' = [tabela EXCEPT ![x] = Nada]
  /\ leitor' = [leitor EXCEPT !.quieta = FALSE, !.saiu = TRUE, !.intactas = @ \ {x}]
  /\ UNCHANGED agora

\* In which order the statuses come is OrdemServico's; any one here.
MudarStatus(x) ==
  /\ tabela[x] # Nada
  /\ \E st \in Status \ {tabela[x].status} :
       /\ tabela' = [tabela EXCEPT ![x].status = st]
       /\ leitor' = IF leitor.modo = "todas" THEN leitor
                    ELSE [leitor EXCEPT
                            !.quieta = FALSE, !.intactas = @ \ {x},
                            !.saiu = @ \/ Prioridade(st) > Prioridade(tabela[x].status)]
  /\ UNCHANGED agora

Next ==
  \/ Abrir \/ LerDados \/ LerTotal \/ Responder \/ Fechar \/ Passar
  \/ \E x \in Linhas : Criar(x) \/ Remover(x) \/ MudarStatus(x)

Spec == Init /\ [][Next]_vars

-----------------------------------------------------------------------------
(* Properties.                                                             *)

Leitor ==
  [pc : {"parado", "pagina", "fim"}, modo : {"todas", "ativas"}, busca : Buscas \cup {{}},
   limite : Limites \cup {1}, pagina : Nat, falta : SUBSET {"dados", "total"},
   dados : Seq(Linhas), total : Nat, lidas : Seq(Linhas), intactas : SUBSET Linhas,
   saiu : BOOLEAN, quieta : BOOLEAN]

\* Rows and reader keep their shape; a page has at most as many rows as asked.
TypeOK ==
  /\ tabela \in [Linhas -> {Nada} \cup Linha]
  /\ agora \in 1..MaxInstante
  /\ leitor \in Leitor
  /\ Len(leitor.dados) <= leitor.limite

\* No other row of the listing was created in the instant of x.
SemGemea(x) == \A y \in Existentes \ {x} : tabela[y].criada # tabela[x].criada

\* Rows that come in, or move up in the listing, while its pages are read make
\* the reader see a row twice and never miss one: all that was there from the
\* start and did not move itself is read, unless some row left or moved down,
\* or two rows share their created_at.
LeituraCompleta ==
  leitor.pc = "fim" /\ ~leitor.saiu =>
    \A x \in leitor.intactas : SemGemea(x) => x \in ToSet(leitor.lidas)

\* While nothing changes the pages are the listing, cut: no row twice, none
\* missing, the totals true, the newest first; or of the active orders "por
\* prioridade de status: IN_PROGRESS > AWAITING_APPROVAL > UNDER_DIAGNOSIS >
\* RECEIVED. Dentro do mesmo status, as mais antigas aparecem primeiro"
\* (ordem-servico.controller.ts:117).
Documentada == <<"IN_PROGRESS", "AWAITING_APPROVAL", "UNDER_DIAGNOSIS", "RECEIVED">>

LeituraParada ==
  leitor.pc = "fim" /\ leitor.quieta /\ (\A x \in leitor.intactas : SemGemea(x)) =>
    LET q == [i \in DOMAIN leitor.lidas |-> tabela[leitor.lidas[i]]] IN
    /\ ToSet(leitor.lidas) = leitor.intactas
    /\ Len(q) = Cardinality(leitor.intactas) /\ Len(q) = leitor.total
    /\ TotalPaginas(leitor.total, leitor.limite) * leitor.limite \in Len(q)..(Len(q) + leitor.limite - 1)
    /\ \A i, j \in DOMAIN q : i < j =>
         IF leitor.modo = "todas" THEN q[i].criada > q[j].criada
         ELSE /\ q[i].status = q[j].status => q[i].criada < q[j].criada
              /\ {q[i].status, q[j].status} \subseteq ToSet(Documentada) =>
                   \E m, n \in DOMAIN Documentada :
                     m <= n /\ Documentada[m] = q[i].status /\ Documentada[n] = q[j].status

=============================================================================
