--------------------------- MODULE MCPecasInsumos ---------------------------
(* Finite instances of PecasInsumos for TLC.                               *)
EXTENDS PecasInsumos, TLC

CONSTANTS p1, p2, o1, o2, d1, s1, s2

DuasPecas == {p1, p2}
DuasOrdens == {o1, o2}
UmaOrdem == {o1}
UmPedido == {d1}
UmaSessao == {s1}
DuasSessoes == {s1, s2}

\* An order takes one part or both.
MCListas == {{}, {<<p1, 1>>}, {<<p1, 1>>, <<p2, 1>>}}
UmaLista == {{}, {<<p1, 1>>, <<p2, 1>>}}

\* The supplier delivers one of each, of one of them only, or one of them and a
\* quantity of zero of the other.
Positivas == {{<<p1, 1>>, <<p2, 1>>}}
MCEncomendas == Positivas \cup {{<<p1, 1>>}, {<<p1, 1>>, <<p2, 0>>}}

SoUm == {1}

SimetriaSessoes == Permutations(Sessoes)
SimetriaOrdens == Permutations(Ordens)

\* Sound where no list distinguishes the parts (UmaLista, Positivas).
SimetriaPecas ==
  {f @@ g : f \in Permutations(Sessoes), g \in Permutations(Pecas)}

\* Two states are one that differ only in the history that no guard reads and no
\* property of PecasConcorrentes, but for its type.
SemHistoria == <<ordem, catalogo, estoque, reservas, pc, dados, creditos, debitos>>

=============================================================================
