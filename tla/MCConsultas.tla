---------------------------- MODULE MCConsultas ----------------------------
(* Three rows in pages of one and of two, three instants for their creation: *)
(* every row can be at the edge of a page, two can share an instant.         *)
EXTENDS Consultas, TLC

\* Everything, and a term that one of the rows does not match.
MCBuscas == {busca \in SUBSET Linhas : Cardinality(busca) >= 2}

Simetria == Permutations(Linhas)

=============================================================================
