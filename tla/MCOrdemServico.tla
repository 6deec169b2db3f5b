--------------------------- MODULE MCOrdemServico ---------------------------
(* Finite instances of OrdemServico for TLC.                               *)
EXTENDS OrdemServico, TLC

CONSTANTS o1, s1, s2, nenhuma, lista

MCOrdens == {o1}
MCListas == {nenhuma, lista}
MCTotais == {<<0, 0>>, <<1, 0>>, <<0, 1>>}
DoisTotais == {<<0, 0>>, <<0, 1>>}
DuasSessoes == {s1, s2}
Simetria == Permutations(Sessoes)

=============================================================================
