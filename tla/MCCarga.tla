------------------------------ MODULE MCCarga -------------------------------
(* Three vehicles of which two get an order, two customers, one service and   *)
(* two parts; an order in diagnosis, one that awaits its approval, and one in *)
(* execution, so that the templates go round the two vehicles. The first      *)
(* vehicles of the table are not the first by identifier.                     *)
EXTENDS Carga

MCTamanho == [t \in Tabelas |->
  CASE t = "usuario" -> 1 [] t = "cliente" -> 2 [] t = "veiculo" -> 3
    [] t = "servico" -> 1 [] t = "peca" -> 2]

MCModelos == SubSeq(OS_TEMPLATES, 2, 4)

\* The customer of the smoke test is the last of the table.
MCComAtivo == {1}

MCPosicaoId == [v \in 0 .. 2 |-> (v + 2) % 3]

=============================================================================
