----------------------------- MODULE MCCadastro -----------------------------
(* Two people, one plate, one service: a second vehicle row appears when the  *)
(* plate is registered again after a removal. Two requests in flight.         *)
EXTENDS Cadastro, TLC

CONSTANTS p1, p2, a, b, abc

Ficha(pessoa, grafia, endereco, grafiaEmail) ==
  [documento |-> [numero |-> pessoa, grafia |-> grafia],
   email |-> [endereco |-> endereco, grafia |-> grafiaEmail], nome |-> "preenchido"]

\* The first person with the document written in two ways, the second one with
\* the e-mail in capitals.
MCFichas == {Ficha(p1, "canonica", a, "canonica"), Ficha(p1, "formatada", a, "canonica"),
             Ficha(p2, "canonica", b, "formatada")}

MCPlacas == {[letras |-> abc, grafia |-> "canonica"], [letras |-> abc, grafia |-> "formatada"]}

\* A blank name, and the e-mail of the other person together with a name.
MCAlteracoes ==
  {[nome |-> "em_branco", email |-> Nada],
   [nome |-> "preenchido", email |-> [endereco |-> b, grafia |-> "canonica"]]}

Simetria == Permutations(Clientes) \cup Permutations(Veiculos) \cup Permutations(Sessoes)

=============================================================================
