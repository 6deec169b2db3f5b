SPECIFICATION FairSpec
CONSTANTS
  o1 = o1
  s1 = s1
  s2 = s2
  nenhuma = nenhuma
  lista = lista
  Nada = Nada
  SemPecas = nenhuma
  Ordens <- MCOrdens
  Listas <- MCListas
  Totais <- MCTotais
  Sessoes <- DuasSessoes
  Isolado = TRUE
  ComFalhas = FALSE
INVARIANT DecisaoConcluida
PROPERTY RequisicaoTermina
PROPERTY DecisaoProduzEfeito
