SPECIFICATION Spec
CONSTANTS
  o1 = o1
  s1 = s1
  s2 = s2
  nenhuma = nenhuma
  lista = lista
  Nada = Nada
  SemPecas = nenhuma
  Ordens <- MCOrdens
  Listas <- MCListas
  Totais <- DoisTotais
  Sessoes <- DuasSessoes
  Isolado = FALSE
  ComFalhas = TRUE
SYMMETRY Simetria
INVARIANT TypeOK
INVARIANT MarcosNaoPulados
INVARIANT ExecucaoAutorizada
INVARIANT SemOrfaos
INVARIANT InvariantePercurso
