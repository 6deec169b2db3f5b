SPECIFICATION Spec
CONSTANTS
  p1 = p1
  p2 = p2
  o1 = o1
  o2 = o2
  d1 = d1
  s1 = s1
  s2 = s2
  Nada = Nada
  Pecas <- DuasPecas
  Ordens <- UmaOrdem
  Pedidos <- UmPedido
  Sessoes <- DuasSessoes
  Listas <- UmaLista
  Encomendas <- Positivas
  Ajustes <- SoUm
  MaxRecebimentos = 1
  MaxDebitos = 0
  ComFalhas = TRUE
CHECK_DEADLOCK FALSE
VIEW SemHistoria
SYMMETRY SimetriaPecas
INVARIANT TypeOK
INVARIANT ReservaLastreada
INVARIANT ReservadasDebitadas
INVARIANT RecebidoCompleto
