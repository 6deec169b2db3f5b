SPECIFICATION Spec
CONSTANTS
  p1 = p1
  p2 = p2
  o1 = o1
  o2 = o2
  d1 = d1
  s1 = s1
  s2 = s2
  Nada = Nada
  Pecas <- DuasPecas
  Ordens <- DuasOrdens
  Pedidos <- UmPedido
  Sessoes <- UmaSessao
  Listas <- UmaLista
  Encomendas <- MCEncomendas
  Ajustes <- SoUm
  MaxRecebimentos = 2
  MaxDebitos = 0
  ComFalhas = TRUE
CHECK_DEADLOCK FALSE
SYMMETRY SimetriaOrdens
INVARIANT SaldoFiel
