SPECIFICATION Spec
CONSTANTS
  p1 = p1
  p2 = p2
  a = a
  b = b
  abc = abc
  Clientes = {c1, c2}
  Veiculos = {v1, v2}
  Servicos = {x}
  Ordens = {o1}
  Sessoes = {s1, s2}
  Nada = Nada
  Numeros = {p1, p2}
  Enderecos = {a, b}
  Letras = {abc}
  Fichas <- MCFichas
  Placas <- MCPlacas
  Alteracoes <- MCAlteracoes
SYMMETRY Simetria
INVARIANTS TypeOK IdentidadeUnica OrdemIntegra ConflitoExplicado
PROPERTIES OrdemSaiComMotivo
