SPECIFICATION Spec
CONSTANTS
  x1 = x1
  x2 = x2
  x3 = x3
  Linhas = {x1, x2, x3}
  Status = {"IN_PROGRESS", "RECEIVED", "FINISHED"}
  Buscas <- MCBuscas
  Limites = {1, 2}
  MaxInstante = 3
  Nada = Nada
SYMMETRY Simetria
INVARIANTS TypeOK LeituraCompleta LeituraParada
