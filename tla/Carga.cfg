SPECIFICATION Spec
CONSTANTS
  Tamanho <- MCTamanho
  Modelos <- MCModelos
  PosicaoId <- MCPosicaoId
  Take = 2
  ComAtivo <- MCComAtivo
  MaxAlteracoes = 4
INVARIANTS TypeOK UmaOrdemPorModelo RemocaoNaoImpedeCarga
PROPERTIES CargaIdempotente
