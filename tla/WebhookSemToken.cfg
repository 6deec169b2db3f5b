SPECIFICATION Spec
CONSTANTS
  adm = adm
  rec = rec
  k = k
  Contas = {adm, rec}
  Clientes = {k}
  Sessoes = {s1}
  Nada = Nada
  Semeados <- MCSemeados
  Configs <- MCConfigs
  Visitadas <- MCVisitadas
  PrazoMaximo = 1
  Registraveis = {"ADMIN", "MECANICO"}
INVARIANT WebhookSoComSegredo
