------------------------------ MODULE MCAcesso ------------------------------
(* An administrator the seed writes, an e-mail that is both registered and    *)
(* seeded with another role, one customer.                                    *)
EXTENDS Acesso, TLC

CONSTANTS adm, rec, k

MCSemeados == adm :> "ADMIN" @@ rec :> "RECEPCIONISTA"

\* One route of each kind of protection.
MCVisitadas == {"registrar", "entrar", "clientes.criar", "pecas.listar", "ordens.remover",
                "ordens.buscar", "webhook.status", "health"}

Ambiente(producao, gateway, algoritmo, prazo) ==
  [producao |-> producao, gateway |-> gateway, algoritmo |-> algoritmo, prazo |-> prazo,
   emissor |-> producao, segredo |-> TRUE, privada |-> TRUE, publica |-> TRUE,
   chaveCliente |-> TRUE]

Local    == Ambiente(FALSE, FALSE, Nada, Nada)
Gateway  == Ambiente(FALSE, TRUE, Nada, Nada)
Producao == Ambiente(TRUE, TRUE, "RS256", 1)

\* Each of them, and what one wrong variable makes of it.
MCConfigs ==
  {Local, Gateway, Producao}
    \cup {[Gateway EXCEPT !.privada = FALSE], [Gateway EXCEPT !.publica = FALSE],
          [Local EXCEPT !.segredo = FALSE], [Local EXCEPT !.prazo = 0]}
    \cup {[Producao EXCEPT !.privada = FALSE], [Producao EXCEPT !.algoritmo = "HS256"],
          [Producao EXCEPT !.prazo = 2], [Producao EXCEPT !.prazo = Nada],
          [Producao EXCEPT !.emissor = FALSE], [Producao EXCEPT !.gateway = FALSE]}

=============================================================================
