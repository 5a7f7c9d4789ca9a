-------------------------- MODULE MCEmisionIndividual --------------------------
(* Small instances of EmisionIndividual for TLC.                            *)
EXTENDS EmisionIndividualRefina, EmisionIndividualInv, TLC

CONSTANTS r1, r2, r3, r4, r5, \* requests
          k1, k2,             \* idempotency keys
          p1, p2,             \* fiscal payloads
          t1, t2              \* tipos de comprobante

\* A double click: every request has the same key and payload
MismaClave   == [r \in Solicitudes |-> k1]
MismoPayload == [r \in Solicitudes |-> p1]

\* r1 alone with one key; r2, its confirming retries and r5 with another key
ClaveDuplicada == [r \in Solicitudes |-> IF r = r1 THEN k1 ELSE k2]
ConfirmanReintentos == [r \in Solicitudes |-> r \in {r3, r4}]

\* r1 and r2 issue different tipos
ClavePropia    == [r \in Solicitudes |-> IF r = r1 THEN k1 ELSE k2]
PayloadPropio  == [r \in Solicitudes |-> IF r = r1 THEN p1 ELSE p2]

\* r5 sends something else with the key of the others
PayloadDeOtro == [r \in Solicitudes |-> IF r = r5 THEN p2 ELSE p1]

UnTipo   == [p \in Payloads |-> t1]
DosTipos == [p \in Payloads |-> IF p = p2 THEN t2 ELSE t1]

SinConfirmar   == [r \in Solicitudes |-> FALSE]
=============================================================================
