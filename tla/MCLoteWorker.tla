---------------------------- MODULE MCLoteWorker ----------------------------
(* Instances of LoteWorker for TLC.                                         *)
EXTENDS LoteWorkerOrden
CONSTANTS a, b, c, wk, k1, k2, nadie

\* One key; b with a key of its own
UnaClave   == [x \in Solicitudes |-> k1]
ClaveAjena == [x \in Solicitudes |-> IF x = b THEN k2 ELSE k1]

\* What each request asks for
TodasBackground == [x \in Solicitudes |-> "background"]
SyncYBackground == [x \in Solicitudes |-> IF x = a THEN "sync" ELSE "background"]
TodasSync == [x \in Solicitudes |-> "sync"]
BackgroundConDescarte == [x \in Solicitudes |-> IF x = c THEN "descartar" ELSE "background"]
DosGrupos == 1..2
=============================================================================
