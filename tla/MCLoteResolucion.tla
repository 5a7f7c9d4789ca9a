-------------------------- MODULE MCLoteResolucion --------------------------
(* Instances of LoteResolucion for TLC.                                     *)
EXTENDS LoteResolucionInv, TLC
CONSTANTS r1, r2, k1, k2

DosGrupos == 1..2

\* Two failed; one issued and one failed; an upload with an error, processed or
\* not; an uncertain group after a failed one
Restos ==
    {<<"fallido", "fallido">>, <<"autorizado", "fallido">>, <<"con_error", "fallido">>,
     <<"con_error", "con_error">>, <<"fallido", "requiere_reconciliacion">>}

\* Everything with one key, the last group alone with the other
TodoYUltimo == k1 :> {{1, 2}} @@ k2 :> {{2}}

Simetria == Permutations({r1, r2})
=============================================================================
