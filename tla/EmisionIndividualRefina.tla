------------------------ MODULE EmisionIndividualRefina ------------------------
(* EmisionIndividual implements EmisionUnica: the refinement mapping.       *)
EXTENDS EmisionIndividual

Decidida(k, destinos) ==
    \E i \in Solicitudes : K(i) = k /\ arca[i] \in destinos

\* The fate of a key is the fate of whichever of its requests reached ARCA
EnvioDe ==
    [k \in Claves |->
        IF Decidida(k, {"A"}) THEN "autorizada"
        ELSE IF Decidida(k, {"R", "10005"}) THEN "rechazada"
        ELSE IF Decidida(k, {"en_vuelo"}) THEN "enviada"
        ELSE "libre"]

RegistroDe == {k \in Claves : op[k].estado = "finalizado"}

InformadaDe ==
    {k \in Claves : \E r \in Solicitudes :
        K(r) = k /\ sol[r].pc = "fin" /\ sol[r].resp.clase = "exito"}

Unica == INSTANCE EmisionUnica
         WITH envio <- EnvioDe, registro <- RegistroDe, informada <- InformadaDe

\* Whatever the requests of a key do, crash or race for, what can be seen of
\* the key is a behaviour of EmisionUnica.
RefinaEmisionUnica == Unica!SpecUnica
=============================================================================
