--------------------------- MODULE VpsImportacionInv ---------------------------
(* What always holds between the journals of the imports, the directory and   *)
(* the target, and is enough to go on holding after every step.               *)
EXTENDS VpsImportacion

FormaCorrida == [pc : Pasos, n : 0..MaxCorridas, existian : SUBSET Archivos,
             hechos : SUBSET Archivos, creados : SUBSET Archivos, quedan : SUBSET Archivos]

Forma ==
    /\ imp \in [Importadores -> FormaCorrida]
    /\ \A i \in Importadores : Corriendo(i) => imp[i].n > 0
    /\ tocados \subseteq Archivos
    /\ externos \in Nat
    /\ deAUno \in BOOLEAN

\* A file of the run of a process is in its journal, and no file is of a run that
\* has not begun
DiarioCompleto ==
    \A f \in Archivos : disco[f] # Ninguno =>
        \A i \in Importadores :
            /\ disco[f].de = Corrida(i) => f \in imp[i].creados
            /\ \A n \in 1..MaxCorridas : disco[f].de = <<i, n>> => n <= imp[i].n

\* What is copied is still to be done and was not there when the run was planned;
\* the handler of an interrupted link has entered its name
CopiaNueva ==
    \A i \in Importadores :
        /\ imp[i].pc \in {"copiando", "compensar"} => imp[i].hechos # Archivos
        /\ imp[i].pc = "copiando" => Siguiente(i) \notin imp[i].existian
        /\ imp[i].pc = "compensar" => Siguiente(i) \in imp[i].creados

\* Nothing was given up before the cleanup; a complete one has an empty journal
\* and no temporary file
LimpiezaEnCurso ==
    \A i \in Importadores :
        /\ imp[i].pc \in EnCuerpo \cup {"planificado", "commit"} => imp[i].quedan = {}
        /\ imp[i].pc = "limpio" => imp[i].creados = {} /\ Corrida(i) \notin temporales

\* From its look at the target to its COMMIT, a run keeps the clean seeds for itself
SemillaBajoCandado ==
    \A i \in Importadores :
        imp[i].pc \in (EnCuerpo \ {"comprobar"}) \cup {"commit"} => base = "semilla"

UnaPorVez ==
    deAUno => \A i, j \in Importadores : Corriendo(i) /\ Corriendo(j) => i = j

\* One import at a time: the one about to commit, and then the package, have their
\* files, and a later run finds them there and does not count them as its own
PaqueteEnDisco ==
    deAUno =>
        /\ \A i \in Importadores : imp[i].pc = "commit" => \A f \in Archivos \ tocados : Igual(f)
        /\ base = "paquete" =>
              /\ \A f \in Archivos \ tocados : Igual(f)
              /\ \A i \in Importadores : Corriendo(i) => Archivos \ tocados \subseteq imp[i].existian

InductivoImportacion ==
    /\ TypeOK /\ Forma /\ ReintentoPosible /\ DiarioCompleto /\ CopiaNueva /\ LimpiezaEnCurso
    /\ SemillaBajoCandado /\ UnaPorVez /\ PaqueteEnDisco
=============================================================================
