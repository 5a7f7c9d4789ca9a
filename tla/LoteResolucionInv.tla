--------------------------- MODULE LoteResolucionInv ---------------------------
(****************************************************************************)
(* The inductive invariant of LoteResolucion, by parts.  A retry works on   *)
(* its group from the claim to the commit of what became of it: nobody else *)
(* works on that group, and until its request goes out ARCA has nothing of  *)
(* it.  TLC checks the invariant on the instance of the run.                *)
(****************************************************************************)
EXTENDS LoteResolucion

PasosDeEmision == {"revalidar", "reservar", "marcar", "solicitar", "aplicar"}
Pasos == PasosDeEmision \cup {"inicio", "en_curso", "preparar", "reclamar", "publicar",
                              "recuperar", "recuperar_op", "confirmar", "borrar"}
Resultados == {"nada", "bloqueado", "autorizado", "rechazado", "global", "incierto"}

\* Session a has claimed its group and has not closed it
Ocupa(a) == mem[a].pc \in PasosDeEmision \/ (mem[a].pc = "recuperar" /\ mem[a].g # 0)

\* Its request may have been authorised
Enviado(a) == mem[a].pc = "aplicar" /\ mem[a].res \in {"autorizado", "incierto"}

SinEnvio(a) == Ocupa(a) /\ ~Enviado(a)

\* Phases of a guard whose request may be in ARCA
EnArca == {"arca_iniciada", "requiere_reconciliacion"}
Cerradas == {"cerrada_pre_arca", "cerrada_terminal"}
Antes == {"pre_arca", "cerrada_pre_arca"}

----------------------------------------------------------------------------
(* Shape.                                                                   *)

Tomas == [g : Grupos \cup {0}, estado : {"no", "descartado", "autorizado_externo"},
          numero : Nat, lote : EstadosLote]
Copias == [estado : EstadosLote, dueno : Operaciones \cup {Nadie}, rechazo : Claves \cup {Nadie}]
Memorias ==
    [pc : Pasos, op : Claves \cup {Nadie}, sel : SUBSET Grupos, v : Copias,
     pend : SUBSET Grupos, g : Grupos \cup {0}, cae : Nat, i : Nat, res : Resultados,
     iniciada : BOOLEAN, toma : Tomas]
EstadosIntento == Inciertos \cup {"autorizado", "fallido_verificado", "rechazado_arca"}
FasesGuarda == EnArca \cup Cerradas \cup {"pre_arca"}
FilaDeIntento ==
    [op : Operaciones, grupo : Grupos, estado : EstadosIntento, fase : FasesGuarda,
     numero : Nat]

Formas ==
    /\ TypeOK
    /\ op \in [Operaciones ->
                 [estado : {"inexistente", "en_proceso", "interrumpida_pre_arca", "finalizado",
                            "fallido_verificado", "rechazado_arca", "requiere_reconciliacion"},
                  resp : {"nula", "final", "error"}, sel : SUBSET Grupos]]
    /\ intentos \in Seq(FilaDeIntento)
    /\ arca \in Seq([grupo : Grupos, via : {"propia", "web"}])
    /\ mem \in [Sesiones -> Memorias]
    /\ fallas \in Nat

\* What a key that never answered, or may start again, holds
SinRespuesta ==
    \A k \in Operaciones :
        op[k].estado \in {"inexistente", "interrumpida_pre_arca"} => op[k].resp = "nula"

----------------------------------------------------------------------------
(* Each session.                                                            *)

\* The intento in hand is of its operation and its group
IntentoPropio(a) ==
    /\ mem[a].i \in DOMAIN intentos
    /\ intentos[mem[a].i].op = mem[a].op /\ intentos[mem[a].i].grupo = mem[a].g

Fase(a) == intentos[mem[a].i].fase

\* Where the retry is, and what it holds
Sesion(a) ==
    /\ mem[a].pc \notin {"confirmar", "borrar"} /\ mem[a].toma = Libre
    /\ mem[a].pc # "inicio" => mem[a].op \in Claves
    /\ mem[a].pc \in {"inicio", "preparar", "en_curso"} => mem[a].g = 0 /\ ~mem[a].iniciada
    /\ mem[a].pc = "preparar" => mem[a].sel # {}
    /\ mem[a].pc \in PasosDeEmision \cup {"reclamar"} => mem[a].pend \subseteq mem[a].sel
    /\ mem[a].pc = "reclamar" =>
          /\ mem[a].pend # {} /\ (mem[a].g = 0 \/ mem[a].iniciada)
    /\ Ocupa(a) => mem[a].g \in mem[a].sel
    /\ mem[a].pc \in {"revalidar", "reservar"} => mem[a].i = 0
    /\ mem[a].pc \in {"marcar", "solicitar"} => IntentoPropio(a)
    /\ mem[a].pc = "marcar" => Fase(a) \in Antes
    /\ mem[a].pc = "solicitar" => Fase(a) \in EnArca /\ mem[a].iniciada
    /\ mem[a].pc = "aplicar" =>
          IF mem[a].res = "bloqueado"
          THEN mem[a].i = 0 \/ (IntentoPropio(a) /\ Fase(a) \in Antes)
          ELSE /\ mem[a].res # "nada" /\ mem[a].iniciada
               /\ IntentoPropio(a) /\ Fase(a) \in EnArca
    /\ mem[a].pc = "aplicar" /\ mem[a].res = "autorizado" =>
          intentos[mem[a].i].numero \in DOMAIN arca

\* The lote was its operation's when it claimed, and changes hands only once that
\* operation has answered
Dueno(a) ==
    mem[a].pc \in {"revalidar", "reservar", "marcar"} =>
        /\ mem[a].v.dueno = mem[a].op
        /\ lote.dueno = mem[a].op \/ op[mem[a].op].resp = "final"

\* The other actions are of one session
SesionUsuario ==
    /\ mem[Usuario].pc \in {"inicio", "confirmar", "borrar"}
    /\ mem[Usuario].sel = {}
    /\ IF mem[Usuario].pc = "confirmar"
       THEN mem[Usuario].toma.g # 0 /\ mem[Usuario].toma.estado # "no"
       ELSE mem[Usuario].toma.g = 0

----------------------------------------------------------------------------
(* Groups and ARCA.                                                         *)

\* Nothing of g is in ARCA nor on its way there, but for the intento i
NadaEnArca(g, i) ==
    /\ Propias(g) = {}
    /\ \A j \in DOMAIN intentos :
          intentos[j].grupo = g /\ intentos[j].fase \in EnArca => j = i

UnoPorGrupo ==
    \A a, b \in Reintentos : Ocupa(a) /\ Ocupa(b) /\ mem[a].g = mem[b].g => a = b

EnTrabajo(a) ==
    /\ Ocupa(a) => grupo[mem[a].g].estado
                     \in {"reintentando", "requiere_reconciliacion", "autorizado_externo"}
    /\ SinEnvio(a) => NadaEnArca(mem[a].g, mem[a].i)

Soltables == Con(grupo, Resolubles \cup {"descartado"})

SueltoSinArca == \A g \in Soltables : NadaEnArca(g, 0)

UnaPropia == \A g \in Grupos : \A m, n \in Propias(g) : m = n

\* An own authorisation has an intento
PropiaConIntento == \A g \in Grupos : Propias(g) # {} => intentos # <<>>

VueloEnProceso ==
    \A i \in DOMAIN intentos :
        intentos[i].fase = "arca_iniciada" => intentos[i].estado = "en_proceso"

\* What the user holds until its commit
Toma ==
    LET t == mem[Usuario].toma IN
    mem[Usuario].pc = "confirmar" =>
        /\ t.estado = "descartado" => grupo[t.g].estado \in Resolubles
        /\ t.estado = "autorizado_externo" => t.numero \in DOMAIN arca

----------------------------------------------------------------------------
(* The groups that the user did not reconcile while a request had them.     *)

\* g is resolved for good, or waits for ARCA's answer: no session gives it back
Resuelto(g) ==
    /\ grupo[g].estado \notin Resolubles
    /\ \A a \in Reintentos : SinEnvio(a) => mem[a].g # g

Quieto(g) == g \in cruzados \/ Resuelto(g)

SinNumeroDe(a) ==
    SinEnvio(a) => \/ mem[a].g \in cruzados
                   \/ /\ grupo[mem[a].g].numero = 0
                      /\ grupo[mem[a].g].estado # "autorizado_externo"

SinNumero ==
    /\ \A g \in Soltables : grupo[g].numero = 0 \/ g \in cruzados
    /\ \A a \in Reintentos : SinNumeroDe(a)

TomaFirme ==
    LET t == mem[Usuario].toma IN
    mem[Usuario].pc = "confirmar" =>
        /\ \/ t.g \in cruzados
           \/ /\ t.estado = "descartado" => t.numero = 0
              /\ \A a \in Reintentos : SinEnvio(a) => mem[a].g # t.g
        /\ t.lote \in Cerrados => \A h \in Grupos \ {t.g} : Quieto(h)

CerradoQuieto == lote.estado \in Cerrados => \A g \in Grupos : Quieto(g)

----------------------------------------------------------------------------
(* The rows of a group being retried still say it failed.                   *)

FilaDelReintento ==
    \A a \in Reintentos :
        /\ Ocupa(a) /\ grupo[mem[a].g].estado = "reintentando"
        /\ lote.existe /\ ~lote.compacto
        => fila[mem[a].g] = "fallido"

----------------------------------------------------------------------------
InductivoResolucion ==
    /\ Formas /\ SinRespuesta /\ SesionUsuario
    /\ \A a \in Reintentos : Sesion(a) /\ Dueno(a) /\ EnTrabajo(a)
    /\ UnoPorGrupo /\ SueltoSinArca /\ UnaPropia /\ PropiaConIntento
    /\ VueloEnProceso /\ DuenoDelVuelo /\ Toma
    /\ FilasSiguen /\ FilaDelReintento
    /\ SinNumero /\ TomaFirme /\ CerradoQuieto
=============================================================================
