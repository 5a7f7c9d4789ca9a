---------------------------- MODULE LoteWorkerInv ----------------------------
(****************************************************************************)
(* The inductive invariant of LoteWorker: the shape of the rows and of what *)
(* each actor remembers, what the phase of a guard says of ARCA, and whose  *)
(* guard a run may still close.                                             *)
(****************************************************************************)
EXTENDS LoteWorker

----------------------------------------------------------------------------
(* Shapes.                                                                  *)

FilasLote ==
    [estado : EstadosLote, async : BOOLEAN, dueno : Claves \cup {Nadie},
     material : SUBSET Grupos, vieja : BOOLEAN]

FilasOperacion ==
    [estado : EstadosOperacion, resp : Respuestas,
     huella : SUBSET Grupos, material : SUBSET Grupos]

EstadosIntentoLote ==
    {"en_proceso", "autorizado", "rechazado_arca", "fallido_verificado",
     "requiere_reconciliacion"}

\* Phases of a guard whose request may be in ARCA
FasesCruzadas == {"arca_iniciada", "requiere_reconciliacion"}
FasesPrevias == {"pre_arca", "cerrada_pre_arca"}

FilasGuarda ==
    [op : Claves, grupos : SUBSET Grupos,
     fase : FasesPrevias \cup FasesCruzadas \cup {"cerrada_terminal"},
     intento : UNION {[S -> EstadosIntentoLote] : S \in SUBSET Grupos},
     arca : {"no_enviada", "en_vuelo", "procesada", "rechazo_global"},
     aut : SUBSET Grupos]

Memorias ==
    [pc : Pasos, op : Claves \cup {Nadie}, vista : FilasLote, mat : SUBSET Grupos,
     huella : SUBSET Grupos, pend : SUBSET Grupos, sel : SUBSET Grupos,
     sub : SUBSET Grupos, aut : SUBSET Grupos,
     cierre : {"nada", "cerrada_pre_arca", "cerrada_terminal"},
     chunk : Nat, guarda : Int, iniciada : BOOLEAN,
     preflight : {"no", "ok", "error"},
     resp : Respuestas \cup {"ninguna", "conflicto", "elegibilidad", "reintentable",
                             "en_progreso", "en_curso", "post_arca", "bloqueado",
                             "error_interno", "cortada"}]

FilasEnForma ==
    /\ lote \in FilasLote
    /\ grupo \in [Grupos -> EstadosGrupo]
    /\ op \in [Claves -> FilasOperacion]
    /\ guardas \in Seq(FilasGuarda)
    /\ mem \in [Actores -> Memorias]

----------------------------------------------------------------------------
(* The guards and the lote.                                                 *)

\* What ARCA authorised under guard x is not lost
CaeDe(x) ==
    \A g \in x.aut : \/ x.fase \in FasesActivas
                     \/ x.intento[g] \in {"autorizado", "requiere_reconciliacion"}

\* A guard in ARCA is active, one that never crossed was never sent, and only
\* an answered one has authorised groups
GuardaSana(x) ==
    /\ x.intento \in [x.grupos -> EstadosIntentoLote] /\ x.aut \subseteq x.grupos
    /\ x.arca # "procesada" => x.aut = {}
    /\ x.fase \in FasesPrevias => x.arca = "no_enviada"
    /\ x.arca = "en_vuelo" => x.fase \in FasesCruzadas
    /\ CaeDe(x)

GuardasSanas == \A i \in DOMAIN guardas : GuardaSana(guardas[i])

\* A lote queued or running has an owner, and one that had an owner keeps one
ColaConDueno == lote.estado \in Activos => lote.dueno \in Claves

\* An operation that may be created or reclaimed has no stored response
AbiertaSinRespuesta ==
    \A k \in Claves : op[k].estado \in {"inexistente", "interrumpida_pre_arca"}
                         => op[k].resp = "nula"

----------------------------------------------------------------------------
(* What an actor remembers.                                                 *)

\* Steps of an actor that has no operation in hand
SinClave == {"inicio", "descartar", "bloquear", "fin"}

\* Steps in which its own guard is still before ARCA
PorEnviar == {"marcar", "solicitar"}

\* m, the memory of a, is right about guards gs and lote l: it has a key, a guard
\* that exists and, while it may still close that guard, what ARCA answered
MemoriaDe(a, m, gs, l) ==
    /\ m.pc \notin SinClave => m.op \in Claves \/ (a = Worker /\ m.pc = "en_curso")
    /\ m.guarda \in -1..Len(gs)
    /\ m.pc \in PorEnviar \cup {"esperar"} => m.guarda > 0
    /\ m.pc \in PorEnviar => gs[m.guarda].arca = "no_enviada"
    /\ m.pc = "solicitar" => gs[m.guarda].fase \in FasesCruzadas
    /\ m.pc = "aplicar" /\ m.cierre # "nada" => m.guarda > 0
    /\ m.pc = "aplicar" /\ m.cierre = "cerrada_pre_arca" =>
          gs[m.guarda].arca = "no_enviada"
    /\ m.pc = "aplicar" /\ m.cierre = "cerrada_terminal" =>
          gs[m.guarda].arca = "procesada" /\ gs[m.guarda].aut = m.aut
    /\ m.vista.dueno \in Claves => l.dueno \in Claves
    /\ a = Worker /\ m.pc \notin {"inicio", "bloquear"} => l.dueno \in Claves

MemoriasSanas == \A a \in Actores : MemoriaDe(a, mem[a], guardas, lote)

\* A guard is in the memory of the run that reserved it and of no other
GuardaPropia ==
    \A a, b \in Actores : mem[a].guarda > 0 /\ mem[a].guarda = mem[b].guarda => a = b

InductivoLote ==
    /\ FilasEnForma
    /\ GuardasSanas
    /\ ColaConDueno
    /\ AbiertaSinRespuesta
    /\ MemoriasSanas
    /\ GuardaPropia
==============================================================================
