--------------------------- MODULE MCVpsMigracion ---------------------------
(* The sources of VpsExportacion for TLC: what an installation may hold when  *)
(* it is stopped, and each of those with one row altered or missing.          *)
EXTENDS VpsExportacion

H(n) == [punto |-> 1, numero |-> n]
NoHecho == H(9)

Resp(clase, h, comp) ==
    [clase |-> clase, hecho |-> h, comp |-> comp, lote |-> 0, estadoLote |-> "",
     rech |-> {}, noenv |-> {}]
RespLote(clase, estado, rech, noenv) ==
    [Resp(clase, NoHecho, 0) EXCEPT !.lote = 1, !.estadoLote = estado,
                                    !.rech = rech, !.noenv = noenv]

Op(id, tipo, estado, resp, rece, lote) ==
    [id |-> id, tipo |-> tipo, estado |-> estado, resp |-> resp, rece |-> rece, lote |-> lote]
Intento(id, op, grupo, estado, cat, h, comp, guarda) ==
    [id |-> id, op |-> op, grupo |-> grupo, estado |-> estado, cat |-> cat,
     hecho |-> h, comp |-> comp, guarda |-> guarda]
Guarda(id, op, fase) ==
    [id |-> id, op |-> op, fase |-> fase, iniciada |-> fase \notin {"pre_arca", "cerrada_pre_arca"},
     cerrada |-> fase \in GuardaTerminal]
Comp(id, h) == [id |-> id, hecho |-> h, estado |-> "autorizado"]
Grupo(id, estado, comp, h) ==
    [id |-> id, lote |-> 1, estado |-> estado, comp |-> comp, hecho |-> h]
Asoc(op) == [op |-> op, punto |-> 1, valida |-> TRUE]

\* One point, the second revision of production attests the first change of the point
Ledger ==
    [puntos |-> {[id |-> 1, fiscal |-> 2]},
     revisiones |-> {[punto |-> 1, ambiente |-> "homologacion", revision |-> 1, fiscal |-> 1],
                     [punto |-> 1, ambiente |-> "produccion", revision |-> 1, fiscal |-> 1],
                     [punto |-> 1, ambiente |-> "produccion", revision |-> 2, fiscal |-> 2]},
     cabezas |-> {[punto |-> 1, ambiente |-> "homologacion", revision |-> 1],
                  [punto |-> 1, ambiente |-> "produccion", revision |-> 2]}]

Base(ops, asocs, intentos, guardas, comps, journals) ==
    [operaciones |-> ops, asociaciones |-> asocs, intentos |-> intentos, guardas |-> guardas,
     comprobantes |-> comps, journals |-> journals, lotes |-> {}, grupos |-> {}, filas |-> {},
     puntos |-> Ledger.puntos, revisiones |-> Ledger.revisiones, cabezas |-> Ledger.cabezas]

ConLote(f, estado, grupos) ==
    [f EXCEPT !.lotes = {[id |-> 1, estado |-> estado]}, !.grupos = grupos,
              !.filas = {[id |-> g.id, grupo |-> g.id, estado |-> g.estado] : g \in grupos}]

Caso(filas, dada, acabado) == [f |-> filas, arca |-> dada, terminal |-> acabado]
DeArca(op, grupo, h) == [op |-> op, grupo |-> grupo, hecho |-> h]
Arca1 == {DeArca(1, 0, H(1))}

\* An individual operation under its guard
Individual(estado, resp, intento, cat, comp, fase, comps) ==
    Base({Op(1, "individual", estado, resp, {1}, 0)}, {Asoc(1)},
         {Intento(1, 1, 0, intento, cat, H(1), comp, 1)}, {Guarda(1, 1, fase)}, comps, {})

Legacy == Resp("legacy", H(1), 0)

IndividualesTerminales ==
    {Caso(Individual("finalizado", Resp("exito", H(1), 1), "autorizado", "", 1,
                     "cerrada_terminal", {Comp(1, H(1))}), Arca1, TRUE),
     Caso(Individual("fallido", Resp("negativa", H(1), 0), "rechazado_arca", "", 0,
                     "cerrada_terminal", {}), {}, TRUE),
     Caso(Individual("fallido", Resp("negativa", H(1), 0), "fallido_verificado", "", 0,
                     "cerrada_pre_arca", {}), {}, TRUE),
     Caso(Individual("rechazado_arca", Resp("global", H(1), 0), "rechazado_arca", "global", 0,
                     "cerrada_terminal", {}), {}, TRUE),
     \* before guards and snapshots existed
     Caso(Base({Op(1, "individual", "finalizado", Resp("exito", H(1), 1), {}, 0)}, {}, {}, {},
               {Comp(1, H(1))}, {}), Arca1, TRUE),
     Caso(Base({Op(1, "individual", "fallido_verificado", Legacy, {}, 0)}, {},
               {Intento(1, 1, 0, "fallido_verificado", "legacy", H(1), 0, 0)}, {}, {},
               {[id |-> 1, intento |-> 1, resp |-> Legacy, exacto |-> TRUE]}), {}, TRUE),
     \* refused before a number was reserved
     Caso(Base({Op(1, "individual", "fallido", Resp("negativa", H(1), 0), {1}, 0)}, {Asoc(1)},
               {}, {}, {}, {}), {}, TRUE)}

\* Stopped on the way, with or without the answer of ARCA
IndividualesAbiertos ==
    {Caso(Individual("en_proceso", Resp("nula", NoHecho, 0), "en_proceso", "", 0,
                     "pre_arca", {}), {}, FALSE),
     Caso(Individual("en_proceso", Resp("nula", NoHecho, 0), "autorizado", "", 1,
                     "cerrada_terminal", {Comp(1, H(1))}), Arca1, FALSE),
     Caso(Individual("interrumpida_pre_arca", Resp("negativa", H(1), 0), "fallido_verificado", "",
                     0, "cerrada_pre_arca", {}), {}, FALSE),
     Caso(Base({Op(1, "individual", "requiere_confirmacion_duplicado", Resp("pendiente", H(1), 0),
                   {1}, 0)}, {Asoc(1)}, {}, {}, {}, {}), {}, FALSE)}
    \cup {Caso(Individual("en_proceso", Resp("nula", NoHecho, 0), "en_proceso", "", 0,
                          "arca_iniciada", {}), a, FALSE) : a \in {{}, Arca1}}
    \cup {Caso(Individual("requiere_reconciliacion", Resp("incierta", H(1), 0),
                          "requiere_reconciliacion", "", 0, "requiere_reconciliacion", {}),
               a, FALSE) : a \in {{}, Arca1}}

Global(e) == RespLote("global", e, {1}, {2})
OpLote(estado, resp) == Op(1, "procesar", estado, resp, {1}, 1)
ArcaLote == {DeArca(1, 1, H(1)), DeArca(1, 2, H(2))}
ArcaReintento == {DeArca(2, 1, H(1)), DeArca(2, 2, H(2))}
Completos == {Grupo(1, "autorizado", 1, H(1)), Grupo(2, "autorizado", 2, H(2))}
Recibos == {Comp(1, H(1)), Comp(2, H(2))}
Autorizados(op, id) ==
    {Intento(id, op, 1, "autorizado", "", H(1), 1, id), Intento(id + 1, op, 2, "autorizado", "", H(2), 2, id + 1)}
Guardas(op, id) == {Guarda(id, op, "cerrada_terminal"), Guarda(id + 1, op, "cerrada_terminal")}
Rechazo == Intento(1, 1, 1, "rechazado_arca", "global", H(1), 0, 1)

Lotes ==
    {Caso(ConLote(Base({OpLote("finalizado", RespLote("lote", "completado", {}, {}))}, {Asoc(1)},
                       Autorizados(1, 1), Guardas(1, 1), Recibos, {}), "completado", Completos),
          ArcaLote, TRUE),
     Caso(ConLote(Base({OpLote("rechazado_arca", Global("fallido"))}, {Asoc(1)}, {Rechazo},
                       {Guarda(1, 1, "cerrada_terminal")}, {}, {}), "fallido",
                  {Grupo(1, "fallido", 0, NoHecho), Grupo(2, "fallido", 0, NoHecho)}), {}, TRUE),
     \* both groups authorised by a later retry
     Caso(ConLote(Base({OpLote("rechazado_arca", Global("fallido")),
                        Op(2, "reintentar", "finalizado", RespLote("lote", "completado", {}, {}),
                           {1}, 1)}, {Asoc(1), Asoc(2)}, {Rechazo} \cup Autorizados(2, 2),
                       {Guarda(1, 1, "cerrada_terminal")} \cup Guardas(2, 2), Recibos, {}),
                  "completado", Completos), ArcaReintento, TRUE),
     Caso(ConLote(Base({Op(1, "procesar", "finalizado", RespLote("legacy", "fallido", {}, {}), {}, 1)},
                       {}, {Intento(1, 1, 1, "fallido_verificado", "legacy", H(1), 0, 0)}, {}, {},
                       {[id |-> 1, intento |-> 1, resp |-> RespLote("legacy", "fallido", {}, {}),
                         exacto |-> TRUE]}), "fallido",
                  {Grupo(1, "fallido", 0, NoHecho)}), {}, TRUE),
     Caso(ConLote(Base({OpLote("fallido", [RespLote("error", "", {}, {}) EXCEPT !.lote = 0])},
                       {Asoc(1)}, {}, {}, {}, {}), "con_errores",
                  {Grupo(1, "con_error", 0, NoHecho)}), {}, TRUE),
     Caso(ConLote(Base({}, {}, {}, {}, {}, {}), "validado", {Grupo(1, "validado", 0, NoHecho)}),
          {}, TRUE),
     Caso(ConLote(Base({OpLote("en_proceso", RespLote("incierta", "en_cola", {}, {}))}, {Asoc(1)},
                       {}, {}, {}, {}), "en_cola", {Grupo(1, "validado", 0, NoHecho)}), {}, FALSE),
     Caso(ConLote(Base({OpLote("requiere_reconciliacion", RespLote("incierta", "procesando", {}, {}))},
                       {Asoc(1)}, {Intento(1, 1, 1, "en_proceso", "", H(1), 0, 1)},
                       {Guarda(1, 1, "arca_iniciada")}, {}, {}), "requiere_reconciliacion",
                  {Grupo(1, "requiere_reconciliacion", 0, NoHecho)}), {DeArca(1, 1, H(1))}, FALSE)}

Historias == IndividualesTerminales \cup IndividualesAbiertos \cup Lotes

ASSUME HistoriasFieles == \A c \in Historias : Historica(c)

\* Row r of a table replaced by each of rs, or by none
Cambiada(t, r, rs) == {(t \ {r}) \cup {x} : x \in rs \ {r}} \cup {t \ {r}}

Hechos == {H(1), H(2), NoHecho}
EstadosOp == OperacionTerminal \cup {"en_proceso"}
EstadosIntento == IntentoTerminal \cup {"en_proceso"}
FasesGuarda == GuardaTerminal \cup {"arca_iniciada"}
EstadosGrupo == {"validado", "fallido", "autorizado", "requiere_reconciliacion"}

\* What the class of a response may be altered to; nothing else in the source tells
\* how an operation of before the attempts ended
Clases(o) ==
    {o.resp.clase} \cup IF o.rece = {} THEN {} ELSE {"exito", "negativa", "incierta"}

Alteradas(f) ==
    {[f EXCEPT !.operaciones = t] : t \in UNION {Cambiada(f.operaciones, o,
        {[o EXCEPT !.estado = e, !.resp.clase = c, !.resp.comp = n] :
            e \in EstadosOp, c \in Clases(o), n \in 0..1}
        \cup {[o EXCEPT !.resp.hecho = h] : h \in Hechos}) : o \in f.operaciones}}
    \cup {[f EXCEPT !.intentos = t] : t \in UNION {Cambiada(f.intentos, i,
        {[i EXCEPT !.estado = e, !.comp = n] : e \in EstadosIntento, n \in 0..1}
        \cup {[i EXCEPT !.hecho = h] : h \in Hechos}) : i \in f.intentos}}
    \cup {[f EXCEPT !.guardas = t] : t \in UNION {Cambiada(f.guardas, g,
        {[g EXCEPT !.fase = x] : x \in FasesGuarda}) : g \in f.guardas}}
    \cup {[f EXCEPT !.comprobantes = t] : t \in UNION {Cambiada(f.comprobantes, c,
        {[c EXCEPT !.hecho = h] : h \in Hechos} \cup {[c EXCEPT !.estado = "borrador"]})
        : c \in f.comprobantes}}
    \cup {[f EXCEPT !.grupos = t] : t \in UNION {Cambiada(f.grupos, g,
        {[g EXCEPT !.estado = e, !.comp = n] : e \in EstadosGrupo, n \in 0..1})
        : g \in f.grupos}}
    \cup {[f EXCEPT !.asociaciones = t] : t \in UNION {Cambiada(f.asociaciones, a,
        {[a EXCEPT !.valida = FALSE]}) : a \in f.asociaciones}}
    \cup {[f EXCEPT !.revisiones = t] : t \in UNION {Cambiada(f.revisiones, r,
        {[r EXCEPT !.fiscal = n] : n \in 1..3}) : r \in f.revisiones}}

MCCasos == Historias \cup UNION {{Caso(f, c.arca, FALSE) : f \in Alteradas(c.f)} : c \in Historias}
TodoMaterial == {"valido", "sin_archivo", "invalido"}
=============================================================================
