SPECIFICATION Spec

CONSTANTS
    Casos <- MCCasos
    Materiales <- TodoMaterial
    Ninguno = Ninguno
    MaxExportes = 2
    MaxReenvios = 1

INVARIANT ExportacionFiel
INVARIANT UnaSolaAutorizacion
INVARIANT RestauracionFiel
INVARIANT TerminalMigrable

CHECK_DEADLOCK FALSE
