-------------------------- MODULE MCVpsImportacion --------------------------
(* Two import processes and a pair of files for TLC.                          *)
EXTENDS VpsImportacionInv

UnPar == 1..2
=============================================================================
