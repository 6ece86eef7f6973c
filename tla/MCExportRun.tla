---------------------------- MODULE MCExportRun ----------------------------
(* Two pairs: the baseline of the first has the layers p and q, that of the *)
(* second q and r.                                                          *)
EXTENDS ExportRun

CONSTANTS p, q, r

MCOrder == <<p, q, q, r>>
=============================================================================
