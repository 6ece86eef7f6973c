----------------------------- MODULE MCImportRun -----------------------------
(* The values of opts.Strict a run considers.                               *)
EXTENDS ImportRun

Both       == BOOLEAN
StrictOnly == {TRUE}
=============================================================================
