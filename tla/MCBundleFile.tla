----------------------------- MODULE MCBundleFile -----------------------------
(***************************************************************************)
(* Two exports to one path. Of the three targets two differ in their       *)
(* manifests only.                                                         *)
(***************************************************************************)
EXTENDS BundleFile

MCRuns      == 2
MCTargets   == {"v1", "v1a", "v2"}
MCLayerOf   == [t \in Targets |-> IF t = "v2" THEN "new" ELSE "old"]
MCStrangers == {"noTar", "otherTar", "phase1", "newer", "schema", "garbled"}
===============================================================================
