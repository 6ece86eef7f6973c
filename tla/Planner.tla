------------------------------- MODULE Planner -------------------------------
(***************************************************************************)
(* The pure part of the exporter's planning (pkg/exporter intralayer.go,   *)
(* fingerprint.go, admission.go, baseline.go, resolvemode.go; pkg/diff     *)
(* plan.go), and of the importer's estimate of an image                    *)
(* (pkg/importer/admission.go).                                            *)
(*                                                                         *)
(* A layer is [digest, size, media]; sizes are in MiB, digests are numbers *)
(* for their order. A fingerprint maps the files of a layer to their       *)
(* sizes; the nil fingerprint scores as the empty one does.                *)
(*                                                                         *)
(* An operator whose name ends in Faulty is no part of the model: it is    *)
(* the definition after it with a plausible mistake, kept to show which    *)
(* property notices that mistake.                                          *)
(***************************************************************************)
EXTENDS Integers, Sequences, FiniteSets, Functions, Errors

Least(a, b) == IF a <= b THEN a ELSE b

Digests(list) == {list[k].digest : k \in DOMAIN list}
-----------------------------------------------------------------------------
(* Memory.                                                                 *)

\* 0 stands for automatic.
ResolveWindowLog(user, size) ==
  CASE user # 0                                 -> user
    [] user = 0 /\ size <= 128                  -> 27
    [] user = 0 /\ size > 128 /\ size <= 1024   -> 30
    [] user = 0 /\ size > 1024                  -> 31

\* A window the table does not have counts as the largest.
EstimateRSS(window) ==
  CASE window = 27 -> 256
    [] window = 28 -> 512
    [] window = 29 -> 1024
    [] window = 30 -> 2048
    [] OTHER       -> 4096

Estimate(user, layer) == EstimateRSS(ResolveWindowLog(user, layer.size))

\* checkSingleLayerFitsInBudget; a budget of 0, or below, asks for nothing.
LayersFitFaulty(plans, user, budget) ==
  budget > 0 =>
    \A i \in DOMAIN plans : plans[i].shipped # <<>> =>
      Estimate(user, plans[i].shipped[1]) <= budget

LayersFit(plans, user, budget) ==
  budget > 0 =>
    \A i \in DOMAIN plans : \A k \in DOMAIN plans[i].shipped :
      Estimate(user, plans[i].shipped[k]) <= budget

\* estimatePerImageRSS: the worst of the layers that are in the bundle, with
\* the window the command line leaves automatic.
ImageEstimate(layers, bundled) ==
  LET shipped == {layers[k] : k \in {h \in DOMAIN layers : layers[h].digest \in bundled}}
      estimates == {0} \cup {Estimate(0, l) : l \in shipped}
  IN  CHOOSE e \in estimates : \A f \in estimates : f <= e
-----------------------------------------------------------------------------
(* Fingerprints and the ranking of the baseline's layers.                  *)

Failed == <<>>

\* openDecompressorReader goes by the suffix of the media type: what ends in
\* neither +gzip nor +zstd is read as a plain tar.
Reading(media) == IF media \in {"+gzip", "+zstd"} THEN media ELSE "tar"

\* A blob is [form, files]: FingerprintReader fails when it is in another form.
Fingerprint(blob, media) ==
  IF blob.form = Reading(media) THEN blob.files ELSE Failed

ScoreFaulty(target, candidate) ==
  Cardinality(DOMAIN target \cap DOMAIN candidate)

\* The bytes of the target's files the candidate has too.
Score(target, candidate) ==
  FoldFunctionOnSet(+, 0, target, DOMAIN target \cap DOMAIN candidate)

\* NewPlanner, ensureBaselineFP: what the spool has of a pair's layers; a layer
\* that is not there has no path, and its fingerprint fails.
Seeded(baseline, fingerprints) ==
  [d \in Digests(baseline) |-> IF d \in DOMAIN fingerprints THEN fingerprints[d]
                             ELSE Failed]

Distance(a, b) == IF a > b THEN a - b ELSE b - a

\* The order of PickTopK: score, then size, then digest, then the list's.
Before(baseline, fps, target, size, i, k) ==
  LET s(h) == Score(target, fps[baseline[h].digest])
      d(h) == Distance(baseline[h].size, size)
      n(h) == baseline[h].digest
  IN  \/ s(i) > s(k)
      \/ s(i) = s(k) /\ d(i) < d(k)
      \/ s(i) = s(k) /\ d(i) = d(k) /\ n(i) < n(k)
      \/ s(i) = s(k) /\ d(i) = d(k) /\ n(i) = n(k) /\ i < k

PickTopK(baseline, fps, target, size, k) ==
  [place \in 1..Least(k, Len(baseline)) |->
     baseline[CHOOSE i \in DOMAIN baseline :
       Cardinality({h \in DOMAIN baseline :
         Before(baseline, fps, target, size, h, i)}) = place - 1]]
-----------------------------------------------------------------------------
(* Plans.                                                                  *)

\* The layers of the list that are in the set of digests, in the list's order.
Among(list, digests) ==
  LET upTo[k \in 0..Len(list)] ==
        IF k = 0 THEN <<>>
        ELSE IF list[k].digest \in digests THEN Append(upTo[k - 1], list[k])
        ELSE upTo[k - 1]
  IN  upTo[Len(list)]

\* ComputePlan
ComputePlan(target, baseline) ==
  [baseline |-> baseline,
   required |-> Among(target, Digests(baseline)),
   shipped  |-> Among(target, Digests(target) \ Digests(baseline))]

\* readManifestBundle and selectPlatform: a source is one image, or a list with
\* an image for some platforms.
ManifestError(source, platform, wellFormed) ==
  CASE source.fails # NoError -> ClassifyRegistryErr(source.fails)
    [] source.fails = NoError /\ ~source.list -> NoError
    [] source.fails = NoError /\ source.list /\ platform = "" ->
         Typed("ErrManifestListUnselected")
    [] OTHER -> IF platform \in wellFormed \cap DOMAIN source.images THEN NoError
                ELSE Plain

Layers(source, platform) ==
  IF source.list THEN source.images[platform] ELSE source.images["any"]

\* resolveMode: the mode encodeShipped gets, or the error.
ModeError(mode, zstd) ==
  CASE mode \in {"", "auto", "off"} -> NoError
    [] mode = "required"            -> IF zstd THEN NoError ELSE ErrZstdBinaryMissing
    [] OTHER                        -> Plain

EffectiveMode(mode, zstd) == IF mode # "off" /\ zstd THEN "auto" ELSE "off"
=============================================================================
