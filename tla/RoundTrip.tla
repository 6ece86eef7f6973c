------------------------------ MODULE RoundTrip ------------------------------
(***************************************************************************)
(* A bundle from the exporter's plan to the importer's output: pkg/diff    *)
(* plans which layers of each target to ship, pkg/exporter stores each of  *)
(* them once, whole or as a patch against a baseline layer, pkg/importer   *)
(* checks the baselines it is given, scans every image before it applies   *)
(* any, and serves each layer from the bundle or from the baseline.        *)
(*                                                                         *)
(* A digest stands for the bytes it names.  The manifests and configs that *)
(* the exporter seeds into the bundle are always whole, so only layers are *)
(* modelled.  Encoding one layer and serving one image are single steps    *)
(* here; EncodeRun, BaselineSpool and ImportRun take them apart.           *)
(*                                                                         *)
(* An operator whose name ends in Faulty is no part of the model: it is    *)
(* the definition after it with a plausible mistake, kept to show which    *)
(* property notices that mistake.                                          *)
(***************************************************************************)
EXTENDS Naturals, Sequences, FiniteSets, SequencesExt, Functions

CONSTANTS
  Images,      \* the names of the bundle's pairs
  Digests,     \* the layers there are
  MaxLayers,   \* bound: the layers of a target
  Junk         \* bytes that no digest of Digests names

ASSUME JunkAssumption  == Junk \notin Digests
ASSUME BoundAssumption == IsFiniteSet(Images) /\ MaxLayers \in Nat

VARIABLES
  base,       \* [Images -> SUBSET Digests]: the layers of each baseline
  target,     \* [Images -> Seq(Digests)]: the layers of each target
  listed,     \* the images whose baseline reference names a manifest list
  entries,    \* the sidecar's Blobs: digest -> [encoding, from]
  todo,       \* the (image, layer) encodes that have not run
  given,      \* [Images -> "none", "same", "other"]: baselines at import
  damaged,    \* the blobs of the bundle whose bytes changed on the way
  gone,       \* the layers the baselines can no longer serve
  step,       \* "export", "resolve", "scan", "apply" or "refused"
  status,     \* [Images -> the importer's verdict]
  output      \* [Images -> Seq]: the layers written to each destination

tripVars == <<base, target, listed, entries, todo, given, damaged, gone, step,
              status, output>>

Full      == [encoding |-> "full"]
Patch(f)  == [encoding |-> "patch", from |-> f]
BlobEntry == {Full} \cup {Patch(f) : f \in Digests}
Bytes     == Digests \cup {Junk}

\* A layer as the importer reads it: its bytes, or the error of GetBlob.
Data(b)       == [err |-> "none", bytes |-> b]
ServeError(e) == [err |-> e]

Verdict == {"unseen", "ok", "patchSource", "reuseLayer", "error",
            "applied", "failed"}
-----------------------------------------------------------------------------
(* Exporting.                                                              *)

\* The places of the layers of a target that its baseline has not.
Shipped(i) == {k \in DOMAIN target[i] : target[i][k] \notin base[i]}

RefCountFaulty(d) == 1

\* countShipped is called for every shipped layer of every pair.
RefCount(d) ==
  Cardinality({o \in Images \X (1..MaxLayers) :
                 o[2] \in Shipped(o[1]) /\ target[o[1]][o[2]] = d})

InitialTodo == UNION {{<<i, target[i][k]>> : k \in Shipped(i)} : i \in Images}

TripInit ==
  /\ base \in [Images -> SUBSET Digests]
  /\ target \in [Images -> BoundedSeq(Digests, MaxLayers)]
  /\ listed \in SUBSET Images
  /\ entries = [d \in {} |-> Full]
  /\ todo = InitialTodo
  /\ given = [i \in Images |-> "none"]
  /\ damaged = {}
  /\ gone = {}
  /\ step = "export"
  /\ status = [i \in Images |-> "unseen"]
  /\ output = [i \in Images |-> <<>>]

\* What the planner may decide for a layer of image i: a patch refers to a
\* layer of that image's baseline, and a layer shipped twice is whole.
Encodings(i, d) ==
  IF RefCount(d) > 1 THEN {Full} ELSE {Full} \cup {Patch(f) : f \in base[i]}

\* The encodes run in any order; the first to register a digest wins.
Encode(i, d) ==
  /\ step = "export"
  /\ <<i, d>> \in todo
  /\ todo' = todo \ {<<i, d>>}
  /\ \E e \in Encodings(i, d) :
       entries' = [x \in DOMAIN entries \cup {d} |->
                     IF x \in DOMAIN entries THEN entries[x] ELSE e]
  /\ UNCHANGED <<base, target, listed, given, damaged, gone, step, status, output>>

\* The bundle travels to a place where other baselines may be at hand.
Deliver ==
  /\ step = "export"
  /\ todo = {}
  /\ step' = "resolve"
  /\ given' \in [Images -> {"none", "same", "other"}]
  /\ \E d \in SUBSET DOMAIN entries, g \in SUBSET Digests :
       /\ Cardinality(d \cup g) <= 1
       /\ damaged' = d
       /\ gone' = g
  /\ UNCHANGED <<base, target, listed, entries, todo, status, output>>
-----------------------------------------------------------------------------
(* Importing.                                                              *)

\* The sidecar records the manifest the exporter planned with, the one that
\* selectPlatform chose; the importer hashes the one the reference yields.
SameManifest(i) == given[i] = "same" /\ i \notin listed

\* One baseline that is not the recorded one refuses the whole import.
Resolve ==
  /\ step = "resolve"
  /\ step' = IF \A i \in Images : given[i] = "none" \/ SameManifest(i)
               THEN "scan" ELSE "refused"
  /\ UNCHANGED <<base, target, listed, entries, todo, given, damaged, gone,
                 status, output>>

\* The layers the manifest of the baseline at hand names.
Held(i) == IF given[i] = "same" THEN base[i] ELSE {}

ReuseLayers(i) == {d \in Range(target[i]) : d \notin DOMAIN entries}

PatchSourcesFaulty(i) == {}

PatchSources(i) ==
  {entries[d].from : d \in {e \in Range(target[i]) \cap DOMAIN entries :
                              entries[e].encoding = "patch"}}

\* A missing patch source outweighs a missing layer in the verdict.
Scan(i) ==
  /\ step = "scan"
  /\ status[i] = "unseen"
  /\ status' = [status EXCEPT ![i] =
                  IF given[i] = "none" THEN "error"
                  ELSE IF ~(PatchSources(i) \subseteq Held(i)) THEN "patchSource"
                  ELSE IF ~(ReuseLayers(i) \subseteq Held(i)) THEN "reuseLayer"
                  ELSE "ok"]
  /\ UNCHANGED <<base, target, listed, entries, todo, given, damaged, gone, step,
                 output>>

ScanDone ==
  /\ step = "scan"
  /\ \A i \in Images : status[i] # "unseen"
  /\ step' = "apply"
  /\ UNCHANGED <<base, target, listed, entries, todo, given, damaged, gone,
                 status, output>>

\* What a blob's file decodes to, given the right reference.
Decoded(d) == IF d \in damaged THEN Junk ELSE d

VerifiedFaulty(d, b) == Data(b)

\* The reader hashes what it reads and fails at the end of the file.
Verified(d, b) == IF b = d THEN Data(b) ELSE ServeError("mismatch")

Fetchable(i, d) == d \in Held(i) /\ d \notin gone

ServeReuse(i, d) == IF Fetchable(i, d) THEN Data(d) ELSE ServeError("reuseLayer")
ServeFull(d)     == Verified(d, Decoded(d))
ServePatch(i, d) == IF Fetchable(i, entries[d].from) THEN Verified(d, Decoded(d))
                    ELSE ServeError("patchSource")

GetBlob(i, d) ==
  IF d \notin DOMAIN entries THEN ServeReuse(i, d)
  ELSE IF entries[d].encoding = "full" THEN ServeFull(d)
  ELSE ServePatch(i, d)

Readable(i) == \A d \in Range(target[i]) : GetBlob(i, d).err = "none"

\* copy.Image reads the layers one by one, stops at the first error and writes
\* what it read.
ApplyImage(i) ==
  /\ step = "apply"
  /\ status[i] = "ok"
  /\ IF Readable(i)
       THEN /\ status' = [status EXCEPT ![i] = "applied"]
            /\ output' = [output EXCEPT ![i] =
                 [k \in DOMAIN target[i] |-> GetBlob(i, target[i][k]).bytes]]
       ELSE /\ status' = [status EXCEPT ![i] = "failed"]
            /\ UNCHANGED output
  /\ UNCHANGED <<base, target, listed, entries, todo, given, damaged, gone, step>>

TripNext ==
  \/ \E i \in Images, d \in Digests : Encode(i, d)
  \/ Deliver \/ Resolve \/ ScanDone
  \/ \E i \in Images : Scan(i) \/ ApplyImage(i)

TripSpec == TripInit /\ [][TripNext]_tripVars
-----------------------------------------------------------------------------
(* Properties.                                                             *)

TypeOK ==
  /\ base \in [Images -> SUBSET Digests]
  /\ target \in [Images -> Seq(Digests)]
  /\ listed \in SUBSET Images
  /\ DOMAIN entries \subseteq Digests
  /\ Range(entries) \subseteq BlobEntry
  /\ todo \subseteq Images \X Digests
  /\ given \in [Images -> {"none", "same", "other"}]
  /\ damaged \subseteq Digests
  /\ gone \subseteq Digests
  /\ step \in {"export", "resolve", "scan", "apply", "refused"}
  /\ status \in [Images -> Verdict]
  /\ output \in [Images -> Seq(Bytes)]

Done == step = "apply" /\ \A i \in Images : status[i] # "ok"

Intact == damaged = {} /\ gone = {}

\* The patches that reach image i although they were made for another image's
\* baseline: i has the layer in its own baseline, so it does not ship it.
ForeignPatch(i, d) ==
  /\ d \in Range(target[i]) \cap base[i] \cap DOMAIN entries
  /\ entries[d].encoding = "patch"

\* An image the importer reports as applied has the target's layers, in order,
\* whatever was damaged or lost on the way (serveFull, servePatch).
AppliedIsTarget ==
  \A i \in Images : status[i] = "applied" => output[i] = target[i]

\* The scan foresees the apply: on intact data it passes exactly the images
\* whose every layer GetBlob can serve, so no import fails half-way for want of
\* a layer and none is refused that would have worked.
ScanForesees ==
  Intact /\ Done =>
    \A i \in Images : given[i] = "same" =>
      status[i] # "failed" /\ (status[i] = "applied" <=> Readable(i))

\* With its recorded baseline and an intact bundle an image is applied, unless
\* one of its baseline layers travels as a patch made for another image.
RoundTripHolds ==
  Intact /\ Done =>
    \A i \in Images :
      given[i] = "same" /\ (\A d \in Digests : ~ForeignPatch(i, d)) =>
        status[i] = "applied"

\* What the design document says of the force-full rule: encoding the layers
\* that two images ship whole preserves correctness without looking at which
\* baselines reach a patch's source.
RoundTripAlwaysHolds ==
  Intact /\ Done =>
    \A i \in Images : given[i] = "same" => status[i] = "applied"
=============================================================================
