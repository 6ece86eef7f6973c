------------------------------ MODULE CommandRun ------------------------------
(***************************************************************************)
(* One invocation of diffah (cmd, and the single-threaded part of          *)
(* exporter.Export and importer.Import): the command line is checked, the  *)
(* pairs are planned, the budget is compared with what the layers need,    *)
(* the baseline's layers are fingerprinted and ranked for every layer that *)
(* ships; what this comes to is what is submitted to the admission pool.   *)
(* The jobs themselves are EncodeRun's and ImportRun's.                    *)
(*                                                                         *)
(* Command has the checks and Planner the algorithms; this module has the  *)
(* order they are called in and what may fail between them. A source is    *)
(* asked anew by every pair and may answer differently.                    *)
(***************************************************************************)
EXTENDS Command, Planner, SequencesExt

CONSTANTS
  Invocations,  \* what a user may type
  Sources,      \* [references -> sets of answers]: [fails, list, images]
  Blobs,        \* [digests -> [form, files]]: what the layers contain
  Platforms,    \* the texts --platform splits into two or three parts
  Bundles       \* what an import reads: sequences of [layers, bundled]

\* What cobra leaves for the builders to look at: a verb it knows, the two
\* references of diff and apply, a key given at most once. Where a value is of
\* another type than its flag (typed is FALSE) the rest stands for what is typed well.
ASSUME InvocationAssumption ==
  \A i \in Invocations :
    /\ i.verb \in Verb
    /\ {i.typed, i.arguments, i.keyless, i.dry, i.config.reads} \subseteq BOOLEAN
    /\ DOMAIN i.pairs = 1..Len(i.pairs) /\ Len(i.pairs) \in Nat
    /\ i.verb \in {"diff", "apply"} => Len(i.pairs) = 1
    /\ \A k, h \in i.key : k = h
    /\ {Setting(i, o) : o \in {"workers", "candidates", "level", "window"}} \subseteq Int
    /\ Setting(i, "budget").n \in Int

LayerSet == [digest : DOMAIN Blobs, size : Nat, media : STRING]

\* An answer has the images its kind says; a reference that parses names a source.
ASSUME SourceAssumption ==
  /\ \A r \in DOMAIN Sources : \A s \in Sources[r] :
       /\ s.fails \in Error \cup {NoError} /\ s.list \in BOOLEAN
       /\ s.fails = NoError /\ ~s.list => "any" \in DOMAIN s.images
       /\ \A p \in DOMAIN s.images : s.images[p] \in Seq(LayerSet)
  /\ \A i \in Invocations : \A k \in DOMAIN i.pairs :
       {i.pairs[k].baseline, i.pairs[k].target} \subseteq
         DOMAIN Sources \cup (BadRef \ {"reserved"})

\* Digests are ordered; a layer has finitely many files, of some size.
ASSUME BlobAssumption ==
  /\ DOMAIN Blobs \subseteq Int
  /\ \A d \in DOMAIN Blobs : /\ IsFiniteSet(DOMAIN Blobs[d].files)
                             /\ \A f \in DOMAIN Blobs[d].files : Blobs[d].files[f] \in Nat

VARIABLES
  inv,           \* the invocation
  zstd,          \* the zstd binary is there
  at,            \* where the invocation is
  plans,         \* the pairs planned so far: [baseline, required, shipped]
  fingerprints,  \* [digests -> fingerprints]: the baseline layers spooled
  ranked,        \* [<<pair, layer>> -> candidates], of the layers that have any
  tasks,         \* what is submitted: [key, est]
  touched,       \* what was created or opened, or tried to be
  ret            \* the error

vars == <<inv, zstd, at, plans, fingerprints, ranked, tasks, touched, ret>>

Place == {"parse", "prepare", "doctor", "plan", "prime", "rank", "import", "done"}

Init ==
  /\ inv \in Invocations
  /\ zstd \in BOOLEAN
  /\ at = "parse"
  /\ plans = <<>>
  /\ fingerprints = <<>>
  /\ ranked = <<>>
  /\ tasks = {}
  /\ touched = {}
  /\ ret = NoError

End(err) == at' = "done" /\ ret' = err

Unplanned == UNCHANGED <<plans, fingerprints, ranked, tasks>>

\* cobra, the hook of the root command, the verb's builders of options.
Parse ==
  /\ at = "parse"
  /\ LET err == First(<<CheckTypes(inv), CheckArguments(inv), PreRun(inv), Options(inv)>>)
     IN  IF err # NoError THEN End(err)
         ELSE /\ at' = IF inv.verb \in Exporting THEN "prepare"
                       ELSE IF inv.verb \in Importing THEN "import" ELSE "doctor"
              /\ UNCHANGED ret
  /\ UNCHANGED <<inv, zstd, touched>> /\ Unplanned

\* The network is probed only when a reference is given for it.
Doctor ==
  /\ at = "doctor"
  /\ \E tmpdir \in {"ok", "fail"}, authfile \in {"ok", "warn", "fail"},
        network \in {"ok", "fail"} :
       /\ inv.pairs = <<>> => network = "ok"
       /\ inv.pairs # <<>> /\ CheckCredentials(inv) # NoError => network = "fail"
       /\ End(Diagnosis([zstd     |-> IF zstd THEN "ok" ELSE "fail",
                         tmpdir   |-> tmpdir,
                         authfile |-> authfile,
                         network  |-> network,
                         config   |-> IF inv.config.reads THEN "ok" ELSE "fail"]))
  /\ UNCHANGED <<inv, zstd, touched>> /\ Unplanned
-----------------------------------------------------------------------------
(* Export.                                                                 *)

Mode == EffectiveMode(Setting(inv, "intra"), zstd)

\* ensureWorkdir makes a directory, and some in it.
NoWorkdir == Raw({"path"}, {})

\* Export, then buildBundle up to the first pair: the names are looked at again.
Prepare ==
  /\ at = "prepare"
  /\ touched' = touched \cup {"workdir"}
  /\ LET named == Unless(\A i, k \in DOMAIN inv.pairs :
                           inv.pairs[i].name = inv.pairs[k].name => i = k,
                         Typed("ErrDuplicateBundleName"))
         err == First(<<Unless(inv.pairs # <<>>, InvalidSpec), named,
                        ModeError(Setting(inv, "intra"), zstd)>>)
     IN  \/ End(NoWorkdir)
         \/ IF err # NoError THEN End(err) ELSE at' = "plan" /\ UNCHANGED ret
  /\ UNCHANGED <<inv, zstd>> /\ Unplanned

\* planPair: the manifests of the baseline and the target, the target's config.
PlanPair(baseline, target, config) ==
  /\ at = "plan"
  /\ Len(plans) < Len(inv.pairs)
  /\ LET pair     == inv.pairs[Len(plans) + 1]
         platform == Setting(inv, "platform")
         failed   == ManifestError(baseline, platform, Platforms)
         err      == First(<<failed, ManifestError(target, platform, Platforms),
                             ClassifyRegistryErr(config)>>)
     IN  /\ touched' = touched \cup {pair.baseline}
                         \cup IF failed = NoError THEN {pair.target} ELSE {}
         /\ IF err # NoError THEN End(err) /\ UNCHANGED plans
            ELSE /\ plans' = Append(plans, ComputePlan(Layers(target, platform),
                                                       Layers(baseline, platform)))
                 /\ UNCHANGED <<at, ret>>
  /\ UNCHANGED <<inv, zstd, fingerprints, ranked, tasks>>

Plan ==
  /\ at = "plan"
  /\ Len(plans) < Len(inv.pairs)
  /\ LET pair == inv.pairs[Len(plans) + 1]
     IN  \E b \in Sources[pair.baseline], t \in Sources[pair.target],
            c \in {NoError, Raw({"url"}, {})} : PlanPair(b, t, c)

\* checkSingleLayerFitsInBudget
Budget ==
  /\ at = "plan"
  /\ Len(plans) = Len(inv.pairs)
  /\ IF LayersFit(plans, WindowLog(inv), MemoryBudget(inv))
       THEN at' = "prime" /\ UNCHANGED ret
       ELSE End(Usage)
  /\ UNCHANGED <<inv, zstd, touched>> /\ Unplanned

BaselineDigests == UNION {Digests(plans[i].baseline) : i \in DOMAIN plans}

\* The baseline layer a digest is spooled as: the first that lists it.
Listed(d) ==
  LET i == CHOOSE p \in DOMAIN plans :
             /\ d \in Digests(plans[p].baseline)
             /\ \A q \in 1..(p - 1) : d \notin Digests(plans[q].baseline)
      first(k) == /\ plans[i].baseline[k].digest = d
                  /\ \A h \in 1..(k - 1) : plans[i].baseline[h].digest # d
  IN  plans[i].baseline[CHOOSE k \in DOMAIN plans[i].baseline : first(k)]

\* primeBaselineSpool: a layer that cannot be fetched is left out.
Prime ==
  /\ at = "prime"
  /\ \E fetched \in SUBSET BaselineDigests :
       fingerprints' = [d \in fetched |-> Fingerprint(Blobs[d], Listed(d).media)]
  /\ at' = "rank"
  /\ UNCHANGED <<inv, zstd, plans, ranked, tasks, touched, ret>>

Jobs == UNION {{<<i, k>> : k \in DOMAIN plans[i].shipped} : i \in DOMAIN plans}

Layer(j) == plans[j[1]].shipped[j[2]]

\* What a layer that more than one job ships is encoded against is nothing.
Whole(j) == Mode = "off" \/ \E h \in Jobs : h # j /\ Layer(h).digest = Layer(j).digest

\* PlanShippedTopK up to the first encoding.
Candidates(j) ==
  LET baseline == plans[j[1]].baseline
      target   == Fingerprint(Blobs[Layer(j).digest], Layer(j).media)
  IN  PickTopK(baseline, Seeded(baseline, fingerprints), target, Layer(j).size,
               Setting(inv, "candidates"))

\* encodeTargets. A layer that is shipped already is passed over: it would have
\* made the same task.
Rank ==
  /\ at = "rank"
  /\ ranked' = [j \in {h \in Jobs : ~Whole(h)} |-> Candidates(j)]
  /\ tasks' = {[key |-> Layer(j).digest, est |-> Estimate(WindowLog(inv), Layer(j))] :
                 j \in Jobs}
  /\ at' = "done"
  /\ UNCHANGED <<inv, zstd, plans, fingerprints, touched, ret>>
-----------------------------------------------------------------------------
(* Import.                                                                 *)

\* Import up to the bundle: it needs a directory first.
Unopened ==
  /\ at = "import"
  /\ touched' = touched \cup {"workdir"}
  /\ End(NoWorkdir)
  /\ UNCHANGED <<inv, zstd>> /\ Unplanned

\* checkSingleImageFitsInBudget and importEachImage: every image of the bundle
\* has to fit, those that passed the preflight become tasks. One worker, or
\* none, applies the images without the pool.
Import ==
  /\ at = "import"
  /\ touched' = touched \cup {"workdir", "delta"}
  /\ \E bundle \in Bundles : \E ready \in SUBSET DOMAIN bundle :
       LET est == [i \in DOMAIN bundle |-> ImageEstimate(bundle[i].layers, bundle[i].bundled)]
           budget == MemoryBudget(inv)
       IN  IF budget > 0 => \A i \in DOMAIN bundle : est[i] <= budget
             THEN /\ End(NoError)
                  /\ tasks' = IF Setting(inv, "workers") <= 1 THEN {}
                              ELSE {[key |-> i, est |-> est[i]] : i \in ready}
             ELSE End(Usage) /\ UNCHANGED tasks
  /\ UNCHANGED <<inv, zstd, plans, fingerprints, ranked>>
-----------------------------------------------------------------------------
Next == Parse \/ Doctor \/ Prepare \/ Plan \/ Budget \/ Prime \/ Rank
          \/ Unopened \/ Import

Spec == Init /\ [][Next]_vars
-----------------------------------------------------------------------------
(* Properties.                                                             *)

\* The estimate that is checked is the estimate that is submitted: under a
\* budget no task of an export or an import asks the pool for more than there
\* is, so that the pool's clamping stays the safety net its comments call it.
NeverClamped == MemoryBudget(inv) > 0 => \A t \in tasks : t.est <= MemoryBudget(inv)

\* A layer can be read if it is what its media type says. Docker's name for a
\* gzipped layer is taken for that of a plain one: a departure from README.md:513-527,
\* which has every layer fingerprinted that is a tar under its compression.
Readable(d, media) ==
  Blobs[d].form = IF media = ".gzip" THEN "tar"
                  ELSE IF media \in {"+gzip", "+zstd"} THEN media
                  ELSE "tar"

\* The bytes of a target's files that a baseline layer has too, if both are known.
\* The second departure: the pairs share the fingerprint of a layer, which was
\* taken with the media type of the first pair that lists it.
Shared(target, l) ==
  IF Readable(target.digest, target.media) /\ l.digest \in DOMAIN fingerprints
       /\ Readable(l.digest, Listed(l.digest).media)
    THEN MapThenSumSet(LAMBDA f : Blobs[target.digest].files[f],
                       {f \in DOMAIN Blobs[target.digest].files :
                          f \in DOMAIN Blobs[l.digest].files})
    ELSE 0

Better(target, l, m) ==
  \/ Shared(target, l) > Shared(target, m)
  \/ /\ Shared(target, l) = Shared(target, m)
     /\ Distance(l.size, target.size) < Distance(m.size, target.size)

\* A layer is encoded against the baseline layers that have the most bytes of
\* its files, the closest in size among equals, best first, as many as asked for,
\* none more often than the baseline lists it (README.md:515-527). Which layers could
\* be fetched, and with which media type, decides what is known of them (Readable
\* and Shared have the two departures) and nothing else.
RankedIsBest ==
  \A j \in DOMAIN ranked :
    LET baseline == plans[j[1]].baseline
        chosen   == ranked[j]
        left     == ToSet(baseline) \ ToSet(chosen)
    IN  /\ Len(chosen) = Min({Setting(inv, "candidates"), Len(baseline)})
        /\ \E place \in Injection(DOMAIN chosen, DOMAIN baseline) :
             \A k \in DOMAIN chosen : chosen[k] = baseline[place[k]]
        /\ \A k \in DOMAIN chosen : \A m \in left : ~Better(Layer(j), m, chosen[k])
        /\ \A k, h \in DOMAIN chosen : k < h => ~Better(Layer(j), chosen[h], chosen[k])

\* A bad flag, argument, reference or specification that the code takes for one.
\* (The values of --intra-layer and --platform are looked at later on.)
Noticed ==
  \/ ~inv.typed /\ inv.verb \notin Removed
  \/ ~inv.arguments
  \/ inv.format \notin {"text", "json"}
  \/ inv.verb # "doctor" /\ ~inv.config.reads
  \/ inv.verb \in Removed
  \/ inv.verb \in {"diff", "apply"}
       /\ {inv.pairs[1].baseline, inv.pairs[1].target} \cap BadRef # {}
  \/ inv.verb \in {"bundle", "unbundle"}
       /\ \/ inv.defect \in SpecDefect \/ inv.pairs = <<>>
          \/ \E i \in DOMAIN inv.pairs :
               \/ inv.pairs[i].name = "bad name"
               \/ {inv.pairs[i].baseline, inv.pairs[i].target} \cap (BadRef \ {"reserved"}) # {}
  \/ inv.verb = "bundle"
       /\ \E i, k \in DOMAIN inv.pairs : i # k /\ inv.pairs[i].name = inv.pairs[k].name
  \/ inv.verb \in Exporting \cup Importing
       /\ \/ Cardinality(CredentialSources(inv.creds)) > 1
          \/ "malformed creds" \in inv.creds
          \/ "username" \in inv.creds /\ "password" \notin inv.creds
          \/ "cosign" \in inv.key
          \/ Setting(inv, "budget").n < 0
  \/ inv.verb \in Exporting
       /\ \/ inv.keyless
          \/ inv.dry /\ "unreadable" \in inv.key
          \/ Setting(inv, "workers") < 1
          \/ Setting(inv, "candidates") < 1
          \/ Setting(inv, "level") \notin 1..22
          \/ Setting(inv, "window") \notin {AutoWindow} \cup 10..31

\* What docs/compat.md has refused and the code does not: a reserved transport in a
\* specification (compat.md:95-101), a password without a user name (compat.md:114
\* and :132), an authfile next to --no-creds (compat.md:117 and :133). (That table
\* also has diff and bundle reject registries and directories until phase 3;
\* README.md:226-228 has them work, as they do.)
Overlooked ==
  \/ inv.verb \in {"bundle", "unbundle"}
       /\ \E i \in DOMAIN inv.pairs : "reserved" \in {inv.pairs[i].baseline, inv.pairs[i].target}
  \/ inv.verb \in Exporting \cup Importing
       /\ \/ "password" \in inv.creds /\ "username" \notin inv.creds
          \/ {"no-creds", "authfile"} \subseteq inv.creds

Misused == Noticed \/ Overlooked

\* compat.md:12 has every bad flag be exit code 2; a value that is not of its
\* flag's type is 1, for what classify.go:52-61 looks for is not in pflag's message.
MisuseExit == IF inv.typed \/ inv.verb \in Removed THEN 2 ELSE 1

\* A misused command ends as a user's error before anything is opened or created,
\* whatever else is wrong with it, unless what the code overlooks is all there is
\* to it: then it goes ahead. No other command is turned away so early.
RefusedCleanly ==
  /\ Noticed => touched = {} /\ (at = "done" => Exit(ret) = MisuseExit)
  /\ Overlooked /\ ~Noticed /\ at = "done" => touched # {}
  /\ at = "done" /\ touched = {} => Misused \/ inv.verb = "doctor"
=============================================================================
