----------------------------- MODULE BundleFile -----------------------------
(***************************************************************************)
(* The bundle as a file: pkg/exporter/writer.go writes it in place under   *)
(* its final name and pkg/signer puts a signature beside it, while         *)
(* internal/archive reads it, entry by entry, for an import, a dry run or  *)
(* an inspection. What the reader made of the bytes then passes            *)
(* ParseSidecar, the checks before an apply and the apply of one image.    *)
(*                                                                         *)
(* A run of the exporter may fail or be killed at any point and a later    *)
(* one truncates and rewrites the same file, also while it is being read.  *)
(*                                                                         *)
(* The file is a sequence of chunks, each of them a number of bytes that   *)
(* is read or written at once: the head of a tar entry, a part of an       *)
(* entry's body, the end-of-archive marker. A sidecar's body has two       *)
(* parts: the first has the table of blobs (and the time of the export,    *)
(* so no two runs write the same), the second the list of images. A        *)
(* manifest is one part, a whole layer two, a patch one: two bundles do    *)
(* not have their entries at the same offsets.                             *)
(*                                                                         *)
(* An operator whose name ends in Faulty is no part of the model: it is    *)
(* the definition after it with a plausible mistake, kept to show which    *)
(* property notices that mistake.                                          *)
(***************************************************************************)
EXTENDS Integers, Sequences, FiniteSets, Errors

CONSTANTS
  Runs,      \* bound: the exports to this path
  Targets,   \* the target images, named by their manifests' digests
  LayerOf,   \* [Targets -> layers]: the layer a target does not share with its baseline
  Strangers  \* what a file may hold that no export of this version wrote

ASSUME BundleAssumption ==
  /\ Runs \in Nat
  /\ LayerOf \in [Targets -> STRING]
  /\ Targets # {} /\ Targets \cap {LayerOf[t] : t \in Targets} = {}
  /\ {"sidecar", "layer.tar"} \cap (Targets \cup {LayerOf[t] : t \in Targets}) = {}

VARIABLES
  file,       \* the chunks of the bundle
  sig,        \* the .sig file: absent, empty, or over these parts of a sidecar
  run,        \* the exports started
  plan,       \* what the current export is to write
  at,         \* where it is
  left,       \* the chunks it has still to write
  signed,     \* history: the sidecars ever signed
  reader,     \* where the reader is
  cmd,        \* the command it reads for
  second,     \* inspect reads the archive a second time
  off,        \* the place of the next chunk
  entry,      \* the entry being read, and how many parts of it are to come
  got,        \* entry name -> parts: what was read
  read,       \* the parts of the sidecar that was parsed
  opts,       \* the public key, whether zstd is installed and the destination converts
  verified,   \* the signature was checked
  ret, image, \* what the command returned; the target it applied
  disturbed   \* history: file or signature changed since the reader opened the file

writer  == <<run, plan, at, left, signed>>
disk    == <<file, sig>>
reading == <<reader, cmd, second, off, entry, got, read, opts, verified, ret, image>>
vars    == <<writer, disk, reading, disturbed>>

None == "none"
-----------------------------------------------------------------------------
(* Chunks.                                                                 *)

Header(e, n)  == [is |-> "head", of |-> e, size |-> n]
Part(e, i)  == [is |-> "body", of |-> e, part |-> i]
End == [is |-> "end"]

\* The two parts of a sidecar. (form: what ParseSidecar finds it to be.)
Table(r, t, patch, form) ==
  [is |-> "body", of |-> "sidecar", part |-> 1, run |-> r, target |-> t,
   patch |-> patch, form |-> form]
ImagesPart(t) == [is |-> "body", of |-> "sidecar", part |-> 2, target |-> t]

Entry(e, body) == <<Header(e, Len(body))>> \o body

\* (A patch is part 0.)
Payload(l, patch) == IF patch THEN <<Part(l, 0)>> ELSE <<Part(l, 1), Part(l, 2)>>

Sidecar(r, p, form) == <<Table(r, p.target, p.patch, form), ImagesPart(p.target)>>

\* The sidecar comes first, then the blobs by digest.
Archive(r, p) ==
  Entry("sidecar", Sidecar(r, p, "bundle")) \o Entry(p.target, <<Part(p.target, 1)>>)
    \o Entry(LayerOf[p.target], Payload(LayerOf[p.target], p.patch))

Plan == [target : Targets, patch : BOOLEAN, signs : BOOLEAN]

\* Files of another origin: no tar at all, a tar of something else, a sidecar
\* of an older or newer version or with a missing field, or no JSON.
Stranger(s) ==
  CASE s = "noTar"    -> <<Part("text", 1)>>
    [] s = "otherTar" -> Entry("layer.tar", <<Part("layer.tar", 1)>>) \o <<End>>
    [] OTHER -> LET p == [target |-> CHOOSE t \in Targets : TRUE, patch |-> FALSE]
                IN  Entry("sidecar", Sidecar(0, p, s)) \o <<End>>

NoSig == [is |-> "absent", over |-> <<>>]

Init ==
  /\ file \in {<<>>} \cup {Stranger(s) : s \in Strangers}
  /\ sig = NoSig
  /\ run = 0
  /\ plan = [target |-> None, patch |-> FALSE, signs |-> FALSE]
  /\ at = "idle"
  /\ left = <<>>
  /\ signed = {}
  /\ reader = "closed"
  /\ cmd = None
  /\ second = FALSE
  /\ off = 1
  /\ entry = [of |-> None, rest |-> 0]
  /\ got = [e \in {} |-> <<>>]
  /\ read = <<>>
  /\ opts = [key |-> None, zstd |-> TRUE, converts |-> FALSE]
  /\ verified = FALSE
  /\ ret = NoError
  /\ image = None
  /\ disturbed = FALSE
-----------------------------------------------------------------------------
(* Writing: writeBundleArchive, signArchive, WriteSidecars.                *)

Touch ==
  /\ disturbed' = (disturbed \/ reader # "closed")
  /\ UNCHANGED reading

\* os.Create; a sidecar that does not validate leaves the deferred Close alone
\* to write.
Create ==
  /\ at = "idle"
  /\ run < Runs
  /\ run' = run + 1
  /\ plan' \in Plan
  /\ file' = <<>>
  /\ left' \in {<<>>, Archive(run + 1, plan')}
  /\ at' = IF left' = <<>> THEN "fail" ELSE "write"
  /\ Touch
  /\ UNCHANGED <<sig, signed>>

Write ==
  /\ at = "write"
  /\ left # <<>>
  /\ file' = Append(file, left[1])
  /\ left' = Tail(left)
  /\ Touch
  /\ UNCHANGED <<sig, run, plan, at, signed>>

\* The deferred tw.Close.
Close ==
  /\ at = "write"
  /\ left = <<>>
  /\ file' = Append(file, End)
  /\ at' = IF plan.signs THEN "sign" ELSE "idle"
  /\ Touch
  /\ UNCHANGED <<sig, run, plan, left, signed>>

AtBoundary == \A i \in DOMAIN left \cap {1} : left[i].is = "head"

\* A blob cannot be opened or copied, or the disk is full. Between two entries
\* the deferred Close makes an archive of what is there, unless it fails too.
WriteError ==
  /\ at \in {"write", "fail"}
  /\ at' = "idle"
  /\ left' = <<>>
  /\ \/ UNCHANGED file
     \/ /\ AtBoundary
        /\ file' = Append(file, End)
  /\ Touch
  /\ UNCHANGED <<sig, run, plan, signed>>

\* The sidecar as the archive has it: it is the first entry.
OnDisk == SubSeq(file, 2, 3)

\* The key is loaded and used only now: when it cannot be, or when a log is
\* asked for, the export fails with the new archive in place and the .sig file
\* as it was. Otherwise os.WriteFile truncates the .sig file first.
Sign ==
  /\ at = "sign"
  /\ \/ at' = "idle" /\ UNCHANGED <<sig, signed>>
     \/ /\ at' = "sig"
        /\ sig' = [is |-> "empty", over |-> <<>>]
        /\ signed' = signed \cup {OnDisk}
  /\ Touch
  /\ UNCHANGED <<file, run, plan, left>>

WriteSig ==
  /\ at = "sig"
  /\ at' = "idle"
  /\ sig' = [is |-> "full", over |-> OnDisk]
  /\ Touch
  /\ UNCHANGED <<file, run, plan, left, signed>>

Crash ==
  /\ at # "idle"
  /\ at' = "idle"
  /\ left' = <<>>
  /\ UNCHANGED <<disk, run, plan, signed, reading, disturbed>>
-----------------------------------------------------------------------------
(* Reading: archive.Extract, ReadSidecar, ReadSidecarAndManifestBlobs.     *)

Looks == UNCHANGED <<writer, disk, disturbed>>

Return(e) == reader' = "done" /\ ret' = e

Open ==
  /\ reader = "closed"
  /\ cmd' \in {"import", "dryrun", "inspect"}
  /\ reader' = "next"
  /\ Looks
  /\ UNCHANGED <<second, off, entry, got, read, opts, verified, ret, image>>

With(f, e, body) == [x \in DOMAIN f \cup {e} |-> IF x = e THEN body ELSE f[x]]

\* tar.Reader.Next. The end of the file is the end of the archive, marker or not.
NextEntry ==
  /\ reader = "next"
  /\ IF off > Len(file) \/ file[off].is = "end"
       THEN reader' = "parse" /\ UNCHANGED <<off, entry, got, ret>>
     ELSE IF file[off].is = "body"
       THEN Return(Plain) /\ UNCHANGED <<off, entry, got>>
     ELSE /\ reader' = "body"
          /\ entry' = [of |-> file[off].of, rest |-> file[off].size]
          /\ got' = With(got, file[off].of, <<>>)
          /\ off' = off + 1
          /\ UNCHANGED ret
  /\ Looks
  /\ UNCHANGED <<cmd, second, read, opts, verified, image>>

\* The body of an entry is as long as its head says, whatever the bytes; a file
\* that ends before is an error. inspect stops at the sidecar the first time.
ReadPart ==
  /\ reader = "body"
  /\ IF off > Len(file)
       THEN Return(Plain) /\ UNCHANGED <<off, entry, got>>
     ELSE /\ got' = With(got, entry.of, Append(got[entry.of], file[off]))
          /\ entry' = [entry EXCEPT !.rest = @ - 1]
          /\ off' = off + 1
          /\ reader' = IF entry.rest > 1 THEN "body"
                       ELSE IF cmd = "inspect" /\ ~second /\ entry.of = "sidecar" THEN "parse"
                       ELSE "next"
          /\ UNCHANGED ret
  /\ Looks
  /\ UNCHANGED <<cmd, second, read, opts, verified, image>>

\* The bytes of a sidecar, be they of one export or of two.
IsJSON(s) ==
  /\ Len(s) = 2
  /\ \A i \in 1..2 : s[i].is = "body" /\ s[i].of = "sidecar" /\ s[i].part = i
  /\ s[1].form # "garbled"

\* ParseSidecar, Sidecar.validate: an image's manifest is among the blobs.
ParseSidecar(s) ==
  IF ~IsJSON(s) THEN Typed("ErrInvalidBundleFormat")
  ELSE CASE s[1].form = "phase1" -> Typed("ErrPhase1Archive")
         [] s[1].form = "newer"  -> Typed("ErrUnknownBundleVersion")
         [] s[1].form = "schema" -> Typed("ErrSidecarSchema")
         [] OTHER -> IF s[2].target = s[1].target THEN NoError ELSE Typed("ErrSidecarSchema")

\* extractBundle, or runInspect between its two passes.
Parse ==
  /\ reader = "parse"
  /\ ~second
  /\ LET e == IF "sidecar" \in DOMAIN got THEN ParseSidecar(got["sidecar"])
              ELSE Typed("ErrNotADiffahArchive")
     IN  IF e # NoError
           THEN Return(e) /\ UNCHANGED <<second, off, got, read>>
           ELSE /\ read' = got["sidecar"]
                /\ IF cmd = "inspect"
                     THEN reader' = "next" /\ second' = TRUE /\ off' = 1 /\ got' = [x \in {} |-> <<>>]
                     ELSE /\ reader' = IF cmd = "import" THEN "check" ELSE "apply"
                          /\ UNCHANGED <<second, off, got>>
                /\ UNCHANGED ret
  /\ Looks
  /\ UNCHANGED <<cmd, entry, opts, verified, image>>

\* The target the parsed sidecar names.
Recorded == read[2].target

\* What becomes of the manifests is a warning at most.
Inspect ==
  /\ reader = "parse"
  /\ second
  /\ Return(CASE "sidecar" \notin DOMAIN got -> Typed("ErrNotADiffahArchive")
              [] "sidecar" \in DOMAIN got /\ Recorded \notin DOMAIN got -> Plain
              [] OTHER -> NoError)
  /\ Looks
  /\ UNCHANGED <<cmd, second, off, entry, got, read, opts, verified, image>>
-----------------------------------------------------------------------------
(* Checking and applying.                                                  *)

NoFile == Raw({"path", "notexist"}, {})

\* verifySignature: LoadSidecars, loadPublicKey, the check against the bytes
\* that were parsed.
VerifySignature(key) ==
  CASE sig.is = "absent"                            -> Typed("ErrArchiveUnsigned")
    [] sig.is # "absent" /\ key = "unreadable"      -> NoFile
    [] OTHER -> IF key = "right" /\ sig.is = "full" /\ sig.over = read THEN NoError
                ELSE Typed("ErrSignatureInvalid")

CheckFaulty ==
  /\ reader = "check"
  /\ \E key \in {None, "right"}, zstd \in BOOLEAN :
       LET valid == Len(file) >= 3 /\ sig.over = OnDisk
       IN  /\ opts' = [opts EXCEPT !.key = key, !.zstd = zstd]
           /\ IF key # None /\ ~valid
                THEN Return(Typed("ErrSignatureInvalid")) /\ UNCHANGED verified
                ELSE reader' = "apply" /\ verified' = (key # None) /\ UNCHANGED ret
  /\ Looks
  /\ UNCHANGED <<cmd, second, off, entry, got, read, image>>

\* preApplyChecks.
Check ==
  /\ reader = "check"
  /\ \E key \in {None, "right", "wrong", "unreadable"}, zstd \in BOOLEAN :
       LET v == IF key = None THEN NoError ELSE VerifySignature(key)
           e == IF v = NoError /\ read[1].patch /\ ~zstd THEN ErrZstdBinaryMissing ELSE v
       IN  /\ opts' = [opts EXCEPT !.key = key, !.zstd = zstd]
           /\ IF e # NoError
                THEN Return(e) /\ UNCHANGED verified
                ELSE reader' = "apply" /\ verified' = (key # None) /\ UNCHANGED ret
  /\ Looks
  /\ UNCHANGED <<cmd, second, off, entry, got, read, image>>

\* The manifest is read by its name; what its bytes are is not checked.
HasManifest == Recorded \in DOMAIN got
IsManifest  == \E t \in Targets : got[Recorded] = <<Part(t, 1)>>
Found       == CHOOSE t \in Targets : got[Recorded] = <<Part(t, 1)>>

ManifestError ==
  IF ~HasManifest THEN NoFile ELSE IF ~IsManifest THEN Plain ELSE NoError

Reused == {NoError, Typed("ErrMissingBaselineReuseLayer")}

DamageFaulty(l) == IF l # LayerOf[read[1].target] THEN Reused ELSE {NoError}

\* GetBlob of the target's layer: from the archive if the table has it, and then
\* by its digest; if not, from the baseline at hand, which has it or has it not.
\* Damaged patches fail in zstd or decode to other bytes.
Damage(l) ==
  IF l # LayerOf[read[1].target] THEN Reused
  ELSE IF l \notin DOMAIN got THEN {NoFile}
  ELSE IF got[l] = Payload(l, read[1].patch) THEN {NoError}
  ELSE IF read[1].patch THEN {Plain, Typed("ErrIntraLayerAssemblyMismatch")}
  ELSE {Typed("ErrShippedBlobDigestMismatch")}

InvariantErrorFaulty == NoError

\* verifyApplyInvariant: the layers it expects are those of the manifest read, and
\* they were written; the digest of the manifest is compared with the recorded one
\* unless the destination converts it.
InvariantError ==
  IF Found # Recorded /\ ~opts'.converts THEN Typed("ErrApplyInvariantFailed") ELSE NoError

Apply ==
  /\ reader = "apply"
  /\ cmd = "import"
  /\ \E c \in BOOLEAN : opts' = [opts EXCEPT !.converts = c]
  /\ IF ManifestError # NoError
       THEN Return(ManifestError) /\ UNCHANGED image
     ELSE \E e \in Damage(LayerOf[Found]) :
       IF e # NoError THEN Return(e) /\ UNCHANGED image
       ELSE Return(InvariantError) /\ image' = IF InvariantError = NoError THEN Found ELSE None
  /\ Looks
  /\ UNCHANGED <<cmd, second, off, entry, got, read, verified>>

\* buildImageDryRuns. No signature is looked at, no layer either.
DryRun ==
  /\ reader = "apply"
  /\ cmd = "dryrun"
  /\ Return(ManifestError)
  /\ Looks
  /\ UNCHANGED <<cmd, second, off, entry, got, read, opts, verified, image>>
-----------------------------------------------------------------------------
\* (Bound: nothing is written once the reader is done.)
Export ==
  /\ reader # "done"
  /\ \/ Create \/ Write \/ Close \/ WriteError
     \/ Sign \/ WriteSig \/ Crash

Read   == Open \/ NextEntry \/ ReadPart \/ Parse \/ Inspect \/ Check \/ Apply \/ DryRun

Next == Export \/ Read

Spec == Init /\ [][Next]_vars
-----------------------------------------------------------------------------
(* Properties.                                                             *)

\* Whatever is written, cut short or rewritten before and while an import reads:
\* what it applies is the target the sidecar names. One exception to what
\* verifyApplyInvariant is to prove, that the destination matches "the sidecar's
\* expectation" (invariant.go:14-16): nothing compares the manifest in the archive
\* with the digest it is filed under, and the expectation is read from it. So if
\* the file was rewritten under the reader and the destination converts manifests
\* (invariant.go:62), another target can be applied, one whose layers differ too
\* if the baseline has them, as GetBlob asks it for what the table has not.
AppliedIsRecorded ==
  cmd = "import" /\ reader = "done" /\ ret = NoError =>
    image = Recorded \/ (disturbed /\ opts.converts)

\* An import that was asked to verify and got past the check has parsed a sidecar
\* that was signed, all of it, though archive and signature are two files that
\* are written and read one after the other.
VerifiedIsSigned == verified => read \in signed

\* An archive with everything a run writes, but for the end-of-archive marker.
Whole ==
  \E r \in 1..Runs, p \in Plan :
    LET a == Archive(r, p) IN Len(file) >= Len(a) /\ SubSeq(file, 1, Len(a)) = a

Signature == sig.is = "full" /\ sig.over = OnDisk

\* Left alone by the exporter, the file alone decides: an archive that is whole
\* is applied if its own signature stands beside it or none is asked for, and
\* one that is cut short, at an entry's end or in its midst, never is.
FileDecides ==
  cmd = "import" /\ reader = "done" /\ ~disturbed =>
    (ret = NoError <=>
       /\ Whole
       /\ opts.key = None \/ (opts.key = "right" /\ Signature)
       /\ file[2].patch => opts.zstd)
=============================================================================
