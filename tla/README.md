# diffah in TLA+

diffah turns pairs of container images (a baseline and a target) into an archive
of what changed, and rebuilds the targets from that archive and the baselines.
This directory holds TLA+ models of it, from the command line to the signature
file, TLC configurations that check them on small instances, and TLAPS proofs
for every size of the instance. `src/` below is the
repository.

    tlc -workers 2 -config AdmissionGates.cfg MCAdmissionPool.tla
    tlapm AdmissionPoolProofs.tla

`PROJECT.json` lists the runs, what each definition models (file and lines), the
hazards of the code and the theorems.

## The system

An **export** (`pkg/exporter`) plans every pair, spools the baselines' layers
(phase E1), encodes every layer that a target has and its baseline has not
(phase E2), and writes one tar archive with a JSON sidecar. An **import**
(`pkg/importer`) extracts an archive, checks that the baselines at hand are the
recorded ones, scans every image for layers it will miss, and composes each image
from the bundle and its baseline while containers/image copies it to its
destination.

| component | state it keeps | operations | what makes it correct | model |
|---|---|---|---|---|
| admission pool `internal/admission/admission.go` | two weighted semaphores, a singleflight group, an errgroup | `Submit`, `Wait` | gates hold under every interleaving; `Wait` returns, with the error that mattered; nothing leaks | `AdmissionPool`, `GatedRun` |
| worker pool `internal/admission/workerpool.go` | a channel of tokens, an errgroup | `Submit`, `Wait` | the bound holds; cancelled submissions are reported; `Wait` returns | `ExportRun` |
| encode phase `pkg/exporter/encode.go`, `pool.go`, `intralayer.go` | files of the work directory, the blob pool | `encodeTargets`, `encodeOneShipped`, `PlanShippedTopK`, `addEntryFromPath` | entry and file agree; nothing is missing; result independent of the schedule | `EncodeRun` |
| planning `pkg/exporter/exporter.go`, `perpair.go`, `baseline.go`, `fingerprint.go`, `admission.go`, `pkg/diff/plan.go` | plans, fingerprints, estimates | `planPair`, `ComputePlan`, `checkSingleLayerFitsInBudget`, `PickTopK` | budget and submitted estimates agree; the best candidates are tried | `CommandRun`, `Planner` |
| sidecar and scan `pkg/exporter/assemble.go`, `pkg/importer/preflight.go` | the sidecar, a verdict per image | `assembleSidecar`, the scan | what the importer needs is in the archive or in the baseline; the scan foresees the apply | `RoundTrip` |
| opening baselines `pkg/importer/resolve.go`, `retry.go`, `guard.go` | open sources | `resolveBaselines`, `openOneBaseline`, `withRetry` | nothing stays open; retries where they help; the right baseline or the right error | `ResolveBaselines` |
| composing an image `pkg/importer/compose.go`, `manifest.go`, `invariant.go` | scratch files, the destination | `composeImage`, `GetBlob`, `verifyApplyInvariant` | what is reported applied is whole and there; no scratch file outlives its layer | `Compose` |
| importer's baseline spool `pkg/importer/baselinespool.go` | entries, flights, files | `GetOrSpool` | a path means a verified file; fetched once; errors are forgotten | `BaselineSpool`, `BlobCache` |
| import run `pkg/importer/importer.go`, `admission.go`, `summary.go` | the report, the work directory | `Import`, `importEachImage`, `submitOneImage`, `applyOneImage` | the report is complete, independent of the schedule, and agrees with what is returned | `ImportRun` |
| export run `pkg/exporter/exporter.go`, `baselinespool.go`, `internal/workdir` | the work directory, the spool's entries | `Export`, `primeBaselineSpool`, `spoolOnce` | an entry means a complete file; a bad baseline ends nothing; nil means a complete archive, signed if asked for; no files remain | `ExportRun` |
| archive, sidecar, signature on disk `pkg/exporter/writer.go`, `internal/archive/reader.go`, `pkg/diff/sidecar.go`, `pkg/signer` | two files | `writeBundleArchive`, `signArchive`, `WriteSidecars`, `Extract`, `ParseSidecar`, `verifySignature`, inspect's two passes | what is applied is what was recorded, what is verified was signed, a part is not taken for the whole | `BundleFile` |
| error taxonomy `pkg/diff/errors.go`, `pkg/diff/errs`, `classify_registry.go`, `pkg/importer/errors.go`, `pkg/signer/errors.go` | none | `Classify`, `ClassifyRegistryErr`, `IsRetryableRegistryErr` | the exit code tells the cause | `Errors` |
| command line, configuration, specification files `cmd`, `pkg/config`, `pkg/diff/bundle_spec.go`, `internal/imageio/sysctx.go` | none | the verbs' builders of options, doctor | misuse is refused before anything is touched | `Command`, `CommandRun` |
| progress, display of inspect, zstd subprocess, cryptography | | | | not modelled |

How they interact: the exporter's `encodeTargets` and the importer's
`importEachImage` are callers of the admission pool; images of one import share
the baseline spool; jobs of one export share the blob pool and the files of the
work directory; the archive and its `.sig` file are all that goes from one process
to another.

What is hard about it: goroutines behind three gates, with cancellation at any of
them; jobs of the same digest that write the same files; failures that are
swallowed in one place (a patch that cannot be made, an image in partial mode) and
fatal in another (a target that cannot be read, a malformed sidecar); decisions
taken from the manifests at export time that the importer takes again from other
data; and results that must not depend on the schedule.

## The modules

**GatedRun** is what a pool promises: at most `Workers` tasks at a time, within
the budget, never two of a key, and a task is turned away only when the pool was
stopped. It has one variable for the tasks' status and one flag.

**AdmissionPool** is the pool itself. A goroutine's program counter follows
`Submit`'s closure and `runWithGates`: `Lead`/`Join` are `sf.Do`; `Take`,
`Enqueue`, `Grant`, `Wake`, `GiveUp`, `Refuse` are `semaphore.Weighted.Acquire`
(the fast path, the wait, notifyWaiters, the select after it and the check of a
context already done); `Pass` is a gate as runWithGates sees it, skipping the memory gate when
there is no budget (the run has a budget: `SkipMemGate` is covered by the proofs);
`Release` the deferred releases; `Leave`/`Released` the end
of the flight; `Return` the errgroup. The packages of golang.org/x/sync are not in
the repository and are modelled from how the pool uses them; in particular the
order of the semaphore's waiters is FIFO. A panic of a task is an error, as the
recover makes it. `PromiseKept` states that the pool implements GatedRun, with a
task's status read off its program counter and outcome.

**EncodeRun** puts the exporter's jobs on top of GatedRun (with no memory limit:
only which jobs run together matters). `Submit` is the loop of `encodeTargets`;
`Spool`, `Plan`, `Try`, `Adopt`, `Register`, `Clean` are the steps of
`encodeOneShipped`, separated where another goroutine can see a difference: `Try`
is one turn of the candidate loop, `Adopt` is `addEntryFromPath` up to and
including the rename, which happens outside the lock, `Register` the locked part.
Files are a function from names to contents. Which baselines were spooled, which
encode fails and which target cannot be read are chosen in `Init`. After a
cancellation every read or encode that has not begun fails. A job has a media type
of its own, that of its pair's manifest; a layer two pairs ship may have two.

**RoundTrip** follows a bundle of several images from plan to output. A digest
stands for the bytes it names. `Encode` picks for each shipped layer any encoding
the planner may come to; `Deliver` damages at most one blob or loses one baseline
layer, and decides which baselines are at hand; `Resolve` is the comparison with
the recorded manifest, `Scan` the preflight of one image, `ApplyImage` the copy of one
image through `GetBlob`. `listed` marks baselines given by a manifest list.

**BaselineSpool** is `GetOrSpool`: `Lookup` under the read lock, `Join` the
flight, `Recheck` inside it, then `Fetch`, `Copy`, `Verify`, `Rename`, `Register`
of `spoolOnce`, and `Deliver`, which ends the flight for everyone in it. Each call
has a source of its own. **BlobCache** is the promise to the callers.

**ImportRun** is `Import`: `Prepare`, `Preflight`, `CheckBudget`, then `Inline`
and `Advance` (one worker) or `Submit`, `Begin`, `End`, `TurnAway` (the pool, as
GatedRun), `Compose` and `Record` for each image, `Wait` and `Report`. The options,
the verdicts and what becomes of each image are inputs chosen in `Init`, so that
the report can be compared with what the inputs determine.

**ExportRun** is `Export`, run after run over one output path. `Start` is
`ensureWorkdir`; `Check`, `Select` and `Refuse` are the loop of
`primeBaselineSpool` with the two looks `WorkerPool.Submit` takes at its context;
`Fetch`, `Stream`, `Commit`, `Fail` are a worker in the spool; `Wait` the end of
priming. `Encode` stands for all of EncodeRun. `Create`, `Write`, `Sign`,
`Truncate`, `WriteSig` write the archive and its signature in place, and every exit
goes through `Leave`, the deferred cleanup. `Cancel` may come at any time, reaches
the pool's context later (`Propagate`), and `Crash` stops the run where it is and
leaves its files: the archive, the signature, and, in a directory given by flag or
environment, what was spooled. A source may serve the right bytes, other bytes
(the exporter's spool verifies no digest), break off, or be gone; and a write to the
spool file may fail (`unwritten`), which ends the worker's task or, under the
fingerprinter, does not.

**Errors** has an error as a record of what the code asks of a chain: the category
of its first typed link, the library errors in it, the phrases in its message.
`Classify` and `Exit` give the exit code; `ClassifyRegistryErr`, `IsRetryable` and
`IsBlobNotFound` are the tests on messages. Every typed error of the repository has
its category here, and the modules below use it for what they return.

**ResolveBaselines** is `resolveBaselines` with `withRetry` round the two calls to a
source. `Succeed` and `Break` end a call, `Break` with any error a registry or a
file may give; `Resume` is the timer, `GiveUp` the other case of the select. The
delay is the one given, with no cap, or the backoff, computed in a word of `2 * Half`
values with the sign it wraps to; one below zero is no wait. `handles` counts the
sources open. `Rewritten` is the rewriting of the default key, whose result depends
on the order of a map when the image's own name is given too.

**BundleFile** has the bundle as a sequence of chunks (head, parts of a body, the
end) that `Create`, `Write`, `Close` and `WriteError` write in place, with the `.sig` file
written after it by `Sign` and `WriteSig`, and `Crash` at any step. A reader goes
through it chunk by chunk (`Open`, `NextEntry`, `ReadPart`) while it may be
overwritten; reading, it keeps the length the head gave, as a tar reader does, so
that a body may be made of two exports' parts. A layer the sidecar does not list is
asked of the baseline, which may have it (`Reused`). `Parse`, `Check`, `Apply` are an
import, `DryRun` and `Inspect` the other two readers. Baselines are right and the
destination is its own, as the other modules look at those.

**Compose** is what happens to the images of one import between preflight and
report: `Start` is `enforceOutputCompat`; then, layer by layer, `Fetch` (the shared
spool, whose flights are those of BaselineSpool, begun and ended in one step each),
`Land`, `Refuse`, `CreateTemp`, `Decode`, `OpenFull`, `ReadSpool`, and `ReadLayer` and
`Close` of the verifying reader; `Commit` writes the manifest, `Verify` is
`verifyApplyInvariant`. What containers/image makes of an image at a destination
(`Forms`) is external.

**Planner** has the pure algorithms: window and memory estimates, fingerprints and
their scores, `PickTopK`, `ComputePlan`, the choice of a manifest, the mode. A
fingerprint is a function from file digests to sizes. **Command** has the checks of
the command line as operators over one record, an invocation: each gives an error
or `NoError`, and `First` composes them in the order the builders run.
**CommandRun** puts the two together: `Parse` is cobra's argument check, the root
command's hook and the verb's builder of options; `Prepare`, `Plan`, `Budget`,
`Prime`, `Rank` are `Export` up to what it submits to the pool; `Import` is the same
for an import, `Unopened` one that gets no work directory; `Doctor` runs the checks of
doctor. What is submitted is where
EncodeRun and ImportRun begin. A source is asked anew by every pair and may answer
differently.

Operators whose name ends in `Faulty` are not part of the models: each is the
definition after it with a plausible mistake, and PROJECT.json says which property
notices it.

## The runs

| run | instance | shows |
|---|---|---|
| AdmissionGates | 4 tasks, 2 of one key, 2 workers, budget 3; one estimate above it and one below 1 | one key at a time, nothing left behind, the right error, `Wait` returns, implements GatedRun (whose bounds are the gates') |
| RoundTrip | 2 images, 3 layers, targets of at most 2 | what is applied is the target; the scan passes exactly what can be applied |
| EncodeRun | 4 jobs of 3 digests, up to 3 candidates, 2 workers, 2 media types, one fault | complete, consistent, deterministic but for the media type; what ends it; ends |
| BaselineSpool | 6 calls of 2 blobs, sources of every kind | verified, once, not cached on error; returns; implements BlobCache |
| ImportRun | 3 images, 1 or 2 workers, every verdict and fate, partial and strict | the report and the result; checks first; ends |
| ExportRun | 2 runs, 3 baseline layers of which two pairs share one, at most one of them bad or written badly, 2 workers | priming, the work directory, archive and signature after failures and crashes; ends |
| ResolveBaselines | 1 or 2 images, 4 retries, delays of 5 bits, given ones above the cap and below zero | every source closed, retries in measure, exit codes, the right baselines |
| BundleFile | 2 exports of 3 targets, crashes and write errors, 6 files of another origin, 3 readers | what is applied was recorded, what is verified was signed, only a whole file is applied |
| Compose | 2 images, 2 shipped layers and a shared baseline layer, 2 faults, 2 destinations, 4 transports | applied means whole and there; scratch files; the cause of a failure |
| CommandRun | all verbs, an ordinary invocation with any two changes, 2 pairs, 7 layers | misuse refused cleanly, ranking, estimates within the budget |
| RoundTripReuse, ImportStrict | as above | a counterexample each, see below |

The instances are small but not trivial: with two tasks of one key, a third of
another key and a fourth, every pair of gates can be contended while a singleflight
is joined and a cancellation arrives; the two workers and budget three let two
tasks run and a third wait at either gate. Two images over three layers give every
relation between a shipped, a shared and a reused layer and a patch source; a third
image adds no relation, as every property is about one image and at most one other.
In EncodeRun two of the jobs are of one digest, with a media type each, while two other
layers are encoded: the candidates of one are a winner, a better one and the first again,
those of the other one layer listed twice, which defeats itself. Of three kinds of fault
(any baselines not spooled, one encode that fails, one target that cannot be read) a
behaviour has one at most, chosen in `MCInit`, and a cancellation at any time; two faults of
different jobs meet only where the pool is stopped, which one does as well.

Four calls for one blob let a failed flight be followed by another flight while a caller
is still between lookup and flight. Three images are enough for a failure, a skipped image
and a success in one report, in any order. Three layers keep two workers busy while a third
waits for a token, and one bad layer among them is fetched together with a good one; the
second export finds everything the first can leave, and a third would find no more.

In ResolveBaselines the fourth retry's delay is the first that does not fit its
width, as the 38th is in 64 bits; with two images a source is open while the next
one fails. In BundleFile two of the targets have the same layers, so that manifests
can be exchanged without a digest noticing, and two exports give every mixture a
reader can meet that was begun during the first; nothing is written once the reader
is done. In Compose the shared layer is reused by one image and patched by the
other, and two faults let each image's baseline be wrong in its own way. In
CommandRun sizes are in MiB and an integer holds fewer than 2^14 of them, so that a
budget of 20 GiB wraps to a negative one; the layers' sizes lie on both sides of the
three bands of windows, one has a media type without the suffix, one cannot be read, one
is listed twice by a baseline, and one that both baselines have is docker's in the first
list only;
two changes to a command line are enough for every check to be the first that fails
and for none that comes later to hide it.

Symmetry is used in RoundTrip only, where images and layers are interchangeable and
no property is temporal. No counter is unbounded. Every behaviour ends, hence
`CHECK_DEADLOCK FALSE`, except that Compose has a step of its own for the end and
is checked for deadlock.

**Fairness.** Weak fairness of every goroutine, of the wake-ups of semaphores and
of the caller: the Go scheduler is preemptive and does not starve a runnable
goroutine, a task given to the pool is assumed to return (registry calls and
subprocesses carry a context), and FIFO semaphores need no strong fairness. No run
assumes that anyone cancels, crashes or starts another run, or that a fetch
succeeds. ResolveBaselines only claims that calls return and timers fire.
BundleFile, Compose and CommandRun have no liveness property and state no fairness. The select of `WorkerPool.Submit` may go either way when both its cases
are ready; nothing depends on which.

### Where the code and its documents disagree

Two runs end in a counterexample on purpose; each checks what a document or a
comment says and the code does not do.

- RoundTripReuse: a layer one image ships as a patch is also handed, as that
  patch, to an image that has the layer in its own baseline and cannot resolve the
  patch (`encode.go:215`).
- ImportStrict: in strict mode `Import` returns nil although an image failed, when
  another one succeeded (`importer.go:294`).

The models show these too. Where a property says what a document promises, the
departure is an exception that the property names (its definition quotes the line), so
that it fails for any other:

- a baseline given by a manifest list is recorded with the selected manifest's
  digest and compared with the list's (`resolve.go:118`, against
  `docs/superpowers/specs/2026-04-20-diffah-design.md:339-340`); `listed` in RoundTrip;
- a baseline that lists twice the layer whose patch wins ends the export, as the cleanup
  of the losing second attempt removes the winner's file (`intralayer.go:213-235`, against
  `encode.go:191-193`); `SelfDefeating` in `OnlyReadErrorsAbort`;
- a layer that two pairs ship under different media types is recorded with the type of
  whichever job ran (`encode.go:258`, against the comment at 46-49); `Deterministic`
  says of the media type only that some job has it;
- a write to a spool file that fails while the fingerprinter reads is taken for a failed
  fingerprint; if it was the last of the layer, or the disk recovers, a file that lacks
  bytes becomes an entry (`pkg/exporter/baselinespool.go:143-158`, against the comment at
  144-147), and patches are made against it that no import can apply; `SpooledAsServed`;
- an image fails with the source of another whose flight it joined
  (`pkg/importer/baselinespool.go:96`, against `importer.go:212-215`); a mismatch may then
  name the other image, or a mixture of both names, as the images write the name of the
  shared error unguarded (`compose.go:177`, `:316`); `FailureHasCause`;
- exit codes differ from `docs/compat.md:12-14` and `README.md:489-491`; `ActualExit` against
  `DocumentedExit` in `ExitTellsCause` and `FailureHasCause`: a local file or a
  destination that may not be opened says "permission denied", which contains
  "denied", and is 2 instead of 3; a registry that still answers 429 or 5xx to the last
  retry, a cut stream and a reference that does not parse are 1; a blob that the
  bundle lacks is 3 and a patch that zstd cannot decode 1, instead of 4;
- a certificate that does not verify is retried as a network error (`IsRetryable` in Errors);
- a file that is no tar, or an archive cut off in an entry, is exit code 1, where
  `docs/compat.md:14` says 4;
- the signature covers the sidecar alone: a verified import may still find a damaged
  or a missing blob, though `docs/recipes/offline-verify.md:79-80` and `131-134` say
  that a partial copy fails verification before any blob is read; and nothing compares
  the manifest in the archive with its name until the image has been applied, nor then
  if the destination converts it (`invariant.go:62`, against `:14-16`): if the archive is
  rewritten under such an import another target may be applied, with other layers where
  the baseline has them; `AppliedIsRecorded`;
- the key is loaded after the archive has been overwritten, so a key that cannot be
  read leaves a new archive beside the earlier `.sig` (`Sign`);
- two images sent to one destination may both be reported applied, and a
  docker-archive destination that unpacks layers makes the invariant check fail for a
  good image (`Compose`; what such an archive holds is our reading of containers/image);
- values of `--intra-layer` and `--platform` that make no sense are exit code 1, after the work directory
  was made or the baseline's registry was asked, where `docs/compat.md:12` has 2 for a bad flag;
- a memory budget of 2^33 GiB or more wraps, to a negative number it switches the
  check off (`spool_flags.go:120`); the hint that a smaller window helps is wrong below 27
  (`exporter.go:187`): the table has no such window and assumes the largest;
- the importer estimates with the automatic window whatever window the exporter used
  (`pkg/importer/admission.go:14-15` says it "never under-counts");
- the media type of docker's layers, `.tar.gzip`, has no `+gzip` suffix, so their
  fingerprints fail and candidates are ranked by size alone (`fingerprint.go:87`, against
  `README.md:513-527`), and a layer that two baselines list with different media types is
  fingerprinted once, by the first (`baselinespool.go:145`, `encode.go:101-110`);
  `Readable` and `Shared` in `RankedIsBest`;
- misuse that `docs/compat.md` has refused goes ahead: a reserved transport in a
  specification (95-101), a `--password` alone (114, 132), an `--authfile` next to
  `--no-creds` (117, 133); and a value of the wrong type is refused with exit code 1,
  not 2 (`classify.go:52-61`); `Overlooked` and `MisuseExit` in `RefusedCleanly`. (That
  `diff` and `bundle` reject registries and directories until "phase 3", as the same
  table says, is contradicted by `README.md:226-228` and not counted as misuse.)
- `--workers` of an import is not validated; baseline and output specifications do not
  resolve paths against their own directory, as bundle specifications do.

Met on the way, with no property of their own: an error on a later candidate
leaves the file of the candidate that was winning (`intralayer.go:211`, "auto-cleaned
on loss" at 162); rows of skipped images come last although `summary.go:44-46`
promises sidecar order; the archive is written in place (`writer.go:17`), although
`docs/superpowers/specs/2026-04-20-diffah-design.md:306` speaks of an atomic rename,
so after a crash a truncated archive may be where a good one was (ExportRun shows
that it has no signature that fits); the trailing block of the archive is written by
a deferred call whose error is dropped, hence the extent `"open"`; and an export
without a key leaves an earlier export's `.sig` beside the new archive.

## The proofs

The proofs hold for every set of tasks, calls, images and digests and every value of
the other constants that the modules' assumptions allow; the assumptions are evaluated
by the runs. Every safety property of a run that is to pass is stated by a theorem, and
so are both refinements. Each proof goes by an inductive invariant, with one lemma for
each action. Two of the modules prove about two components that share no variable; so
that both can be extended, RoundTrip and ExportRun prefix `Init`, `Next`, `Spec` and `vars`
with `Trip` and `Export`.

**AdmissionPoolProofs** (assuming `Tasks` finite, estimates, workers and budget
integers; nothing about their sign, as the code clamps them). The gates' bounds are
not inductive: a counter says how many tokens are taken, not by whom. The inductive
invariant says that each semaphore's counter is the number of tokens held by the
goroutines whose program counter lies between that gate's grant and its release
(for memory, the cardinality of the set of their units), that a waiter is in a queue
exactly when its location says so, and once; that goroutines beyond the singleflight
are in `flight` and no two of a key are; and that the recorded error, the cause of
the cancellation and the outcomes agree. From it follow type correctness,
`WithinBounds`, `SameKeyExclusive`, `NothingLeftBehind` and `OutcomeReported`. The
last part uses it for the step simulation: each action of the pool is a step of GatedRun
or leaves its two variables unchanged (`PoolKeepsItsPromise`).

**BaselineSpoolProofs** (assuming only what `CallAssumption` says). The inductive
invariant ties a call's location to the flight it leads or waits for, the temporary
file to what the source gave, and the final file to the entry; from it follow the
safety properties and `SpoolKeepsItsPromise`, that the spool implements BlobCache.

**EncodeRunProofs** (any layers, candidates, sizes and failures). `PoolComplete` needs
to know whose every file is. The invariant says what a file of each name holds, that
two jobs of a digest never run together, that the winner of a job so far is the best of
the candidates before the one it tries, and that an entry and its blob come together.
`OnlyReadErrors` follows a job whose winner was tried twice up to the rename that does not
find its file; `ScheduleIndependent` compares each entry with the one the inputs
determine. Neither has a hypothesis beyond the module's assumptions: baselines may list
a layer twice, and manifests may disagree about a media type.

**ImportRunProofs** (any number of images, verdicts, fates). The list of what is to be
applied is gone through in order: the invariant says of the images before, at and after
the place reached what has become of them, of each image how far its record, its row
and the pool's view of it are, and of the rows that they are of different images and
tell their outcomes. `ReportIsTrue` and `ScheduleFree` are read off it at the end, where
the sorted rows are compared with the one list that the inputs determine: a set of
numbers has one increasing enumeration.

**ResolveBaselinesProofs** (any number of images and retries, any widths). The
invariant adds to `SourcesAccounted` that the resolved images come before the current
one, that a call runs only where its source is or is not open, which errors came before
each attempt, and which error of all those is returned. `ExitTellsCause` needs the errors
told apart: which category and which exit code each kind of failure has
is a lemma about Errors.

**BundleFileProofs** (any exports, targets and strangers): a signature file that is
full is over a sidecar that was signed, and what was verified is what was parsed;
for `AppliedIsRecorded` it is enough to follow what is parsed, found and compared,
whatever the file holds meanwhile. For `FileDecides` the invariant says that the file is
nameless or begins as one archive does, and that a reader of a file nobody disturbs is at
a place of that archive, has collected exactly what comes before it, and ends with the
verdict that the whole of it deserves.

The second part of that module is about **RoundTrip** (any images, digests and lengths of
targets). `AppliedIsTarget` needs no history, as nothing
is written that was not read back right. For `RoundTripHolds` and `ScanForesees` the
invariant follows a layer from the plan: what a pair ships is in the bundle or still to be
encoded, a patch is against the baseline of the only image that ships its layer, and a
verdict says what the scan found.

**ComposeProofs** (any images, bundles, outputs and faults): the layers written so far are a
prefix of the image's, each right, because bytes that are wrong are either caught by the
reader or came from the spool, which holds only right ones; a scratch file belongs to
the layer its image is at; a destination that one image has to itself holds that
image's manifest from `Commit` on. For `FailureHasCause` the invariant adds who is in
which flight and who led the one an image was in, and that each reason is that of the
bundle's blob, of the baseline of the leader, of the destination or of a cancellation.

**CommandRunProofs** (any command lines, sources, sizes). The estimate `Rank`
submits for a layer is the one `Budget` compared, as plans and invocation do not
change in between; the same for `Import`. `RefusedCleanly` follows from how far the
checks had come when something was touched first, and from which error each kind of
misuse, noticed or overlooked, meets first. For `RankedIsBest` it is shown that
`PickTopK`, which gives each layer the place that counts how many come before it,
picks the first of a linear order; that the order compares the bytes really shared,
because scores are the sums of a layer's own files in the fingerprints; and that plans,
fingerprints and ranks are of the images that were opened, each fingerprint made by the media type of the
first list that has the layer.

The second part of that module is about **ExportRun** (any layers, workers, runs). The invariant says which layers the loop has given to a worker, what each
worker has done so far with the file of its layer, and that a signature at the output
path is of an earlier run, or of this one's whole archive. `SpooledAsServed`,
`PrimingIsFailSoft`, `ArchiveIsComplete` and `WorkdirEmptied` follow.

Recursion in the models is over lists and sums over sets, written as recursive functions
or with the folds. That they are what they are meant to be is proved where it is needed
(`AmongIsList`, `SumIsNat`): a function that satisfies the recursion up to n exists
for every n, by the least number for which none did, since the library's induction
theorems cannot be used here.

Only model-checked: liveness (`WaitComesBack`, `EncodeEnds`, `CallsReturn`,
`ImportReturns`, `ExportReturns`), as fairness and ENABLED are out of the
prover's reach, and of course the two properties that fail. The type invariants of the
modules other than AdmissionPool and BaselineSpool were checked by TLC and are not part
of the runs; what the proofs need of them is part of the inductive invariants.

## Not modelled, and why

- The bytes: tar, zstd, JSON, digests. A file is whole, wrong, a patch of
  something, made of two, or cut off; that is all the properties tell apart.
- containers/image: a source serves a layer, other bytes or an error; a destination
  keeps, converts or refuses an image.
- Cryptography, key formats and canonical JSON of the signer: sequential, one document.
- Progress, logging, help, JSON output and what inspect computes for display: no state of
  theirs is read by another component.
- Work directories shared by two runs at once: nothing in the code or its documents
  allows for it. A removal of the work directory that fails: it is a warning, and what it
  leaves is up to the file system. Panics of a worker pool's task.
- Code no command reaches: `internal/archive/writer.go`, `internal/imageio/sniff.go`, the
  constructors of `pkg/exporter/baseline.go`, `pkg/importer`'s known destinations.
- Test servers and fixture generators (`scripts/build_fixtures`, `internal/registrytest`).

## The plan

1. *(done)* AdmissionPool and its promise; RoundTrip; EncodeRun; BaselineSpool and
   its promise; ImportRun; ExportRun.
2. *(done)* Errors; ResolveBaselines; BundleFile; Compose; Command, Planner and
   CommandRun, each with its first theorems but the modules of operators.
3. *(done)* Proofs of the safety properties of all runs.
4. Proofs of what the models rest on and no run states: the algorithms of Planner against
   what they are for, the classification of errors, the checks of the command line.
