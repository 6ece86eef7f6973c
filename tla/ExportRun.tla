------------------------------ MODULE ExportRun ------------------------------
(***************************************************************************)
(* Exports of one bundle to one output path, run after run (pkg/exporter   *)
(* Export, internal/workdir, pkg/signer WriteSidecars): the work           *)
(* directory, the baselines spooled by a worker pool (phase E1), the       *)
(* encodes, the archive and its signature on disk. A run may fail at any   *)
(* step, be cancelled, or crash and leave its files behind.                *)
(*                                                                         *)
(* The encodes are EncodeRun's matter and a single step here. Fingerprints *)
(* are left out, but for the errors of others they hide: one that fails is *)
(* only an empty value. The spool's singleflight is left out too, as       *)
(* priming asks for every layer once.                                      *)
(*                                                                         *)
(* An operator whose name ends in Faulty is no part of the model: it is    *)
(* the definition after it with a plausible mistake, kept to show which    *)
(* property notices that mistake.                                          *)
(***************************************************************************)
EXTENDS Integers, Sequences, FiniteSets, Functions

CONSTANTS
  Order,       \* the baseline layers of all pairs, in the order they are met
  WorkersArg,  \* opts.Workers
  MaxRuns,     \* bound: the exports to the output path
  MaxFaults    \* bound: the layers of a run whose source or spool file fails

ASSUME RunsAssumption ==
  Order \in Seq(Range(Order)) /\ MaxRuns \in Nat /\ MaxFaults \in Nat

BaselineLayers == Range(Order)
Workers        == IF WorkersArg < 1 THEN 1 ELSE WorkersArg

VARIABLES
  shared,     \* the work directory is given, not named at random
  source,     \* [BaselineLayers -> SourceKind]: what the first pair's reference serves
  runs,       \* the exports started so far; the last one's archive is that number
  signing,    \* opts.SignKeyPath is set
  phase,      \* where the run is
  result,     \* what the last run returned
  cancelled,  \* the caller's context is done
  poolDone,   \* and so is the worker pool's, derived from it
  pos,        \* the next layer of Order to submit
  checked,    \* Submit has found the pool's context alive
  task,       \* [BaselineLayers -> Location]: the worker that spools a layer
  poolErr,    \* the error the pool's errgroup keeps
  files,      \* [BaselineLayers -> Content]: <workdir>/baselines
  entries,    \* the layers the spool remembers
  unwritten,  \* the layers whose spool file could not be made or written to
  archive,    \* the file at opts.OutputPath: whose it is and how much is there
  sig         \* the .sig file: 0 none, -1 cut short, or the archive it signs

inputs     == <<shared, source>>
pool       == <<pos, checked, task, poolErr>>
disk       == <<archive, sig>>
exportVars == <<inputs, runs, signing, phase, result, cancelled, poolDone, pool, files,
                entries, unwritten, disk>>

\* The right bytes, other bytes, a stream that breaks off, an error.
SourceKind == {"whole", "wrong", "cut", "gone"}

\* Of a file: nothing, some bytes while it is written, what a source serves, or
\* that without the bytes of a write that failed.
Content    == {"none", "part", "whole", "wrong", "short"}
Location   == {"none", "fetch", "stream", "commit", "fail", "done"}
Phase      == {"idle", "plan", "prime", "encode", "create", "write", "sign",
               "truncate", "writeSig"}

\* An archive that is cut misses entries, even if it ends like a whole one; an
\* open one has them all and lacks the end marker, which a tar reader accepts.
Extent == {"none", "cut", "open", "whole"}

NoFiles == [d \in BaselineLayers |-> "none"]

BadSources == {d \in BaselineLayers : source[d] # "whole"}

ExportInit ==
  /\ shared \in BOOLEAN
  /\ source \in [BaselineLayers -> SourceKind]
  /\ Cardinality(BadSources) <= MaxFaults
  /\ runs = 0
  /\ signing = FALSE
  /\ phase = "idle"
  /\ result = "none"
  /\ cancelled = FALSE
  /\ poolDone = FALSE
  /\ pos = 1
  /\ checked = FALSE
  /\ task = [d \in BaselineLayers |-> "none"]
  /\ poolErr = "none"
  /\ files = NoFiles
  /\ entries = {}
  /\ unwritten = {}
  /\ archive = [run |-> 0, state |-> "none"]
  /\ sig = 0
-----------------------------------------------------------------------------
(* A run begins, is cancelled, crashes or returns.                         *)

\* A directory with a random name is empty; a given one may hold what a crashed
\* run left.
Start ==
  /\ phase = "idle"
  /\ runs < MaxRuns
  /\ runs' = runs + 1
  /\ signing' \in BOOLEAN
  /\ phase' = "plan"
  /\ result' = "none"
  /\ cancelled' = FALSE
  /\ poolDone' = FALSE
  /\ pos' = 1
  /\ checked' = FALSE
  /\ task' = [d \in BaselineLayers |-> "none"]
  /\ poolErr' = "none"
  /\ files' = IF shared THEN files ELSE NoFiles
  /\ entries' = {}
  /\ unwritten' = {}
  /\ UNCHANGED <<inputs, disk>>

Cancel ==
  /\ phase # "idle"
  /\ ~cancelled
  /\ cancelled' = TRUE
  /\ UNCHANGED <<inputs, runs, signing, phase, result, poolDone, pool, files, entries,
                 unwritten, disk>>

\* The end of a context reaches the contexts derived from it one by one.
Propagate ==
  /\ phase = "prime"
  /\ cancelled /\ ~poolDone
  /\ poolDone' = TRUE
  /\ UNCHANGED <<inputs, runs, signing, phase, result, cancelled, pool, files, entries,
                 unwritten, disk>>

Crash ==
  /\ phase # "idle"
  /\ phase' = "idle"
  /\ result' = "crashed"
  /\ task' = [d \in BaselineLayers |-> "none"]
  /\ UNCHANGED <<inputs, runs, signing, cancelled, poolDone, pos, checked, poolErr,
                 files, entries, unwritten, disk>>

LeaveFaulty(r) == phase' = "idle" /\ result' = r /\ UNCHANGED files

\* The deferred cleanup removes the work directory.
Leave(r) == phase' = "idle" /\ result' = r /\ files' = NoFiles

Goto(p) == phase' = p /\ UNCHANGED <<result, files>>

\* ensureWorkdir, planning and the check of the memory budget may fail. A failing
\* ensureWorkdir removes what it made; a directory that is there already, with
\* what a crashed run left in it, is no reason to fail.
PlanPairs ==
  /\ phase = "plan"
  /\ Leave("err") \/ Goto("prime")
  /\ UNCHANGED <<inputs, runs, signing, cancelled, poolDone, pool, entries, unwritten,
                 disk>>
-----------------------------------------------------------------------------
(* Phase E1: primeBaselineSpool and the worker pool.                       *)

Running == {d \in BaselineLayers : task[d] \notin {"none", "done"}}

Seen(k) == \E h \in 1..(k - 1) : Order[h] = Order[k]

\* The pool's Submit without its context: the error is kept like a task's.
Refuse == poolErr' = "ctx" /\ pos' = pos + 1 /\ checked' = FALSE /\ UNCHANGED task

\* A layer two pairs share is submitted once; a pool whose context is done
\* takes no more.
Check ==
  /\ phase = "prime"
  /\ pos <= Len(Order)
  /\ ~checked
  /\ IF Seen(pos)
       THEN pos' = pos + 1 /\ UNCHANGED <<checked, task, poolErr>>
     ELSE IF poolDone THEN Refuse
     ELSE checked' = TRUE /\ UNCHANGED <<pos, task, poolErr>>
  /\ UNCHANGED <<inputs, runs, signing, phase, result, cancelled, poolDone, files,
                 entries, unwritten, disk>>

\* The select: the end of the context, or a token; either when both are there.
Select ==
  /\ phase = "prime"
  /\ checked
  /\ \/ poolDone /\ Refuse
     \/ /\ Cardinality(Running) < Workers
        /\ task' = [task EXCEPT ![Order[pos]] = "fetch"]
        /\ pos' = pos + 1
        /\ checked' = FALSE
        /\ UNCHANGED poolErr
  /\ UNCHANGED <<inputs, runs, signing, phase, result, cancelled, poolDone, files,
                 entries, unwritten, disk>>

At(d, l) == task' = [task EXCEPT ![d] = l]

worker == <<inputs, runs, signing, phase, result, cancelled, poolDone, pos, checked,
            disk>>

\* The disk is full, or fails, at one of the writes to the file.
WriteFails(d) ==
  /\ Cardinality(BadSources \cup unwritten \cup {d}) <= MaxFaults
  /\ unwritten' = unwritten \cup {d}

FetchFaulty(d) ==
  /\ task[d] = "fetch"
  /\ \/ /\ source[d] = "gone" \/ cancelled
        /\ At(d, "fail")
        /\ UNCHANGED <<files, unwritten>>
     \/ /\ source[d] # "gone"
        /\ files' = [files EXCEPT ![d] = IF @ = "none" THEN "part" ELSE @]
        /\ At(d, IF files[d] = "none" THEN "stream" ELSE "commit")
        /\ UNCHANGED unwritten
  /\ UNCHANGED <<worker, poolErr, entries>>

\* spoolOnce: ask for the layer, create its file; what was there is cut off. A
\* source need not notice that the context is done.
Fetch(d) ==
  /\ task[d] = "fetch"
  /\ \/ /\ source[d] = "gone" \/ cancelled
        /\ At(d, "fail")
        /\ UNCHANGED <<files, unwritten>>
     \/ /\ source[d] # "gone"
        /\ \/ At(d, "stream") /\ files' = [files EXCEPT ![d] = "part"] /\ UNCHANGED unwritten
           \/ At(d, "fail") /\ WriteFails(d) /\ UNCHANGED files
  /\ UNCHANGED <<worker, poolErr, entries>>

\* streamToSpool: the stream is read to its end; an error removes the file. What
\* the fingerprinter reads is written to the file by the reader it is given, so
\* a write that fails then is a fingerprint that failed, of no consequence: the
\* rest is drained, and if that is nothing, or can be written again, the file is
\* taken without the bytes that were lost.
Stream(d) ==
  /\ task[d] = "stream"
  /\ \/ /\ source[d] = "cut" \/ cancelled
        /\ At(d, "fail")
        /\ files' = [files EXCEPT ![d] = "none"]
        /\ UNCHANGED unwritten
     \/ /\ source[d] # "cut"
        /\ At(d, "commit")
        /\ files' = [files EXCEPT ![d] = source[d]]
        /\ UNCHANGED unwritten
     \/ /\ WriteFails(d)
        /\ \/ At(d, "fail") /\ files' = [files EXCEPT ![d] = "none"]
           \/ /\ source[d] # "cut"
              /\ At(d, "commit")
              /\ files' = [files EXCEPT ![d] = "short"]
  /\ UNCHANGED <<worker, poolErr, entries>>

Commit(d) ==
  /\ task[d] = "commit"
  /\ entries' = entries \cup {d}
  /\ At(d, "done")
  /\ UNCHANGED <<worker, poolErr, files, unwritten>>

FailFaulty(d) ==
  /\ task[d] = "fail"
  /\ At(d, "done")
  /\ poolErr' = "ctx"
  /\ UNCHANGED <<worker, files, entries, unwritten>>

\* A layer that cannot be spooled is a warning, unless the pool is done.
Fail(d) ==
  /\ task[d] = "fail"
  /\ At(d, "done")
  /\ poolErr' = IF poolDone THEN "ctx" ELSE poolErr
  /\ UNCHANGED <<worker, files, entries, unwritten>>

WaitFaulty ==
  /\ phase = "prime"
  /\ pos > Len(Order)
  /\ \A d \in BaselineLayers : task[d] = "done"
  /\ IF poolErr = "none" THEN Goto("encode") ELSE Leave("err")
  /\ UNCHANGED <<inputs, runs, signing, cancelled, poolDone, pool, entries, unwritten,
                 disk>>

\* pool.Wait()
Wait ==
  /\ phase = "prime"
  /\ pos > Len(Order)
  /\ Running = {}
  /\ IF poolErr = "none" THEN Goto("encode") ELSE Leave("err")
  /\ UNCHANGED <<inputs, runs, signing, cancelled, poolDone, pool, entries, unwritten,
                 disk>>
-----------------------------------------------------------------------------
(* Phase E2, the archive and the signature.                                *)

caller == <<inputs, runs, signing, cancelled, poolDone, pool, entries, unwritten>>

\* EncodeRun. A context that is done ends it only if there is something to encode.
Encode ==
  /\ phase = "encode"
  /\ Leave("err") \/ Goto("create")
  /\ UNCHANGED <<caller, disk>>

\* writeBundleArchive: os.Create empties the file of the run before.
Create ==
  /\ phase = "create"
  /\ \/ Leave("err") /\ UNCHANGED archive
     \/ Goto("write") /\ archive' = [run |-> runs, state |-> "cut"]
  /\ UNCHANGED <<caller, sig>>

WriteFaulty ==
  /\ phase = "write"
  /\ IF signing THEN Goto("sign") ELSE Leave("ok")
  /\ \E e \in Extent \ {"none"} : archive' = [archive EXCEPT !.state = e]
  /\ UNCHANGED <<caller, sig>>

\* The sidecar, then the blobs; without a key that is all. What the deferred
\* Close of the tar writer cannot write goes unnoticed.
Write ==
  /\ phase = "write"
  /\ \/ Leave("err") /\ UNCHANGED archive
     \/ /\ IF signing THEN Goto("sign") ELSE Leave("ok")
        /\ \E e \in {"open", "whole"} : archive' = [archive EXCEPT !.state = e]
  /\ UNCHANGED <<caller, sig>>

\* signArchive: read the sidecar back, sign it.
Sign ==
  /\ phase = "sign"
  /\ Leave("err") \/ Goto("truncate")
  /\ UNCHANGED <<caller, disk>>

\* WriteSidecars: os.WriteFile empties the file before it writes.
Truncate ==
  /\ phase = "truncate"
  /\ \/ Leave("err") /\ UNCHANGED sig
     \/ Goto("writeSig") /\ sig' = -1
  /\ UNCHANGED <<caller, archive>>

WriteSig ==
  /\ phase = "writeSig"
  /\ \/ Leave("err") /\ UNCHANGED sig
     \/ Leave("ok") /\ sig' = archive.run
  /\ UNCHANGED <<caller, archive>>
-----------------------------------------------------------------------------
Worker(d) == Fetch(d) \/ Stream(d) \/ Commit(d) \/ Fail(d)

Main ==
  \/ PlanPairs \/ Check \/ Select \/ Wait
  \/ Encode \/ Create \/ Write \/ Sign \/ Truncate \/ WriteSig

ExportNext ==
  \/ Start \/ Cancel \/ Propagate \/ Crash \/ Main
  \/ \E d \in BaselineLayers : Worker(d)

\* The caller's goroutine and the workers keep running; nobody has to start a
\* run, to cancel or to crash.
ExportSpec ==
  /\ ExportInit /\ [][ExportNext]_exportVars
  /\ WF_exportVars(Main) /\ WF_exportVars(Propagate)
  /\ \A d \in BaselineLayers : WF_exportVars(Worker(d))
-----------------------------------------------------------------------------
(* Properties.                                                             *)

TypeOK ==
  /\ runs \in 0..MaxRuns
  /\ phase \in Phase
  /\ result \in {"none", "ok", "err", "crashed"}
  /\ pos \in 1..(Len(Order) + 1)
  /\ task \in [BaselineLayers -> Location]
  /\ poolErr \in {"none", "ctx"}
  /\ files \in [BaselineLayers -> Content]
  /\ entries \subseteq BaselineLayers /\ unwritten \subseteq BaselineLayers
  /\ archive \in [run : 0..MaxRuns, state : Extent]
  /\ sig \in -1..MaxRuns

\* A layer the spool remembers is on disk, all of it, as its source served it in
\* this run, although the file is written under its final name and a crashed run
\* may have left one (streamToSpool). The encoder makes patches against it. The
\* one exception to what streamToSpool says of its file, that it "ends up
\* byte-identical" (baselinespool.go:144), is a write that failed under the
\* fingerprinter: then the file may lack bytes, and is no leftover either.
SpooledAsServed ==
  phase # "idle" =>
    \A d \in entries :
      \/ files[d] = source[d]
      \/ d \in unwritten /\ files[d] = "short"

PastPriming == phase \notin {"idle", "plan", "prime"}

\* Priming spools every layer it can, whatever the others came to: those that
\* cannot be had are left out, and perhaps those that cannot be written.
PrimedUnlessCancelled ==
  PastPriming /\ ~cancelled =>
    LET there == {d \in BaselineLayers : source[d] \in {"whole", "wrong"}}
    IN  there \ unwritten \subseteq entries /\ entries \subseteq there

\* One bad baseline does not end the export: only a cancellation ends priming.
OnlyCancellationEndsPriming == poolErr # "none" => cancelled

\* A cancellation that kept a layer from being tried is reported: priming returns
\* nil only after every layer, shared ones included, was handed to a worker that
\* is done with it. (One that comes while the last workers fail need not be: a
\* worker looks at the pool's context, which may end after the source's.)
RefusalReported == PastPriming => \A d \in BaselineLayers : task[d] = "done"

\* All three: a layer that cannot be had costs that layer, a cancellation the run.
PrimingIsFailSoft ==
  PrimedUnlessCancelled /\ OnlyCancellationEndsPriming /\ RefusalReported

\* Export returns nil only with this run's archive at the output path, no entry
\* missing, and with this archive's signature beside it when a key was given.
NilMeansComplete ==
  phase = "idle" /\ result = "ok" =>
    /\ archive.run = runs /\ archive.state \in {"open", "whole"}
    /\ signing => sig = runs

\* Whatever failed, crashed or was there before: an archive whose signature is
\* beside it has all its entries. (The signature is that of the sidecar, and two
\* runs' sidecars differ, if only in created_at.)
SignedIsComplete ==
  sig = archive.run /\ sig # 0 => archive.state \in {"open", "whole"}

\* An archive that is reported as written, or that its signature fits, is whole.
ArchiveIsComplete == NilMeansComplete /\ SignedIsComplete

\* A run that returns, with an error or without, leaves nothing in the work
\* directory, and no worker that could still write there.
WorkdirEmptied ==
  phase = "idle" /\ result \in {"ok", "err"} => files = NoFiles /\ Running = {}

\* Every run comes to an end.
ExportReturns == phase # "idle" ~> phase = "idle"

=============================================================================
