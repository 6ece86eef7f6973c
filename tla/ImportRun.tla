------------------------------ MODULE ImportRun ------------------------------
(***************************************************************************)
(* One import of a bundle of several images (pkg/importer Import and       *)
(* importEachImage): checks, preflight of every image, the images that     *)
(* passed applied one after the other or by an admission pool, the report  *)
(* and what the caller is told.                                            *)
(*                                                                         *)
(* The pool is GatedRun, the promise AdmissionPool is shown to keep; every *)
(* image is a key of its own. What becomes of each image is chosen at the  *)
(* start, so that the report can be compared with what the inputs          *)
(* determine; a cancelled context may make an image that is being composed *)
(* fail. How preflight and compose come to their verdicts is RoundTrip's   *)
(* matter, the shared spool is BaselineSpool's.                            *)
(*                                                                         *)
(* An operator whose name ends in Faulty is no part of the model: it is    *)
(* the definition after it with a plausible mistake, kept to show which    *)
(* property notices that mistake.                                          *)
(***************************************************************************)
EXTENDS Integers, Sequences, FiniteSets

CONSTANTS
  N,        \* the number of images of the bundle, in sidecar order
  Modes,    \* the values of opts.Strict to consider
  Workers   \* opts.Workers, where it is more than one

ASSUME NAssumption == N \in Nat \ {0} /\ Modes \subseteq BOOLEAN

Images == 1..N

VARIABLES
  strict,     \* opts.Strict
  serial,     \* opts.Workers <= 1
  limited,    \* opts.MemoryBudget > 0
  verdict,    \* [Images -> Verdict]: what preflight finds
  fate,       \* [Images -> Fate]: what applying the image comes to
  oversize,   \* the images whose estimate exceeds the budget
  cancelled,  \* the caller's context is done
  phase,      \* where Import is
  applyList,  \* the images that passed preflight
  next,       \* the next of them to submit or apply
  status, stopped,  \* the pool: see GatedRun
  submitted,  \* the images handed to it
  pc,         \* [Images -> {"none", "compose", "record", "end"}]
  outcome,    \* [Images -> {"none"} \cup Fate]: what applying it came to
  rows,       \* report.Results
  workdir,    \* the run's scratch directory is there
  ret         \* "none", then what Import returns

inputs == <<strict, serial, limited, verdict, fate, oversize>>
pool   == <<status, stopped, submitted>>
vars   == <<inputs, cancelled, phase, applyList, next, pool, pc, outcome, rows,
            workdir, ret>>

Pool == INSTANCE GatedRun WITH
  Tasks <- Images, KeyOf <- [i \in Images |-> i],
  Need <- [i \in Images |-> 1], Budget <- 0

\* "schema": the target manifest in the bundle does not parse.
Verdict == {"ok", "skip", "schema"}
\* "unread": the estimate cannot be made.
Fate    == {"ok", "compose", "invariant", "unread"}
Phase   == {"open", "preflight", "budget", "apply", "report", "done"}

\* The name of the row that stands for the whole import.
BudgetSentinel == 0

Row(i, s) == [image |-> i, status |-> s]

Init ==
  /\ strict \in Modes
  /\ serial \in BOOLEAN
  /\ limited \in BOOLEAN
  /\ verdict \in [Images -> {"ok", "skip"}] \cup
                 {[i \in Images |-> IF i = m THEN "schema" ELSE "ok"] : m \in Images}
  /\ fate \in [Images -> Fate]
  /\ oversize \in {{}} \cup IF limited THEN {{i} : i \in Images} ELSE {}
  /\ cancelled = FALSE
  /\ phase = "open"
  /\ applyList = <<>>
  /\ next = 1
  /\ Pool!Init
  /\ submitted = {}
  /\ pc = [i \in Images |-> "none"]
  /\ outcome = [i \in Images |-> "none"]
  /\ rows = <<>>
  /\ workdir = FALSE
  /\ ret = "none"

Cancel ==
  /\ ret = "none"
  /\ ~cancelled
  /\ cancelled' = TRUE
  /\ UNCHANGED <<inputs, phase, applyList, next, pool, pc, outcome, rows, workdir,
                 ret>>

\* Import returns; the deferred cleanup removes the workdir.
Return(r) == phase' = "done" /\ ret' = r /\ workdir' = FALSE
-----------------------------------------------------------------------------
(* Before any image is applied.                                            *)

\* The workdir, the archive, the signature, zstd, the baselines: any of these
\* may fail.
Prepare ==
  /\ phase = "open"
  /\ \/ Return("err")
     \/ phase' = "preflight" /\ workdir' = TRUE /\ UNCHANGED ret
  /\ UNCHANGED <<inputs, cancelled, applyList, next, pool, pc, outcome, rows>>

Below(S, R, x) == {y \in S : <<y, x>> \in R}

\* The elements of S, each after those that the order R puts before it.
InOrder(S, R) ==
  [p \in 1..Cardinality(S) |-> CHOOSE x \in S : Cardinality(Below(S, R, x)) = p - 1]

Ascending(S) == InOrder(S, {e \in S \X S : e[1] < e[2]})

Passed == Ascending({i \in Images : verdict[i] = "ok"})

PreflightFaulty ==
  /\ phase = "preflight"
  /\ \/ Return("err") /\ UNCHANGED applyList
     \/ /\ ~cancelled
        /\ \A i \in Images : verdict[i] # "schema"
        /\ applyList' = Passed
        /\ phase' = "budget"
        /\ UNCHANGED <<workdir, ret>>
  /\ UNCHANGED <<inputs, cancelled, next, pool, pc, outcome, rows>>

\* Every image is scanned; a malformed bundle is fatal, and so is any image
\* that fails in strict mode. The spool's directory may fail to be made.
Preflight ==
  /\ phase = "preflight"
  /\ \/ Return("err") /\ UNCHANGED applyList
     \/ /\ ~cancelled
        /\ \A i \in Images : verdict[i] # "schema"
        /\ strict => \A i \in Images : verdict[i] = "ok"
        /\ applyList' = Passed
        /\ phase' = "budget"
        /\ UNCHANGED <<workdir, ret>>
  /\ UNCHANGED <<inputs, cancelled, next, pool, pc, outcome, rows>>

\* Some image, skipped ones included, is too large or has no estimate.
OverBudget ==
  limited /\ (oversize # {} \/ \E i \in Images : fate[i] = "unread")

CheckBudget ==
  /\ phase = "budget"
  /\ IF OverBudget
       THEN /\ rows' = <<Row(BudgetSentinel, "compose")>>
            /\ phase' = "report"
       ELSE phase' = "apply" /\ UNCHANGED rows
  /\ UNCHANGED <<inputs, cancelled, applyList, next, pool, pc, outcome, workdir, ret>>
-----------------------------------------------------------------------------
(* applyOneImage and the record of its result.                             *)

\* A row for image i, whose estimate failed.
Unread(i) ==
  /\ outcome' = [outcome EXCEPT ![i] = "unread"]
  /\ rows' = Append(rows, Row(i, "compose"))

Compose(i) ==
  /\ pc[i] = "compose"
  /\ \E s \in {fate[i]} \cup IF cancelled THEN {"compose"} ELSE {} :
       outcome' = [outcome EXCEPT ![i] = s]
  /\ pc' = [pc EXCEPT ![i] = "record"]
  /\ UNCHANGED <<inputs, cancelled, phase, applyList, next, pool, rows, workdir, ret>>

\* recordResult, under the report's mutex.
Record(i) ==
  /\ pc[i] = "record"
  /\ rows' = Append(rows, Row(i, outcome[i]))
  /\ pc' = [pc EXCEPT ![i] = "end"]
  /\ UNCHANGED <<inputs, cancelled, phase, applyList, next, pool, outcome, workdir,
                 ret>>
-----------------------------------------------------------------------------
(* One worker: images are applied inline, in order.                        *)

Left == next <= Len(applyList)

Inline ==
  LET i == applyList[next]
  IN  /\ phase = "apply" /\ serial /\ Left
      /\ pc[i] = "none"
      /\ IF cancelled
           THEN phase' = "report" /\ UNCHANGED <<pc, outcome, rows, next>>
         ELSE IF fate[i] = "unread"
           THEN /\ Unread(i)
                /\ next' = IF strict THEN Len(applyList) + 1 ELSE next + 1
                /\ UNCHANGED <<pc, phase>>
         ELSE /\ pc' = [pc EXCEPT ![i] = "compose"]
              /\ UNCHANGED <<phase, outcome, rows, next>>
      /\ UNCHANGED <<inputs, cancelled, applyList, pool, workdir, ret>>

\* In strict mode the first failure ends the loop.
Advance(i) ==
  /\ pc[i] = "end" /\ serial
  /\ pc' = [pc EXCEPT ![i] = "none"]
  /\ next' = IF strict /\ outcome[i] # "ok" THEN Len(applyList) + 1 ELSE next + 1
  /\ UNCHANGED <<inputs, cancelled, phase, applyList, pool, outcome, rows, workdir,
                 ret>>
-----------------------------------------------------------------------------
(* Several workers: the pool applies them.                                 *)

SubmitFaulty ==
  LET i == applyList[next]
  IN  /\ phase = "apply" /\ ~serial /\ Left
      /\ IF fate[i] = "unread" THEN Unread(i) ELSE UNCHANGED <<outcome, rows>>
      /\ submitted' = submitted \cup {i}
      /\ next' = next + 1
      /\ UNCHANGED <<inputs, cancelled, phase, applyList, status, stopped, pc,
                     workdir, ret>>

\* submitOneImage
Submit ==
  LET i == applyList[next]
  IN  /\ phase = "apply" /\ ~serial /\ Left
      /\ IF fate[i] = "unread"
           THEN Unread(i) /\ UNCHANGED submitted
           ELSE submitted' = submitted \cup {i} /\ UNCHANGED <<outcome, rows>>
      /\ next' = next + 1
      /\ UNCHANGED <<inputs, cancelled, phase, applyList, status, stopped, pc,
                     workdir, ret>>

Begin(i) ==
  /\ i \in submitted
  /\ Pool!Start(i)
  /\ pc' = [pc EXCEPT ![i] = "compose"]
  /\ UNCHANGED <<inputs, cancelled, phase, applyList, next, submitted, outcome, rows,
                 workdir, ret>>

\* Only in strict mode does the pool hear of a failure.
End(i) ==
  /\ pc[i] = "end" /\ ~serial
  /\ Pool!Finish(i)
  /\ status'[i] = IF strict /\ outcome[i] # "ok" THEN "err" ELSE "ok"
  /\ pc' = [pc EXCEPT ![i] = "none"]
  /\ UNCHANGED <<inputs, cancelled, phase, applyList, next, submitted, outcome, rows,
                 workdir, ret>>

\* A failed task or the caller's context ends the pool's context.
StopPool ==
  /\ ~stopped
  /\ cancelled \/ \E i \in submitted : status[i] = "err"
  /\ Pool!Stop
  /\ UNCHANGED <<inputs, cancelled, phase, applyList, next, submitted, pc, outcome,
                 rows, workdir, ret>>

TurnAway(i) ==
  /\ i \in submitted
  /\ Pool!Skip(i)
  /\ UNCHANGED <<inputs, cancelled, phase, applyList, next, submitted, pc, outcome,
                 rows, workdir, ret>>

WaitFaulty ==
  /\ phase = "apply" /\ ~Left
  /\ stopped \/ \A i \in submitted : status[i] \in Pool!Final
  /\ phase' = "report"
  /\ UNCHANGED <<inputs, cancelled, applyList, next, pool, pc, outcome, rows, workdir,
                 ret>>

WaitAllFaulty ==
  /\ phase = "apply" /\ ~Left
  /\ \A i \in Images : status[i] \in Pool!Final
  /\ phase' = "report"
  /\ UNCHANGED <<inputs, cancelled, applyList, next, pool, pc, outcome, rows, workdir,
                 ret>>

\* pool.Wait(), its error dropped; the loop itself when there is no pool.
Wait ==
  /\ phase = "apply" /\ ~Left
  /\ \A i \in submitted : status[i] \in Pool!Final
  /\ phase' = "report"
  /\ UNCHANGED <<inputs, cancelled, applyList, next, pool, pc, outcome, rows, workdir,
                 ret>>
-----------------------------------------------------------------------------
(* The report.                                                             *)

Rank(i) ==
  IF \E k \in DOMAIN applyList : applyList[k] = i
    THEN CHOOSE k \in DOMAIN applyList : applyList[k] = i
    ELSE Len(applyList) + 1

SortedFaulty(rs) == rs

\* Row e[1] comes before row e[2]: by rank, and stably.
Lower(rs) ==
  LET rank(k) == Rank(rs[k].image)
  IN  {e \in (DOMAIN rs) \X (DOMAIN rs) :
         \/ rank(e[1]) < rank(e[2])
         \/ rank(e[1]) = rank(e[2]) /\ e[1] < e[2]}

\* sortResultsByApplyList
Sorted(rs) == [p \in DOMAIN rs |-> rs[InOrder(DOMAIN rs, Lower(rs))[p]]]

\* mergePreflightSkips
Skipped ==
  LET names == Ascending({i \in Images : verdict[i] = "skip"})
  IN  [k \in DOMAIN names |-> Row(names[k], "skip")]

Succeeded(rs) == {k \in DOMAIN rs : rs[k].status = "ok"}

\* One success is enough for Import to return nil.
Report ==
  /\ phase = "report"
  /\ rows' = Sorted(rows) \o Skipped
  /\ Return(IF Succeeded(rows) = {} THEN "err" ELSE "ok")
  /\ UNCHANGED <<inputs, cancelled, applyList, next, pool, pc, outcome>>
-----------------------------------------------------------------------------
Image(i) ==
  Compose(i) \/ Record(i) \/ Advance(i) \/ Begin(i) \/ End(i) \/ TurnAway(i)

Main ==
  Prepare \/ Preflight \/ CheckBudget \/ Inline \/ Submit \/ Wait \/ Report

Next == Main \/ Cancel \/ StopPool \/ \E i \in Images : Image(i)

\* The caller's goroutine and the pool's keep running; nobody has to cancel.
Spec == /\ Init /\ [][Next]_vars
        /\ WF_vars(Main) /\ WF_vars(StopPool)
        /\ \A i \in Images : WF_vars(Image(i))
-----------------------------------------------------------------------------
(* Properties.                                                             *)

TypeOK ==
  /\ phase \in Phase
  /\ applyList \in {<<>>, Passed}
  /\ next \in 1..(N + 1)
  /\ submitted \subseteq Images
  /\ pc \in [Images -> {"none", "compose", "record", "end"}]
  /\ outcome \in [Images -> {"none"} \cup Fate]
  /\ \A k \in DOMAIN rows : rows[k] \in
       [image : Images \cup {BudgetSentinel}, status : {"ok", "compose", "invariant", "skip"}]
  /\ workdir \in BOOLEAN
  /\ ret \in {"none", "ok", "err"}

Attempted == {i \in Images : outcome[i] # "none"}

\* What a row says of an image whose estimate failed is "compose failed".
Told(s) == IF s = "unread" THEN "compose" ELSE s

\* No image is touched when the bundle is malformed, when some image fails the
\* scan in strict mode, or when some image cannot fit the memory budget.
ChecksComeFirst ==
  Attempted # {} =>
    /\ \A i \in Images : verdict[i] # "schema"
    /\ strict => \A i \in Images : verdict[i] = "ok"
    /\ ~OverBudget

\* When Import returns, every image that was attempted has its row, with what
\* became of it, and no image has two.
ReportedOnce ==
  ret # "none" =>
    \A i \in Images :
      LET own == {k \in DOMAIN rows : rows[k].image = i}
      IN  /\ Cardinality(own) <= 1
          /\ i \in Attempted => \E k \in own : rows[k] = Row(i, Told(outcome[i]))

\* Import returns nil exactly when some image was applied and verified.
SuccessIffApplied ==
  ret # "none" => (ret = "ok" <=> \E i \in Images : outcome[i] = "ok")

\* The report and the result say what became of the images.
ReportIsTrue == ReportedOnce /\ SuccessIffApplied

\* The report the inputs determine, in partial mode.
Determined ==
  IF OverBudget THEN <<Row(BudgetSentinel, "compose")>> \o Skipped
  ELSE [k \in DOMAIN Passed |-> Row(Passed[k], Told(fate[Passed[k]]))] \o Skipped

\* In partial mode, whatever the number of workers and their schedule, a report
\* has a row for every image, in one order, and says what the inputs determine.
ScheduleFree ==
  (ret # "none" /\ rows # <<>> /\ ~strict /\ ~cancelled) => rows = Determined

\* A running image has its scratch directory.
WorkdirOutlivesImages ==
  \A i \in Images : pc[i] = "compose" => workdir

\* Import returns.
ImportReturns == <>(ret # "none")

\* What importEachImage's comment says of strict mode: the failure of an image
\* propagates; so a nil means that no image failed.
StrictReportsFailure ==
  strict /\ ret = "ok" => \A i \in Attempted : outcome[i] = "ok"
=============================================================================
