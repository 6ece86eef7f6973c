------------------------------ MODULE EncodeRun ------------------------------
(***************************************************************************)
(* The exporter's encode phase (pkg/exporter encodeTargets and             *)
(* encodeOneShipped, the planner of intralayer.go and the blob pool of     *)
(* pool.go): one job for every layer a pair ships, run by an admission     *)
(* pool keyed by digest, over files the jobs of a digest share.            *)
(*                                                                         *)
(* The pool is GatedRun, the promise AdmissionPool is shown to keep, with  *)
(* no memory budget: which jobs run together is all that matters here.     *)
(* Which reads and encodes fail is chosen once, at the start, so that the  *)
(* outcome can be compared with what the inputs determine.                 *)
(*                                                                         *)
(* An operator whose name ends in Faulty is no part of the model: it is    *)
(* the definition after it with a plausible mistake, kept to show which    *)
(* property notices that mistake.                                          *)
(***************************************************************************)
EXTENDS Integers, Sequences, FiniteSets, Functions

CONSTANTS
  Jobs,        \* one for every shipped layer of every pair
  Order,       \* the jobs in the order they are submitted
  DigestOf,    \* [Jobs -> digests]: the layer a job encodes
  MediaOf,     \* [Jobs -> media types]: what that pair's manifest calls it
  Ranked,      \* [Jobs -> Seq(baseline digests)]: PickTopK's candidates
  Raw,         \* [digests -> Nat]: the size of each layer
  FullZstd,    \* [digests -> Nat]: its size compressed on its own
  PatchSize,   \* [digests \X baseline digests -> Nat]: as a patch
  IntraLayer,  \* FALSE when patches are turned off
  Workers      \* encodes that may run at once

ASSUME OrderAssumption ==
  Order \in Seq(Jobs) /\ Range(Order) = Jobs /\ Len(Order) = Cardinality(Jobs)

ASSUME LayerAssumption ==
  LET digests   == Range(DigestOf)
      baselines == UNION {Range(Ranked[j]) : j \in Jobs}
  IN  /\ DOMAIN DigestOf = Jobs
      /\ \A j \in Jobs : Ranked[j] \in Seq(baselines)
      /\ Raw \in [digests -> Nat]
      /\ FullZstd \in [digests -> Nat]
      /\ \A d \in digests, b \in baselines : PatchSize[<<d, b>>] \in Nat

VARIABLES
  status, stopped,  \* the pool: see GatedRun
  next,             \* the next job of Order to submit
  submitted,        \* the jobs handed to the pool
  pc,               \* [Jobs -> Location]: where a running job is
  cand,             \* [Jobs -> Nat]: the candidate it tries
  best,             \* [Jobs -> the winner so far: file, entry, size]
  files,            \* name -> content: the files of the workdir
  entries,          \* the blob pool: digest -> entry
  primed,           \* the baseline layers phase E1 could spool
  broken,           \* the (digest, baseline) encodes that fail
  unread,           \* the jobs whose target layer cannot be read
  cancelled,        \* the caller's context is done
  result            \* of encPool.Wait(): "none" before it returns

vars == <<status, stopped, next, submitted, pc, cand, best, files, entries,
          primed, broken, unread, cancelled, result>>

Pool == INSTANCE GatedRun WITH
  Tasks <- Jobs, KeyOf <- DigestOf, Need <- [j \in Jobs |-> 1], Budget <- 0

Digests   == Range(DigestOf)
Baselines == UNION {Range(Ranked[j]) : j \in Jobs}
Location  == {"none", "spool", "plan", "try", "adopt", "register", "clean"}

\* File names: a target spool, a candidate patch, a blob of the bundle. The name
\* of a patch keeps eight digits of b's digest; the candidates of a layer are
\* taken to differ in them, unless they are one layer listed twice.
Target(d)       == <<"target", d>>
CandidateFaulty(d, b) == <<"cand", d>>
Candidate(d, b) == <<"cand", d, b>>
Blob(d)         == <<"blob", d>>

\* What a file holds: the layer itself, or the patch that makes it from b.
Whole      == <<"whole">>
Delta(b)   == <<"patch", b>>

Full(j)      == [encoding |-> "full", media |-> MediaOf[j]]
Patch(j, b)  == [encoding |-> "patch", media |-> MediaOf[j], from |-> b]

\* The planner's default: the target's own bytes.
WholeTarget(j) == [file |-> Target(DigestOf[j]), entry |-> Full(j),
                   size |-> Raw[DigestOf[j]]]

RefCount(d) == Cardinality({j \in Jobs : DigestOf[j] = d})
Registered(d) == d \in DOMAIN entries

Put(f, n, v)   == [m \in DOMAIN f \cup {n} |-> IF m = n THEN v ELSE f[m]]
Without(f, ns) == Restrict(f, DOMAIN f \ ns)

Init ==
  /\ Pool!Init
  /\ next = 1
  /\ submitted = {}
  /\ pc = [j \in Jobs |-> "none"]
  /\ cand = [j \in Jobs |-> 1]
  /\ best = [j \in Jobs |-> WholeTarget(j)]
  /\ files = <<>>
  /\ entries = <<>>
  /\ primed \in SUBSET Baselines
  /\ broken \in {{}} \cup UNION {{{<<DigestOf[j], b>>} : b \in Range(Ranked[j])} : j \in Jobs}
  /\ unread \in {{}} \cup {{j} : j \in Jobs}
  /\ cancelled = FALSE
  /\ result = "none"
-----------------------------------------------------------------------------
(* The caller.                                                             *)

\* The loop of encodeTargets: a layer already in the pool needs no job.
Submit ==
  /\ next <= Len(Order)
  /\ next' = next + 1
  /\ submitted' = IF Registered(DigestOf[Order[next]]) THEN submitted
                  ELSE submitted \cup {Order[next]}
  /\ UNCHANGED <<status, stopped, pc, cand, best, files, entries, primed, broken,
                 unread, cancelled, result>>

WaitFaulty ==
  /\ result = "none"
  /\ next > Len(Order)
  /\ \A j \in Jobs : status[j] \in Pool!Final
  /\ result' = IF \A j \in submitted : status[j] = "ok" THEN "ok" ELSE "err"
  /\ UNCHANGED <<status, stopped, next, submitted, pc, cand, best, files, entries,
                 primed, broken, unread, cancelled>>

\* encPool.Wait(): the jobs that were never submitted are not waited for.
Wait ==
  /\ result = "none"
  /\ next > Len(Order)
  /\ \A j \in submitted : status[j] \in Pool!Final
  /\ result' = IF \A j \in submitted : status[j] = "ok" THEN "ok" ELSE "err"
  /\ UNCHANGED <<status, stopped, next, submitted, pc, cand, best, files, entries,
                 primed, broken, unread, cancelled>>

Cancel ==
  /\ result = "none"
  /\ ~cancelled
  /\ cancelled' = TRUE
  /\ UNCHANGED <<status, stopped, next, submitted, pc, cand, best, files, entries,
                 primed, broken, unread, result>>
-----------------------------------------------------------------------------
(* The pool.                                                               *)

outside == <<next, submitted, cand, best, files, entries, primed, broken,
             unread, cancelled, result>>

Begin(j) ==
  /\ j \in submitted
  /\ Pool!Start(j)
  /\ pc' = [pc EXCEPT ![j] = "spool"]
  /\ UNCHANGED outside

\* Another job of the digest answers for j.
Share(j) ==
  /\ j \in submitted
  /\ \E u \in submitted \ {j} : Pool!Share(j, u)
  /\ UNCHANGED <<outside, pc>>

\* The pool stops when a job failed or the caller cancelled, and turns away
\* the jobs that have not started.
StopPool ==
  /\ ~stopped
  /\ cancelled \/ \E j \in submitted : status[j] = "err"
  /\ Pool!Stop
  /\ UNCHANGED <<outside, pc>>

TurnAway(j) ==
  /\ j \in submitted
  /\ Pool!Skip(j)
  /\ UNCHANGED <<outside, pc>>

Return(j, r) ==
  /\ Pool!Finish(j)
  /\ status'[j] = r
  /\ pc' = [pc EXCEPT ![j] = "none"]
-----------------------------------------------------------------------------
(* encodeOneShipped.                                                       *)

Goto(j, l) == pc' = [pc EXCEPT ![j] = l] /\ UNCHANGED <<status, stopped>>

\* spoolBlob: a temporary file renamed to the target spool of the digest.
Spool(j) ==
  /\ pc[j] = "spool"
  /\ IF j \in unread \/ cancelled
       THEN Return(j, "err") /\ UNCHANGED files
       ELSE /\ files' = Put(files, Target(DigestOf[j]), Whole)
            /\ Goto(j, "plan")
  /\ UNCHANGED <<next, submitted, cand, best, entries, primed, broken, unread,
                 cancelled, result>>

PlanFaulty(j) ==
  /\ pc[j] = "plan"
  /\ Goto(j, IF Cardinality({k \in submitted : DigestOf[k] = DigestOf[j]}) > 1
                \/ ~IntraLayer \/ Ranked[j] = <<>> \/ cancelled
             THEN "adopt" ELSE "try")
  /\ UNCHANGED outside

\* A layer shipped twice, or with patches off, or with no candidate, travels
\* whole; so it does when the full encode that sets the ceiling fails.
Plan(j) ==
  /\ pc[j] = "plan"
  /\ Goto(j, IF RefCount(DigestOf[j]) > 1 \/ ~IntraLayer \/ Ranked[j] = <<>>
                \/ cancelled
             THEN "adopt" ELSE "try")
  /\ UNCHANGED outside

\* A patch has to be smaller than the full encode, the layer and the best yet.
Beats(j, size) ==
  LET d == DigestOf[j]
  IN  size < FullZstd[d] /\ size < Raw[d] /\ size < best[j].size

\* Another candidate is left after the one j tries.
More(j) == cand[j] < Len(Ranked[j])

\* One turn of the loop of PlanShippedTopK. A patch that loses is removed, and
\* so is the winner before it; an error gives the whole plan up, and the file
\* of the winner before it stays.
Try(j) ==
  LET d    == DigestOf[j]
      b    == Ranked[j][cand[j]]
      file == Candidate(d, b)
      size == PatchSize[<<d, b>>]
  IN  /\ pc[j] = "try"
      /\ IF b \notin primed
           THEN \* readBlobPath fails: the layer falls back to full.
                /\ best' = [best EXCEPT ![j] = WholeTarget(j)]
                /\ UNCHANGED <<files, cand>>
                /\ Goto(j, "adopt")
         ELSE IF <<d, b>> \in broken \/ cancelled
           THEN \* EncodeStream fails, likewise.
                /\ best' = [best EXCEPT ![j] = WholeTarget(j)]
                /\ files' = Without(files, {file})
                /\ UNCHANGED cand
                /\ Goto(j, "adopt")
         ELSE /\ IF Beats(j, size)
                   THEN /\ files' = Without(Put(files, file, Delta(b)),
                                             {best[j].file} \ {Target(d)})
                        /\ best' = [best EXCEPT ![j] =
                             [file |-> file, entry |-> Patch(j, b), size |-> size]]
                   ELSE /\ files' = Without(files, {file})
                        /\ UNCHANGED best
              /\ cand' = [cand EXCEPT ![j] = @ + 1]
              /\ Goto(j, IF More(j) THEN "try" ELSE "adopt")
      /\ UNCHANGED <<next, submitted, entries, primed, broken, unread, cancelled,
                     result>>

AdoptFaulty(j) ==
  LET d == DigestOf[j]
  IN  /\ pc[j] = "adopt"
      /\ files' = Put(Without(files, {Target(d)}), Blob(d), Whole)
      /\ Goto(j, "register")
      /\ UNCHANGED <<next, submitted, cand, best, entries, primed, broken, unread,
                     cancelled, result>>

\* addEntryFromPath up to the lock: a late comer drops its file, anyone else
\* renames it to the blob's name.
Adopt(j) ==
  LET d == DigestOf[j]
      src == best[j].file
  IN  /\ pc[j] = "adopt"
      /\ IF Registered(d)
           THEN files' = Without(files, {src}) /\ Goto(j, "clean")
         ELSE IF src \notin DOMAIN files
           THEN UNCHANGED files /\ Return(j, "err")
         ELSE /\ files' = Put(Without(files, {src}), Blob(d), files[src])
              /\ Goto(j, "register")
      /\ UNCHANGED <<next, submitted, cand, best, entries, primed, broken, unread,
                     cancelled, result>>

\* Under the lock: the first to register the digest wins.
Register(j) ==
  /\ pc[j] = "register"
  /\ entries' = IF Registered(DigestOf[j]) THEN entries
                ELSE Put(entries, DigestOf[j], best[j].entry)
  /\ Goto(j, "clean")
  /\ UNCHANGED <<next, submitted, cand, best, files, primed, broken, unread,
                 cancelled, result>>

\* The target spool is left over when a patch won.
Clean(j) ==
  /\ pc[j] = "clean"
  /\ files' = IF best[j].file = Target(DigestOf[j]) THEN files
              ELSE Without(files, {Target(DigestOf[j])})
  /\ Return(j, "ok")
  /\ UNCHANGED <<next, submitted, cand, best, entries, primed, broken, unread,
                 cancelled, result>>

Job(j) ==
  \/ Begin(j) \/ Share(j) \/ TurnAway(j)
  \/ Spool(j) \/ Plan(j) \/ Try(j) \/ Adopt(j) \/ Register(j) \/ Clean(j)

Next ==
  \/ Submit \/ Wait \/ Cancel \/ StopPool
  \/ \E j \in Jobs : Job(j)

\* The pool runs what it is given, the caller submits and waits, and encodes
\* end; nobody has to cancel.
Fairness ==
  /\ WF_vars(Submit) /\ WF_vars(Wait) /\ WF_vars(StopPool)
  /\ \A j \in Jobs : WF_vars(Job(j))

Spec == Init /\ [][Next]_vars /\ Fairness
-----------------------------------------------------------------------------
(* Properties.                                                             *)

Name == {Target(d) : d \in Digests} \cup {Blob(d) : d \in Digests}
          \cup {Candidate(d, b) : d \in Digests, b \in Baselines}

TypeOK ==
  /\ submitted \subseteq Jobs
  /\ pc \in [Jobs -> Location]
  /\ \A j \in Jobs : pc[j] = "try" => cand[j] \in DOMAIN Ranked[j]
  /\ DOMAIN files \subseteq Name
  /\ Range(files) \subseteq {Whole} \cup {Delta(b) : b \in Baselines}
  /\ DOMAIN entries \subseteq Digests
  /\ \A d \in DOMAIN entries :
       \E j \in Jobs : /\ DigestOf[j] = d
                       /\ entries[d] \in {Full(j)} \cup {Patch(j, b) : b \in Baselines}
  /\ result \in {"none", "ok", "err"}

\* What the sidecar says of a blob is what its file holds: the importer would
\* take a patch for a layer, or patch the wrong one.
EntryMatchesFile ==
  \A d \in DOMAIN entries :
    /\ Blob(d) \in DOMAIN files
    /\ files[Blob(d)] = IF entries[d].encoding = "full" THEN Whole
                        ELSE Delta(entries[d].from)

\* When Wait reports success every shipped layer is in the pool, those that
\* were skipped or shared included.
EverythingShipped ==
  result = "ok" => DOMAIN entries = Digests

\* What the archive is written from: a true entry for every file, and in the end
\* a file for every layer.
PoolComplete == EntryMatchesFile /\ EverythingShipped

\* What the inputs determine: the first of the smallest patches that beat the
\* full encode and the layer, the whole layer where there is none or where the
\* planning of the layer fails.
Contenders(j) ==
  LET d == DigestOf[j]
  IN  {k \in DOMAIN Ranked[j] :
         LET size == PatchSize[<<d, Ranked[j][k]>>]
         IN  size < FullZstd[d] /\ size < Raw[d]}

PlanFails(j) ==
  \E k \in DOMAIN Ranked[j] :
    Ranked[j][k] \notin primed \/ <<DigestOf[j], Ranked[j][k]>> \in broken

Determined(j) ==
  IF RefCount(DigestOf[j]) > 1 \/ ~IntraLayer \/ Contenders(j) = {} \/ PlanFails(j)
    THEN Full(j)
    ELSE LET size(k) == PatchSize[<<DigestOf[j], Ranked[j][k]>>]
             first == CHOOSE k \in Contenders(j) :
                        \A h \in Contenders(j) :
                          size(k) < size(h) \/ (size(k) = size(h) /\ k <= h)
         IN  Patch(j, Ranked[j][first])

\* Two candidates of j are the same layer, and it is the one whose patch wins:
\* the second attempt at it does not beat the first, and the cleanup after a
\* patch that lost removes the file of the patch that won.
SelfDefeating(j) ==
  \E b \in Baselines :
    /\ Determined(j) = Patch(j, b)
    /\ \E h, k \in DOMAIN Ranked[j] : h # k /\ Ranked[j][h] = b /\ Ranked[j][k] = b

\* What ends the export. encodeOneShipped says that only the errors of reading
\* the target layer do, every failure of a patch being turned into a whole layer
\* (encode.go:191-193). A baseline that lists a layer twice is the exception: a
\* job that defeats itself finds its payload gone when it adopts it. These
\* causes, with a cancellation, are the only ones; and an export nobody
\* cancelled that succeeds had, for every layer, a job with neither of them.
OnlyReadErrorsAbort ==
  /\ result = "err" =>
       cancelled \/ \E j \in submitted : j \in unread \/ SelfDefeating(j)
  /\ result = "ok" /\ ~cancelled =>
       \A d \in Digests : \E j \in submitted :
         DigestOf[j] = d /\ j \notin unread /\ ~SelfDefeating(j)

\* How far the archive depends on the schedule. However the jobs are interleaved,
\* a layer is whole or a patch, and from which baseline, as the inputs determine.
\* Its media type is not: where several pairs ship a layer and their manifests
\* call it differently, the entry says what the manifest of whichever job ran
\* first says, though encodeShipped promises the same bytes for every number of
\* workers because fullBlobEntry depends on the layer only (encode.go:46-49).
Deterministic ==
  result = "ok" /\ ~cancelled =>
    \A j \in Jobs :
      LET e == entries[DigestOf[j]]
      IN  /\ e = [Determined(j) EXCEPT !.media = e.media]
          /\ \E k \in submitted : DigestOf[k] = DigestOf[j] /\ e.media = MediaOf[k]

\* The caller comes back from Wait.
EncodeEnds == <>(result # "none")
=============================================================================
