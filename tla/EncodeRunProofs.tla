--------------------------- MODULE EncodeRunProofs ---------------------------
(***************************************************************************)
(* The encode phase of an export, for any set of layers, any candidates    *)
(* and sizes, any failures and any schedule of the pool.                   *)
(*                                                                         *)
(* Jobs meet in the files, whose names are those of digests and candidates. *)
(* The pool never runs two jobs of a digest, so a file that bears the name *)
(* of a digest belongs to one job or to an entry; an entry and the blob it *)
(* names come and go together, and a job whose digest has an entry ends.   *)
(***************************************************************************)
EXTENDS EncodeRun, FiniteSetTheorems, SequenceTheorems, TLAPS

-----------------------------------------------------------------------------
(* The inductive invariant.                                                *)

Dig(j)     == DigestOf[j]
Size(j, k) == PatchSize[<<Dig(j), Ranked[j][k]>>]

\* What the planner keeps of a candidate that beats the others.
CandidateOf(j, k) ==
  [file |-> Candidate(Dig(j), Ranked[j][k]), entry |-> Patch(j, Ranked[j][k]),
   size |-> Size(j, k)]

Content(e) == IF e.encoding = "full" THEN Whole ELSE Delta(e.from)

Shape ==
  /\ status \in [Jobs -> {"idle", "running", "ok", "err", "ctx"}]
  /\ stopped \in BOOLEAN
  /\ next \in 1..(Len(Order) + 1)
  /\ submitted \subseteq Jobs
  /\ pc \in [Jobs -> Location]
  /\ cand \in [Jobs -> Nat \ {0}]
  /\ DOMAIN best = Jobs
  /\ cancelled \in BOOLEAN
  /\ result \in {"none", "ok", "err"}

\* Two jobs of one digest never run together.
Exclusive ==
  \A j, k \in Jobs :
    status[j] = "running" /\ status[k] = "running" /\ Dig(j) = Dig(k) => j = k

\* The name of a file that is no blob tells what it holds.
FilesOK ==
  /\ \A d \in Digests : Target(d) \in DOMAIN files => files[Target(d)] = Whole
  /\ \A d \in Digests, b \in Baselines :
       Candidate(d, b) \in DOMAIN files => files[Candidate(d, b)] = Delta(b)

\* The winner so far is the whole layer or a candidate that was tried.
Winner(j) ==
  \/ best[j] = WholeTarget(j)
  \/ \E k \in DOMAIN Ranked[j] : k < cand[j] /\ best[j] = CandidateOf(j, k)

\* k beats the candidates of C, the earlier ones strictly.
Beating(j, k, C) ==
  \A h \in C : Size(j, k) < Size(j, h) \/ (Size(j, k) = Size(j, h) /\ k <= h)

\* Of the candidates before c, none failed and w is the best.
Leading(j, w, c) ==
  LET C == {k \in Contenders(j) : k < c}
  IN  /\ \A k \in DOMAIN Ranked[j] : k < c =>
           Ranked[j][k] \in primed /\ <<Dig(j), Ranked[j][k]>> \notin broken
      /\ IF C = {} THEN w = WholeTarget(j)
         ELSE \E k \in C : w = CandidateOf(j, k) /\ Beating(j, k, C)

Leads(j) == Leading(j, best[j], cand[j])

\* Among the candidates before c the winner is listed twice. It does not beat
\* itself the second time, and its file goes.
Repeated(j, w, c) ==
  \E h, k \in DOMAIN Ranked[j] :
    h < c /\ k < c /\ h # k /\ Ranked[j][h] = Ranked[j][k] /\ w = CandidateOf(j, h)

PayloadThere(j) == best[j].file \in DOMAIN files <=> ~Repeated(j, best[j], cand[j])

\* What may end the export.
Excused == cancelled \/ \E j \in submitted : j \in unread \/ SelfDefeating(j)

JobOK(j) ==
  /\ pc[j] # "none" <=> status[j] = "running"
  /\ status[j] # "idle" => j \in submitted
  /\ status[j] = "idle" \/ pc[j] \in {"spool", "plan"} =>
       cand[j] = 1 /\ best[j] = WholeTarget(j)
  /\ pc[j] \in {"plan", "try", "adopt"} => Target(Dig(j)) \in DOMAIN files
  /\ Winner(j)
  /\ pc[j] = "try" =>
       /\ cand[j] \in DOMAIN Ranked[j]
       /\ ~(RefCount(Dig(j)) > 1) /\ IntraLayer /\ Leads(j)
  /\ pc[j] \in {"try", "adopt"} => PayloadThere(j)
  /\ pc[j] = "adopt" /\ best[j] # WholeTarget(j) => \A k \in DOMAIN Ranked[j] : k < cand[j]
  /\ pc[j] \in {"plan", "try", "adopt", "register", "clean"} => j \notin unread
  /\ pc[j] = "register" =>
       /\ ~Registered(Dig(j))
       /\ ~cancelled => ~SelfDefeating(j)
       /\ Blob(Dig(j)) \in DOMAIN files
       /\ files[Blob(Dig(j))] = Content(best[j].entry)
  /\ pc[j] \in {"adopt", "register", "clean"} /\ ~cancelled =>
       best[j].entry = Determined(j)
  /\ pc[j] = "clean" \/ status[j] = "ok" => Registered(Dig(j))
  /\ status[j] = "err" => Excused
  /\ status[j] = "ctx" => stopped

\* An entry was made by a job of its digest that had its layer and its payload,
\* and is true of the blob.
MadeBy(j, d) ==
  /\ d = Dig(j) /\ j \notin unread
  /\ cancelled \/ (entries[d] = Determined(j) /\ ~SelfDefeating(j))

EntriesOK ==
  \A d \in DOMAIN entries :
    /\ \E j \in submitted : MadeBy(j, d)
    /\ Blob(d) \in DOMAIN files
    /\ files[Blob(d)] = Content(entries[d])

\* The caller has seen to the jobs before next, and to all when it has returned.
CallerOK ==
  /\ \A k \in DOMAIN Order : k < next =>
       Order[k] \in submitted \/ Registered(Dig(Order[k]))
  /\ result = "ok" => next = Len(Order) + 1 /\ \A j \in submitted : status[j] = "ok"
  /\ result = "err" => Excused

IInv ==
  /\ Shape /\ Exclusive /\ FilesOK /\ EntriesOK /\ CallerOK
  /\ \A j \in Jobs : JobOK(j)
  /\ stopped => Excused
-----------------------------------------------------------------------------
(* The constants.                                                          *)

LEMMA Constants ==
  /\ \A j \in Jobs : Dig(j) \in Digests
  /\ \A j \in Jobs : Len(Ranked[j]) \in Nat /\ DOMAIN Ranked[j] = 1..Len(Ranked[j])
  /\ \A j \in Jobs : \A k \in DOMAIN Ranked[j] :
       Ranked[j][k] \in Baselines /\ Size(j, k) \in Nat
  /\ \A j \in Jobs : Raw[Dig(j)] \in Nat /\ FullZstd[Dig(j)] \in Nat
<1>1. \A j \in Jobs : Dig(j) \in Digests
  BY LayerAssumption DEF Dig, Digests, Range
<1>2. ASSUME NEW j \in Jobs
      PROVE  /\ Len(Ranked[j]) \in Nat /\ DOMAIN Ranked[j] = 1..Len(Ranked[j])
             /\ \A k \in DOMAIN Ranked[j] : Ranked[j][k] \in Baselines
  <2>1. Ranked[j] \in Seq(Baselines)
    BY LayerAssumption DEF Baselines
  <2> QED
    BY <2>1
<1>3. \A d \in Digests : Raw[d] \in Nat /\ FullZstd[d] \in Nat /\ \A b \in Baselines : PatchSize[<<d, b>>] \in Nat
  BY LayerAssumption DEF Digests, Baselines
<1> QED
  BY <1>1, <1>2, <1>3 DEF Size

LEMMA OrderIsJobs ==
  /\ Len(Order) \in Nat /\ DOMAIN Order = 1..Len(Order)
  /\ \A k \in DOMAIN Order : Order[k] \in Jobs
  /\ \A j \in Jobs : \E k \in DOMAIN Order : Order[k] = j
  /\ IsFiniteSet(Jobs)
<1>1. Order \in Seq(Jobs) /\ \A j \in Jobs : \E k \in DOMAIN Order : Order[k] = j
  BY OrderAssumption DEF Range
<1>2. Len(Order) \in Nat /\ DOMAIN Order = 1..Len(Order) /\ \A k \in DOMAIN Order : Order[k] \in Jobs
  BY <1>1
<1>3. IsFiniteSet(Jobs)
  <2>1. Order \in Surjection(1..Len(Order), Jobs)
    BY <1>1, <1>2 DEF Surjection
  <2>2. IsFiniteSet(1..Len(Order))
    BY <1>2, FS_Interval
  <2> QED
    BY <2>1, <2>2, FS_Surjection
<1> QED
  BY <1>1, <1>2, <1>3

\* A layer counted once is shipped by one job.
LEMMA OnlyJob ==
  ASSUME NEW j \in Jobs, NEW k \in Jobs, Dig(j) = Dig(k), ~(RefCount(Dig(j)) > 1)
  PROVE  j = k
<1> DEFINE S == {i \in Jobs : DigestOf[i] = Dig(j)}
<1>1. IsFiniteSet(S) /\ Cardinality(S) \in Nat
  BY OrderIsJobs, FS_Subset, FS_CardinalityType
<1>2. j \in S /\ k \in S
  BY DEF Dig
<1>3. ~(Cardinality(S) > 1)
  BY DEF RefCount
<1> HIDE DEF S
<1>4. Cardinality({j}) = 1 /\ Cardinality(S \ {j}) = Cardinality(S) - 1 /\ IsFiniteSet(S \ {j})
  BY <1>1, <1>2, FS_Singleton, FS_RemoveElement
<1>5. Cardinality(S \ {j}) = 0
  BY <1>1, <1>3, <1>4, FS_CardinalityType
<1>6. S \ {j} = {}
  BY <1>4, <1>5, FS_EmptySet
<1> QED
  BY <1>2, <1>6

\* No two files have the same name.
LEMMA NamesDiffer ==
  /\ \A d, e : Target(d) # Blob(e)
  /\ \A d, e, b : Target(d) # Candidate(e, b) /\ Blob(d) # Candidate(e, b)
  /\ \A d, e : (Target(d) = Target(e) => d = e) /\ (Blob(d) = Blob(e) => d = e)
  /\ \A d, e, b, c : Candidate(d, b) = Candidate(e, c) => d = e /\ b = c
<1>1. \A d, e : Target(d) # Blob(e)
  <2>1. \A d, e : Target(d)[1] = "target" /\ Blob(e)[1] = "blob"
    BY DEF Target, Blob
  <2> QED
    BY <2>1
<1>2. \A d, e, b : Target(d) # Candidate(e, b) /\ Blob(d) # Candidate(e, b)
  <2>1. \A d, e, b : Target(d)[1] = "target" /\ Blob(d)[1] = "blob" /\ Candidate(e, b)[1] = "cand"
    BY DEF Target, Blob, Candidate
  <2> QED
    BY <2>1
<1>3. \A d, e : (Target(d) = Target(e) => d = e) /\ (Blob(d) = Blob(e) => d = e)
  BY DEF Target, Blob
<1>4. \A d, e, b, c : Candidate(d, b) = Candidate(e, c) => d = e /\ b = c
  BY DEF Candidate
<1> QED
  BY <1>1, <1>2, <1>3, <1>4
-----------------------------------------------------------------------------
(* What a step leaves as it was.                                           *)

\* The files of a layer that other jobs rely on.
BlobKept(d) ==
  Blob(d) \in DOMAIN files => Blob(d) \in DOMAIN files' /\ files'[Blob(d)] = files[Blob(d)]

FilesKept(d) ==
  /\ Target(d) \in DOMAIN files => Target(d) \in DOMAIN files'
  /\ \A b \in Baselines : Candidate(d, b) \in DOMAIN files <=> Candidate(d, b) \in DOMAIN files'
  /\ BlobKept(d)

LEMMA DeterminedStays ==
  ASSUME NEW j \in Jobs, UNCHANGED <<primed, broken>>
  PROVE  Determined(j)' = Determined(j) /\ (SelfDefeating(j)' <=> SelfDefeating(j))
<1>1. Determined(j)' = Determined(j)
  BY DEF Determined, PlanFails
<1> QED
  BY <1>1 DEF SelfDefeating

LEMMA ExcusedStays ==
  ASSUME Shape, Excused, UNCHANGED <<primed, broken, unread>>, cancelled => cancelled',
         submitted \subseteq submitted'
  PROVE  Excused'
<1>1. CASE cancelled
  BY <1>1 DEF Excused
<1>2. CASE ~cancelled
  <2>1. PICK j \in submitted : j \in unread \/ SelfDefeating(j)
    BY <1>2 DEF Excused
  <2>2. j \in Jobs /\ j \in submitted'
    BY DEF Shape
  <2>3. SelfDefeating(j)' <=> SelfDefeating(j)
    BY <2>2, DeterminedStays
  <2> QED
    BY <2>1, <2>2, <2>3 DEF Excused
<1> QED
  BY <1>1, <1>2

LEMMA WinnerFile ==
  ASSUME NEW j \in Jobs, Winner(j)
  PROVE  \/ best[j] = WholeTarget(j) /\ best[j].file = Target(Dig(j)) /\ best[j].entry = Full(j)
            /\ Content(best[j].entry) = Whole
         \/ \E k \in DOMAIN Ranked[j] :
              /\ k < cand[j] /\ best[j] = CandidateOf(j, k)
              /\ best[j].file = Candidate(Dig(j), Ranked[j][k]) /\ Ranked[j][k] \in Baselines
              /\ Content(best[j].entry) = Delta(Ranked[j][k])
BY Constants DEF Winner, WholeTarget, CandidateOf, Full, Patch, Content, Dig

\* The layer itself is no candidate listed twice.
LEMMA WholeThere ==
  ASSUME NEW j \in Jobs, best[j] = WholeTarget(j), Target(Dig(j)) \in DOMAIN files
  PROVE  PayloadThere(j)
<1>1. best[j].file = Target(Dig(j))
  BY DEF WholeTarget, Dig
<1>2. \A h : best[j] # CandidateOf(j, h)
  BY <1>1, NamesDiffer DEF CandidateOf
<1> QED
  BY <1>1, <1>2 DEF PayloadThere, Repeated

\* A job another job's step is not about.
LEMMA OtherJob ==
  ASSUME IInv, NEW k \in Jobs,
         UNCHANGED <<status[k], pc[k], cand[k], best[k], primed, broken, unread>>,
         cancelled => cancelled', stopped => stopped', submitted \subseteq submitted',
         DOMAIN entries \subseteq DOMAIN entries',
         pc[k] # "none" => FilesKept(Dig(k)) /\ (Registered(Dig(k))' => Registered(Dig(k)))
  PROVE  JobOK(k)'
<1>1. JobOK(k)
  BY DEF IInv
<1>2. /\ Winner(k)' <=> Winner(k)
      /\ Leads(k)' <=> Leads(k)
      /\ Determined(k)' = Determined(k) /\ (SelfDefeating(k)' <=> SelfDefeating(k))
      /\ Repeated(k, best[k], cand[k])' <=> Repeated(k, best[k], cand[k])
      /\ Excused => Excused'
  BY DeterminedStays, ExcusedStays DEF Winner, Leads, Leading, Repeated, IInv
<1>3. Registered(Dig(k)) => Registered(Dig(k))'
  BY DEF Registered, Dig
<1>4. pc[k] \in {"plan", "try", "adopt"} =>
        (best[k].file \in DOMAIN files <=> best[k].file \in DOMAIN files')
  BY <1>1, WinnerFile DEF JobOK, FilesKept, BlobKept
<1>5. pc[k] \in {"plan", "try", "adopt"} => Target(Dig(k)) \in DOMAIN files'
  BY <1>1 DEF JobOK, FilesKept, BlobKept
<1>6. pc[k] = "register" => /\ ~Registered(Dig(k))'
                            /\ Blob(Dig(k)) \in DOMAIN files'
                            /\ files'[Blob(Dig(k))] = Content(best[k].entry)
  BY <1>1 DEF JobOK, FilesKept, BlobKept
<1>7. pc[k] \in {"try", "adopt"} => PayloadThere(k)'
  BY <1>1, <1>2, <1>4 DEF JobOK, PayloadThere
<1> QED
  BY <1>1, <1>2, <1>3, <1>5, <1>6, <1>7 DEF JobOK

LEMMA EntriesStay ==
  ASSUME Shape, EntriesOK, UNCHANGED <<entries, primed, broken, unread>>,
         cancelled => cancelled', submitted \subseteq submitted',
         \A d \in DOMAIN entries : BlobKept(d)
  PROVE  EntriesOK'
<1>1. ASSUME NEW j \in submitted, NEW d \in DOMAIN entries, MadeBy(j, d)
      PROVE  j \in submitted' /\ MadeBy(j, d)'
  <2>1. j \in Jobs
    BY DEF Shape
  <2> QED
    BY <1>1, <2>1, DeterminedStays DEF MadeBy, Dig
<1>2. \A d \in DOMAIN entries : \E j \in submitted' : MadeBy(j, d)'
  BY <1>1 DEF EntriesOK
<1>3. \A d \in DOMAIN entries :
        Blob(d) \in DOMAIN files' /\ files'[Blob(d)] = Content(entries[d])
  BY DEF EntriesOK, BlobKept
<1> QED
  BY <1>2, <1>3 DEF EntriesOK

LEMMA EntryDigests ==
  ASSUME Shape, EntriesOK
  PROVE  DOMAIN entries \subseteq Digests
BY Constants DEF Shape, EntriesOK, MadeBy

\* A step of a running job about its own layer's files.
LEMMA JobStep ==
  ASSUME IInv, NEW j \in Jobs, pc[j] # "none",
         UNCHANGED <<next, submitted, primed, broken, unread, cancelled, result, stopped>>,
         \A k \in Jobs \ {j} : UNCHANGED <<status[k], pc[k], cand[k], best[k]>>,
         Shape', FilesOK', EntriesOK', JobOK(j)',
         DOMAIN entries \subseteq DOMAIN entries',
         \A d \in Digests \ {Dig(j)} : FilesKept(d) /\ (Registered(d)' => Registered(d))
  PROVE  IInv'
<1>1. Shape /\ Exclusive /\ CallerOK /\ \A k \in Jobs : JobOK(k)
  BY DEF IInv
<1>2. status[j] = "running" /\ j \in submitted
  BY <1>1 DEF JobOK
<1>3. \A k \in Jobs : k # j /\ pc[k] # "none" => Dig(k) \in Digests \ {Dig(j)}
  BY <1>1, <1>2, Constants DEF Exclusive, JobOK
<1>4. \A k \in Jobs : JobOK(k)'
  <2> TAKE k \in Jobs
  <2>1. CASE k = j
    BY <2>1
  <2>2. CASE k # j
    BY <1>3, <2>2, OtherJob
  <2> QED
    BY <2>1, <2>2
<1>5. Exclusive'
  <2>1. \A k \in Jobs : status'[k] = "running" => status[k] = "running"
    BY <1>2
  <2> QED
    BY <1>1, <2>1 DEF Exclusive, Dig
<1>6. CallerOK'
  <2>1. result # "ok"
    BY <1>1, <1>2 DEF CallerOK
  <2> QED
    BY <1>1, <2>1, ExcusedStays DEF CallerOK, Registered
<1> QED
  BY <1>1, <1>4, <1>5, <1>6, ExcusedStays DEF IInv
-----------------------------------------------------------------------------
(* The steps.                                                              *)

LEMMA InitIInv == Init => IInv
<1> SUFFICES ASSUME Init PROVE IInv
  OBVIOUS
<1>1. Shape
  <2>1. next \in 1..(Len(Order) + 1)
    BY OrderIsJobs DEF Init
  <2>2. status \in [Jobs -> {"idle", "running", "ok", "err", "ctx"}] /\ stopped \in BOOLEAN
    BY DEF Init, Pool!Init
  <2>3. cand \in [Jobs -> Nat \ {0}] /\ DOMAIN best = Jobs /\ pc \in [Jobs -> Location]
    BY DEF Init, Location
  <2> QED
    BY <2>1, <2>2, <2>3 DEF Init, Shape
<1>2. Exclusive /\ FilesOK /\ EntriesOK
  BY DEF Init, Exclusive, FilesOK, EntriesOK, Pool!Init
<1>3. CallerOK
  BY OrderIsJobs DEF Init, CallerOK
<1>4. \A j \in Jobs : JobOK(j)
  BY DEF Init, JobOK, Pool!Init, Winner
<1> QED
  BY <1>1, <1>2, <1>3, <1>4 DEF IInv, Init, Pool!Init

\* A running job of a digest that is not registered, and where it is.
LEMMA Running ==
  ASSUME IInv, NEW j \in Jobs, pc[j] # "none"
  PROVE  /\ Shape /\ FilesOK /\ EntriesOK /\ JobOK(j) /\ status[j] = "running"
         /\ Dig(j) \in Digests /\ Winner(j) /\ j \in submitted
BY Constants DEF IInv, JobOK

LEMMA StepSpool == ASSUME IInv, NEW j \in Jobs, Spool(j) PROVE IInv'
<1>1. /\ Shape /\ FilesOK /\ EntriesOK /\ JobOK(j) /\ status[j] = "running"
      /\ Dig(j) \in Digests /\ pc[j] = "spool"
  BY Running DEF Spool
<1>2. UNCHANGED <<next, submitted, primed, broken, unread, cancelled, result, stopped, cand, best, entries>>
  BY DEF Spool, Return, Pool!Finish, Goto
<1>3. UNCHANGED <<Winner(j), Determined(j)>>
  BY <1>2, DeterminedStays DEF Winner
<1>4. CASE j \in unread \/ cancelled
  <2>1. /\ pc' = [pc EXCEPT ![j] = "none"] /\ status' = [status EXCEPT ![j] = "err"]
        /\ UNCHANGED files
    BY <1>1, <1>4 DEF Spool, Return, Pool!Finish, Shape
  <2>2. Shape'
    BY <1>1, <1>2, <2>1 DEF Shape, Location
  <2>3. JobOK(j)'
    <3>1. pc'[j] = "none" /\ status'[j] = "err"
      BY <1>1, <2>1 DEF Shape
    <3>2. j \in submitted
      BY <1>1 DEF JobOK
    <3>3. Excused
      BY <1>4, <3>2 DEF Excused
    <3>4. Excused'
      BY <1>1, <1>2, <3>3, ExcusedStays
    <3> QED
      BY <1>1, <1>2, <1>3, <3>1, <3>4 DEF JobOK, Winner
  <2>4. \A d \in Digests : FilesKept(d)
    BY <2>1 DEF FilesKept, BlobKept
  <2>5. FilesOK' /\ EntriesOK'
    BY <1>1, <1>2, <2>1, <2>4, EntriesStay, EntryDigests DEF FilesOK, FilesKept
  <2>6. \A k \in Jobs \ {j} : UNCHANGED <<status[k], pc[k], cand[k], best[k]>>
    BY <1>1, <1>2, <2>1 DEF Shape
  <2> QED
    BY <1>1, <1>2, <2>2, <2>3, <2>4, <2>5, <2>6, JobStep DEF Registered
<1>5. CASE ~(j \in unread \/ cancelled)
  <2>1. /\ pc' = [pc EXCEPT ![j] = "plan"] /\ UNCHANGED status
        /\ files' = Put(files, Target(Dig(j)), Whole)
    BY <1>1, <1>5 DEF Spool, Goto, Dig
  <2>2. /\ DOMAIN files' = {Target(Dig(j))} \cup DOMAIN files
        /\ files'[Target(Dig(j))] = Whole
        /\ \A m \in DOMAIN files : m # Target(Dig(j)) => files'[m] = files[m]
    BY <2>1 DEF Put
  <2>3. Shape'
    BY <1>1, <1>2, <2>1 DEF Shape, Location
  <2>4. JobOK(j)'
    <3>1. pc'[j] = "plan" /\ status'[j] = "running" /\ Target(Dig(j)) \in DOMAIN files'
      BY <1>1, <2>1, <2>2 DEF Shape
    <3> QED
      BY <1>1, <1>2, <1>3, <1>5, <3>1 DEF JobOK, Winner, Dig
  <2>5. \A d \in Digests : FilesKept(d)
    BY <2>2, NamesDiffer DEF FilesKept, BlobKept
  <2>6. FilesOK'
    BY <1>1, <2>2, NamesDiffer DEF FilesOK
  <2>7. EntriesOK'
    BY <1>1, <1>2, <2>5, EntriesStay, EntryDigests DEF FilesKept
  <2>8. \A k \in Jobs \ {j} : UNCHANGED <<status[k], pc[k], cand[k], best[k]>>
    BY <1>1, <1>2, <2>1 DEF Shape
  <2> QED
    BY <1>1, <1>2, <2>3, <2>4, <2>5, <2>6, <2>7, <2>8, JobStep DEF Registered
<1> QED
  BY <1>4, <1>5

LEMMA StepPlan == ASSUME IInv, NEW j \in Jobs, Plan(j) PROVE IInv'
<1>1. /\ Shape /\ FilesOK /\ EntriesOK /\ JobOK(j) /\ status[j] = "running"
      /\ Dig(j) \in Digests /\ pc[j] = "plan"
  BY Running DEF Plan
<1>2. /\ UNCHANGED <<next, submitted, primed, broken, unread, cancelled, result, stopped, cand, best>>
      /\ UNCHANGED <<entries, status, files>>
  BY DEF Plan, outside, Goto
<1>3. /\ Winner(j)' <=> Winner(j)
      /\ Determined(j)' = Determined(j)
      /\ Leads(j)' <=> Leads(j)
  BY <1>2, DeterminedStays DEF Winner, Leads, Leading
<1>4. cand[j] = 1 /\ best[j] = WholeTarget(j) /\ best[j].file = Target(Dig(j)) /\ best[j].entry = Full(j)
  BY <1>1 DEF JobOK, WholeTarget, Dig
<1>5. /\ \A d \in Digests : FilesKept(d)
      /\ PayloadThere(j)' /\ best'[j] = WholeTarget(j)
  <2>1. PayloadThere(j)
    BY <1>1, <1>4, WholeThere DEF JobOK
  <2> QED
    BY <1>2, <1>4, <2>1 DEF FilesKept, BlobKept, PayloadThere, Repeated
<1>6. FilesOK' /\ EntriesOK'
  BY <1>1, <1>2, <1>5, EntriesStay, EntryDigests DEF FilesOK, FilesKept
<1>7. CASE RefCount(Dig(j)) > 1 \/ ~IntraLayer \/ Ranked[j] = <<>> \/ cancelled
  <2>1. pc' = [pc EXCEPT ![j] = "adopt"]
    BY <1>7 DEF Plan, Goto, Dig
  <2>2. Ranked[j] = <<>> => Contenders(j) = {}
    BY DEF Contenders
  <2>3. ~cancelled => Determined(j) = Full(j)
    BY <1>7, <2>2 DEF Determined, Dig
  <2>4. Shape'
    BY <1>1, <1>2, <2>1 DEF Shape, Location
  <2>5. JobOK(j)'
    <3>1. pc'[j] = "adopt" /\ status'[j] = "running"
      BY <1>1, <1>2, <2>1 DEF Shape
    <3> QED
      BY <1>1, <1>2, <1>3, <1>4, <1>5, <2>3, <3>1 DEF JobOK
  <2>6. \A k \in Jobs \ {j} : UNCHANGED <<status[k], pc[k], cand[k], best[k]>>
    BY <1>1, <1>2, <2>1 DEF Shape
  <2> QED
    BY <1>1, <1>2, <1>5, <1>6, <2>4, <2>5, <2>6, JobStep DEF Registered
<1>8. CASE ~(RefCount(Dig(j)) > 1 \/ ~IntraLayer \/ Ranked[j] = <<>> \/ cancelled)
  <2>1. pc' = [pc EXCEPT ![j] = "try"]
    BY <1>8 DEF Plan, Goto, Dig
  <2>2. cand[j] \in DOMAIN Ranked[j]
    <3>1. Ranked[j] \in Seq(Baselines)
      BY LayerAssumption DEF Baselines
    <3> QED
      BY <1>4, <1>8, <3>1
  <2>3. Leads(j)
    <3>1. \A k \in DOMAIN Ranked[j] : ~(k < cand[j])
      BY <1>4, Constants
    <3>2. {k \in Contenders(j) : k < cand[j]} = {}
      BY <3>1 DEF Contenders
    <3> QED
      BY <1>4, <3>1, <3>2 DEF Leads, Leading
  <2>4. Shape'
    BY <1>1, <1>2, <2>1 DEF Shape, Location
  <2>5. JobOK(j)'
    <3>1. pc'[j] = "try" /\ status'[j] = "running"
      BY <1>1, <1>2, <2>1 DEF Shape
    <3> QED
      BY <1>1, <1>2, <1>3, <1>4, <1>5, <1>8, <2>2, <2>3, <3>1 DEF JobOK
  <2>6. \A k \in Jobs \ {j} : UNCHANGED <<status[k], pc[k], cand[k], best[k]>>
    BY <1>1, <1>2, <2>1 DEF Shape
  <2> QED
    BY <1>1, <1>2, <1>5, <1>6, <2>4, <2>5, <2>6, JobStep DEF Registered
<1> QED
  BY <1>7, <1>8

LEMMA StepRegister == ASSUME IInv, NEW j \in Jobs, Register(j) PROVE IInv'
<1>1. /\ Shape /\ FilesOK /\ EntriesOK /\ JobOK(j) /\ status[j] = "running"
      /\ Dig(j) \in Digests /\ pc[j] = "register"
  BY Running DEF Register
<1>2. /\ UNCHANGED <<next, submitted, primed, broken, unread, cancelled, result, stopped, cand, best>>
      /\ UNCHANGED <<status, files>>
      /\ pc' = [pc EXCEPT ![j] = "clean"]
  BY DEF Register, Goto
<1>3. UNCHANGED <<Winner(j), Determined(j)>>
  BY <1>2, DeterminedStays DEF Winner
<1>4. /\ DOMAIN entries' = {Dig(j)} \cup DOMAIN entries
      /\ entries'[Dig(j)] = best[j].entry
      /\ \A d \in DOMAIN entries : d # Dig(j) => entries'[d] = entries[d]
  BY <1>1 DEF Register, JobOK, Registered, Put, Dig
<1>5. \A d \in Digests : FilesKept(d)
  BY <1>2 DEF FilesKept, BlobKept
<1>6. FilesOK'
  BY <1>1, <1>2 DEF FilesOK
<1>7. EntriesOK'
  <2>1. /\ Blob(Dig(j)) \in DOMAIN files /\ files[Blob(Dig(j))] = Content(best[j].entry)
        /\ ~cancelled => best[j].entry = Determined(j) /\ ~SelfDefeating(j)
        /\ j \in submitted /\ j \notin unread
    BY <1>1 DEF JobOK
  <2>2. \A k \in Jobs : Determined(k)' = Determined(k) /\ (SelfDefeating(k)' <=> SelfDefeating(k))
    BY <1>2, DeterminedStays
  <2>3. ASSUME NEW d \in DOMAIN entries'
        PROVE  /\ \E k \in submitted : MadeBy(k, d)'
               /\ Blob(d) \in DOMAIN files /\ files[Blob(d)] = Content(entries'[d])
    <3>1. CASE d = Dig(j)
      <4>1. MadeBy(j, d)'
        BY <1>2, <1>4, <2>1, <2>2, <3>1 DEF MadeBy, Dig
      <4> QED
        BY <1>4, <2>1, <3>1, <4>1
    <3>2. CASE d # Dig(j)
      <4>1. PICK k \in submitted : MadeBy(k, d)
        BY <1>1, <1>4, <3>2 DEF EntriesOK
      <4>2. k \in Jobs
        BY <1>1 DEF Shape
      <4>3. MadeBy(k, d)'
        BY <1>2, <1>4, <2>2, <3>2, <4>1, <4>2 DEF MadeBy, Dig
      <4> QED
        BY <1>1, <1>4, <3>2, <4>3 DEF EntriesOK
    <3> QED
      BY <3>1, <3>2
  <2> QED
    BY <1>2, <2>3 DEF EntriesOK
<1>8. Shape'
  BY <1>1, <1>2 DEF Shape, Location
<1>9. JobOK(j)'
  <2>1. pc'[j] = "clean" /\ status'[j] = "running" /\ Registered(Dig(j))'
    BY <1>1, <1>2, <1>4 DEF Shape, Registered, Dig
  <2> QED
    BY <1>1, <1>2, <1>3, <2>1 DEF JobOK, Winner
<1>10. \A k \in Jobs \ {j} : UNCHANGED <<status[k], pc[k], cand[k], best[k]>>
  BY <1>1, <1>2 DEF Shape
<1>11. \A d \in Digests \ {Dig(j)} : Registered(d)' => Registered(d)
  BY <1>4 DEF Registered
<1> QED
  BY <1>1, <1>2, <1>4, <1>5, <1>6, <1>7, <1>8, <1>9, <1>10, <1>11, JobStep

LEMMA StepClean == ASSUME IInv, NEW j \in Jobs, Clean(j) PROVE IInv'
<1>1. /\ Shape /\ FilesOK /\ EntriesOK /\ JobOK(j) /\ status[j] = "running"
      /\ Dig(j) \in Digests /\ pc[j] = "clean"
  BY Running DEF Clean
<1>2. /\ UNCHANGED <<next, submitted, primed, broken, unread, cancelled, result, stopped, cand, best>>
      /\ UNCHANGED <<entries>>
      /\ pc' = [pc EXCEPT ![j] = "none"] /\ status' = [status EXCEPT ![j] = "ok"]
  BY <1>1 DEF Clean, Return, Pool!Finish, Shape
<1>3. UNCHANGED <<Winner(j), Determined(j)>>
  BY <1>2, DeterminedStays DEF Winner
<1>4. PICK ns \in {{}, {Target(Dig(j))}} :
        DOMAIN files' = DOMAIN files \ ns /\ \A n \in DOMAIN files \ ns : files'[n] = files[n]
  <2>1. CASE files' = files
    BY <2>1
  <2>2. CASE files' = Without(files, {Target(Dig(j))})
    BY <2>2 DEF Without, Restrict
  <2> QED
    BY <2>1, <2>2 DEF Clean, Dig
<1>5. \A d \in Digests \ {Dig(j)} : FilesKept(d)
  BY <1>1, <1>4, NamesDiffer DEF FilesKept, BlobKept
<1>6. FilesOK' /\ \A d \in Digests : BlobKept(d)
  BY <1>1, <1>4, NamesDiffer DEF FilesOK, BlobKept
<1>7. EntriesOK'
  BY <1>1, <1>2, <1>6, EntriesStay, EntryDigests
<1>8. Shape'
  BY <1>1, <1>2 DEF Shape, Location
<1>9. JobOK(j)'
  <2>1. pc'[j] = "none" /\ status'[j] = "ok" /\ Registered(Dig(j))'
    BY <1>1, <1>2 DEF Shape, Registered, Dig, JobOK
  <2> QED
    BY <1>1, <1>2, <1>3, <2>1 DEF JobOK, Winner
<1>10. \A k \in Jobs \ {j} : UNCHANGED <<status[k], pc[k], cand[k], best[k]>>
  BY <1>1, <1>2 DEF Shape
<1> QED
  BY <1>1, <1>2, <1>5, <1>6, <1>7, <1>8, <1>9, <1>10, JobStep DEF Registered

\* What the winner's file holds.
LEMMA WinnerContent ==
  ASSUME FilesOK, NEW j \in Jobs, Winner(j), best[j].file \in DOMAIN files
  PROVE  files[best[j].file] = Content(best[j].entry)
BY WinnerFile, Constants DEF FilesOK

\* A payload that is gone is the winner of a job that defeats itself ...
LEMMA Defeated ==
  ASSUME NEW j \in Jobs, JobOK(j), pc[j] = "adopt", best[j].file \notin DOMAIN files, j \in submitted
  PROVE  Excused
<1> SUFFICES ASSUME ~cancelled PROVE SelfDefeating(j)
  BY DEF Excused
<1>1. Repeated(j, best[j], cand[j]) /\ best[j].entry = Determined(j)
  BY DEF JobOK, PayloadThere
<1>2. PICK h, k \in DOMAIN Ranked[j] :
        h # k /\ Ranked[j][h] = Ranked[j][k] /\ best[j] = CandidateOf(j, h)
  BY <1>1 DEF Repeated
<1>3. Determined(j) = Patch(j, Ranked[j][h]) /\ Ranked[j][h] \in Baselines
  BY <1>1, <1>2, Constants DEF CandidateOf
<1> QED
  BY <1>2, <1>3 DEF SelfDefeating

\* ... and one that is there is not.
LEMMA NotDefeated ==
  ASSUME NEW j \in Jobs, JobOK(j), pc[j] = "adopt", best[j].file \in DOMAIN files, ~cancelled
  PROVE  ~SelfDefeating(j)
<1> SUFFICES ASSUME SelfDefeating(j) PROVE FALSE
  OBVIOUS
<1>1. PICK b \in Baselines : /\ Determined(j) = Patch(j, b)
                             /\ \E h, k \in DOMAIN Ranked[j] :
                                  h # k /\ Ranked[j][h] = b /\ Ranked[j][k] = b
  BY DEF SelfDefeating
<1>2. best[j].entry = Patch(j, b) /\ best[j].entry.encoding = "patch"
  BY <1>1 DEF JobOK, Patch
<1>3. best[j] # WholeTarget(j)
  BY <1>2 DEF WholeTarget, Full
<1>4. PICK i \in DOMAIN Ranked[j] : best[j] = CandidateOf(j, i)
  BY <1>3 DEF JobOK, Winner
<1>5. Ranked[j][i] = b
  <2>1. Patch(j, Ranked[j][i]) = Patch(j, b)
    BY <1>2, <1>4 DEF CandidateOf
  <2> QED
    BY <2>1 DEF Patch
<1>6. PICK k \in DOMAIN Ranked[j] : k # i /\ Ranked[j][k] = b
  BY <1>1
<1>7. \A h \in DOMAIN Ranked[j] : h < cand[j]
  BY <1>3 DEF JobOK
<1>8. Repeated(j, best[j], cand[j])
  BY <1>4, <1>5, <1>6, <1>7 DEF Repeated
<1> QED
  BY <1>8 DEF JobOK, PayloadThere

LEMMA StepAdopt == ASSUME IInv, NEW j \in Jobs, Adopt(j) PROVE IInv'
<1>1. /\ Shape /\ FilesOK /\ EntriesOK /\ JobOK(j) /\ status[j] = "running"
      /\ Dig(j) \in Digests /\ pc[j] = "adopt" /\ Winner(j)
  BY Running DEF Adopt
<1>2. UNCHANGED <<next, submitted, primed, broken, unread, cancelled, result, stopped, cand, best, entries>>
  BY DEF Adopt, Return, Pool!Finish, Goto
<1>3. UNCHANGED <<Winner(j), Determined(j)>>
  BY <1>2, DeterminedStays DEF Winner
<1>4. PICK src : src = best[j].file /\ (src = Target(Dig(j)) \/ \E b \in Baselines : src = Candidate(Dig(j), b))
  BY <1>1, WinnerFile
<1>5. CASE Registered(Dig(j))
  <2>1. pc' = [pc EXCEPT ![j] = "clean"] /\ UNCHANGED status /\ files' = Without(files, {src})
    BY <1>4, <1>5 DEF Adopt, Goto, Dig
  <2>2. DOMAIN files' = DOMAIN files \ {src} /\ \A n \in DOMAIN files \ {src} : files'[n] = files[n]
    BY <2>1 DEF Without, Restrict
  <2>3. \A d \in Digests \ {Dig(j)} : FilesKept(d)
    BY <1>1, <1>4, <2>2, NamesDiffer DEF FilesKept, BlobKept
  <2>4. FilesOK' /\ \A d \in Digests : BlobKept(d)
    BY <1>1, <1>4, <2>2, NamesDiffer DEF FilesOK, BlobKept
  <2>5. EntriesOK'
    BY <1>1, <1>2, <2>4, EntriesStay, EntryDigests
  <2>6. Shape'
    BY <1>1, <1>2, <2>1 DEF Shape, Location
  <2>7. JobOK(j)'
    <3>1. pc'[j] = "clean" /\ status'[j] = "running" /\ Registered(Dig(j))'
      BY <1>1, <1>2, <1>5, <2>1 DEF Shape, Registered, Dig
    <3> QED
      BY <1>1, <1>2, <1>3, <3>1 DEF JobOK, Winner
  <2>8. \A k \in Jobs \ {j} : UNCHANGED <<status[k], pc[k], cand[k], best[k]>>
    BY <1>1, <1>2, <2>1 DEF Shape
  <2> QED
    BY <1>1, <1>2, <2>3, <2>4, <2>5, <2>6, <2>7, <2>8, JobStep DEF Registered
<1>6. CASE ~Registered(Dig(j)) /\ src \notin DOMAIN files
  <2>1. /\ pc' = [pc EXCEPT ![j] = "none"] /\ status' = [status EXCEPT ![j] = "err"]
        /\ UNCHANGED files
    BY <1>1, <1>4, <1>6 DEF Adopt, Return, Pool!Finish, Shape, Dig
  <2>2. Excused'
    <3>1. Excused
      BY <1>1, <1>4, <1>6, Defeated DEF JobOK, PayloadThere
    <3> QED
      BY <1>1, <1>2, <3>1, ExcusedStays
  <2>3. Shape'
    BY <1>1, <1>2, <2>1 DEF Shape, Location
  <2>4. JobOK(j)'
    <3>1. pc'[j] = "none" /\ status'[j] = "err"
      BY <1>1, <2>1 DEF Shape
    <3> QED
      BY <1>1, <1>2, <1>3, <2>2, <3>1 DEF JobOK, Winner
  <2>5. \A d \in Digests : FilesKept(d)
    BY <2>1 DEF FilesKept, BlobKept
  <2>6. FilesOK' /\ EntriesOK'
    BY <1>1, <1>2, <2>1, <2>5, EntriesStay, EntryDigests DEF FilesOK, FilesKept
  <2>7. \A k \in Jobs \ {j} : UNCHANGED <<status[k], pc[k], cand[k], best[k]>>
    BY <1>1, <1>2, <2>1 DEF Shape
  <2> QED
    BY <1>1, <1>2, <2>3, <2>4, <2>5, <2>6, <2>7, JobStep DEF Registered
<1>7. CASE ~Registered(Dig(j)) /\ src \in DOMAIN files
  <2>1. /\ pc' = [pc EXCEPT ![j] = "register"] /\ UNCHANGED status
        /\ files' = Put(Without(files, {src}), Blob(Dig(j)), files[src])
    BY <1>4, <1>7 DEF Adopt, Goto, Dig
  <2>2. /\ DOMAIN files' = (DOMAIN files \ {src}) \cup {Blob(Dig(j))}
        /\ files'[Blob(Dig(j))] = files[src]
        /\ \A n \in DOMAIN files \ {src} : n # Blob(Dig(j)) => files'[n] = files[n]
    BY <2>1 DEF Without, Restrict, Put
  <2>3. \A d \in Digests \ {Dig(j)} : FilesKept(d)
    BY <1>1, <1>4, <2>2, NamesDiffer DEF FilesKept, BlobKept
  <2>4. FilesOK'
    BY <1>1, <1>4, <2>2, NamesDiffer DEF FilesOK
  <2>5. EntriesOK'
    <3>1. \A d \in DOMAIN entries : d \in Digests \ {Dig(j)}
      BY <1>1, <1>7, EntryDigests DEF Registered, Dig
    <3> QED
      BY <1>1, <1>2, <2>3, <3>1, EntriesStay, EntryDigests DEF FilesKept
  <2>6. Shape'
    BY <1>1, <1>2, <2>1 DEF Shape, Location
  <2>7. JobOK(j)'
    <3>1. /\ pc'[j] = "register" /\ status'[j] = "running" /\ ~Registered(Dig(j))'
          /\ Blob(Dig(j)) \in DOMAIN files'
      BY <1>1, <1>2, <1>7, <2>1, <2>2 DEF Shape, Registered, Dig
    <3>2. files'[Blob(Dig(j))] = Content(best[j].entry)
      BY <1>1, <1>4, <1>7, <2>2, WinnerContent
    <3>3. ~cancelled => ~SelfDefeating(j)
      BY <1>1, <1>4, <1>7, NotDefeated
    <3> QED
      BY <1>1, <1>2, <1>3, <3>1, <3>2, <3>3, DeterminedStays DEF JobOK, Winner
  <2>8. \A k \in Jobs \ {j} : UNCHANGED <<status[k], pc[k], cand[k], best[k]>>
    BY <1>1, <1>2, <2>1 DEF Shape
  <2> QED
    BY <1>1, <1>2, <2>3, <2>4, <2>5, <2>6, <2>7, <2>8, JobStep DEF Registered
<1> QED
  BY <1>5, <1>6, <1>7

\* One more candidate is compared.
LEMMA Compared ==
  ASSUME NEW j \in Jobs, NEW w, NEW c \in DOMAIN Ranked[j], Leading(j, w, c),
         Ranked[j][c] \in primed, <<Dig(j), Ranked[j][c]>> \notin broken
  PROVE  IF Size(j, c) < FullZstd[Dig(j)] /\ Size(j, c) < Raw[Dig(j)] /\ Size(j, c) < w.size
           THEN Leading(j, CandidateOf(j, c), c + 1)
           ELSE Leading(j, w, c + 1)
<1> DEFINE C == {k \in Contenders(j) : k < c}
           D == {k \in Contenders(j) : k < c + 1}
<1>1. /\ DOMAIN Ranked[j] \subseteq Nat /\ Contenders(j) \subseteq DOMAIN Ranked[j]
      /\ \A k \in DOMAIN Ranked[j] : Size(j, k) \in Nat
      /\ Raw[Dig(j)] \in Nat /\ FullZstd[Dig(j)] \in Nat
  BY Constants DEF Contenders
<1>2. \A k \in DOMAIN Ranked[j] :
        k \in Contenders(j) <=> Size(j, k) < FullZstd[Dig(j)] /\ Size(j, k) < Raw[Dig(j)]
  BY DEF Contenders, Size, Dig
<1>3. D = IF c \in Contenders(j) THEN C \cup {c} ELSE C
  BY <1>1
<1>4. \A k \in DOMAIN Ranked[j] : k < c + 1 =>
        Ranked[j][k] \in primed /\ <<Dig(j), Ranked[j][k]>> \notin broken
  <2> TAKE k \in DOMAIN Ranked[j]
  <2>1. k < c + 1 => k < c \/ k = c
    BY <1>1
  <2> QED
    BY <2>1 DEF Leading
<1>5. IF C = {} THEN w = WholeTarget(j)
      ELSE \E k \in C : w = CandidateOf(j, k) /\ Beating(j, k, C)
  BY DEF Leading
<1>6. WholeTarget(j).size = Raw[Dig(j)] /\ \A k : CandidateOf(j, k).size = Size(j, k)
  BY DEF WholeTarget, CandidateOf, Dig
<1> HIDE DEF C, D
<1>7. CASE c \notin Contenders(j)
  <2>1. D = C
    BY <1>3, <1>7
  <2>2. Leading(j, w, c + 1)
    BY <1>4, <1>5, <2>1 DEF Leading, D
  <2> QED
    BY <1>2, <1>7, <2>2
<1>8. CASE c \in Contenders(j) /\ C = {}
  <2>1. D = {c} /\ Beating(j, c, {c})
    BY <1>1, <1>3, <1>8 DEF Beating
  <2>2. Leading(j, CandidateOf(j, c), c + 1)
    BY <1>4, <2>1 DEF Leading, D
  <2>3. Size(j, c) < w.size
    BY <1>2, <1>5, <1>6, <1>8
  <2> QED
    BY <1>2, <1>8, <2>2, <2>3
<1>9. CASE c \in Contenders(j) /\ C # {}
  <2>1. PICK k \in C : w = CandidateOf(j, k) /\ Beating(j, k, C)
    BY <1>5, <1>9
  <2>2. D = C \cup {c} /\ w.size = Size(j, k)
    BY <1>3, <1>6, <1>9, <2>1
  <2>3. k \in DOMAIN Ranked[j] /\ k < c /\ C \subseteq DOMAIN Ranked[j]
    BY <1>1 DEF C
  <2>4. CASE Size(j, c) < Size(j, k)
    <3>1. Beating(j, c, D)
      BY <1>1, <2>1, <2>2, <2>3, <2>4 DEF Beating
    <3>2. Leading(j, CandidateOf(j, c), c + 1)
      BY <1>4, <2>2, <3>1 DEF Leading, D
    <3> QED
      BY <1>2, <1>9, <2>2, <2>4, <3>2
  <2>5. CASE ~(Size(j, c) < Size(j, k))
    <3>1. Beating(j, k, D)
      BY <1>1, <2>1, <2>2, <2>3, <2>5 DEF Beating
    <3>2. Leading(j, w, c + 1)
      BY <1>4, <2>1, <2>2, <3>1 DEF Leading, D
    <3> QED
      BY <2>2, <2>5, <3>2
  <2> QED
    BY <2>4, <2>5
<1> QED
  BY <1>7, <1>8, <1>9

\* A patch that beats the winner is of a layer not tried before; one that does
\* not takes the winner's file away when it is of the winner's layer.
LEMMA RepeatedStep ==
  ASSUME NEW j \in Jobs, NEW w, NEW c \in DOMAIN Ranked[j], Leading(j, w, c),
         NEW f, f = Candidate(Dig(j), Ranked[j][c]),
         NEW wins, wins <=> /\ Size(j, c) < FullZstd[Dig(j)] /\ Size(j, c) < Raw[Dig(j)]
                            /\ Size(j, c) < w.size
  PROVE  /\ wins => w.file # f /\ ~Repeated(j, CandidateOf(j, c), c + 1)
         /\ ~wins => (Repeated(j, w, c + 1) <=> Repeated(j, w, c) \/ w.file = f)
<1>1. /\ DOMAIN Ranked[j] \subseteq Nat /\ Contenders(j) \subseteq DOMAIN Ranked[j]
      /\ \A k \in DOMAIN Ranked[j] : Size(j, k) \in Nat
      /\ Raw[Dig(j)] \in Nat /\ FullZstd[Dig(j)] \in Nat
  BY Constants DEF Contenders
<1>2. \A k \in DOMAIN Ranked[j] :
        k \in Contenders(j) <=> Size(j, k) < FullZstd[Dig(j)] /\ Size(j, k) < Raw[Dig(j)]
  BY DEF Contenders, Size, Dig
<1>3. \A h, k \in DOMAIN Ranked[j] :
        /\ Ranked[j][h] = Ranked[j][k] => Size(j, h) = Size(j, k)
        /\ CandidateOf(j, h) = CandidateOf(j, k) => Ranked[j][h] = Ranked[j][k]
        /\ CandidateOf(j, h).file = Candidate(Dig(j), Ranked[j][h])
        /\ CandidateOf(j, h).size = Size(j, h)
        /\ Candidate(Dig(j), Ranked[j][h]) = Candidate(Dig(j), Ranked[j][k])
             => Ranked[j][h] = Ranked[j][k]
  BY NamesDiffer DEF CandidateOf, Size
<1>4. \/ w = WholeTarget(j) /\ w.file # f /\ \A k \in Contenders(j) : ~(k < c)
      \/ \E k \in Contenders(j) : /\ k < c /\ w = CandidateOf(j, k)
                                   /\ \A h \in Contenders(j) : h < c => Size(j, k) <= Size(j, h)
  <2> DEFINE C == {k \in Contenders(j) : k < c}
  <2>1. CASE C = {}
    <3>1. w = WholeTarget(j)
      BY <2>1 DEF Leading
    <3>2. w.file # f
      BY <3>1, NamesDiffer DEF WholeTarget
    <3> QED
      BY <2>1, <3>1, <3>2
  <2>2. CASE C # {}
    <3>1. PICK k \in C : w = CandidateOf(j, k) /\ Beating(j, k, C)
      BY <2>2 DEF Leading
    <3>2. \A h \in Contenders(j) : h < c => Size(j, k) <= Size(j, h)
      BY <1>1, <3>1 DEF Beating
    <3> QED
      BY <3>1, <3>2
  <2> QED
    BY <2>1, <2>2
<1>5. CASE wins
  <2>1. \A i \in DOMAIN Ranked[j] : i < c => Ranked[j][i] # Ranked[j][c]
    <3> SUFFICES ASSUME NEW i \in DOMAIN Ranked[j], i < c, Ranked[j][i] = Ranked[j][c]
                 PROVE  FALSE
      OBVIOUS
    <3>1. i \in Contenders(j) /\ Size(j, i) = Size(j, c)
      BY <1>2, <1>3, <1>5
    <3> QED
      BY <1>1, <1>3, <1>4, <1>5, <3>1
  <2>2. w.file # f
    BY <1>1, <1>3, <1>4, <2>1
  <2>3. ~Repeated(j, CandidateOf(j, c), c + 1)
    <3> SUFFICES ASSUME NEW h \in DOMAIN Ranked[j], NEW k \in DOMAIN Ranked[j],
                        h < c + 1, k < c + 1, h # k, Ranked[j][h] = Ranked[j][k],
                        CandidateOf(j, c) = CandidateOf(j, h)
                 PROVE  FALSE
      BY DEF Repeated
    <3>1. Ranked[j][h] = Ranked[j][c] /\ (h < c \/ k < c)
      BY <1>1, <1>3
    <3> QED
      BY <2>1, <3>1
  <2> QED
    BY <1>5, <2>2, <2>3
<1>6. CASE ~wins
  <2>1. ASSUME Repeated(j, w, c + 1) PROVE Repeated(j, w, c) \/ w.file = f
    <3>1. PICK h, k \in DOMAIN Ranked[j] : /\ h < c + 1 /\ k < c + 1 /\ h # k
                                           /\ Ranked[j][h] = Ranked[j][k] /\ w = CandidateOf(j, h)
      BY <2>1 DEF Repeated
    <3>2. CASE h < c /\ k < c
      BY <3>1, <3>2 DEF Repeated
    <3>3. CASE ~(h < c /\ k < c)
      <4>1. Ranked[j][h] = Ranked[j][c]
        BY <1>1, <3>1, <3>3
      <4> QED
        BY <1>3, <3>1, <4>1
    <3> QED
      BY <3>2, <3>3
  <2>2. ASSUME Repeated(j, w, c) PROVE Repeated(j, w, c + 1)
    <3>1. \A k \in DOMAIN Ranked[j] : k < c => k < c + 1
      BY <1>1
    <3> QED
      BY <2>2, <3>1 DEF Repeated
  <2>3. ASSUME w.file = f PROVE Repeated(j, w, c + 1)
    <3>1. PICK k \in Contenders(j) : k < c /\ w = CandidateOf(j, k)
      BY <1>4, <2>3
    <3>2. k \in DOMAIN Ranked[j] /\ Ranked[j][k] = Ranked[j][c] /\ k # c /\ k < c + 1 /\ c < c + 1
      BY <1>1, <1>3, <2>3, <3>1
    <3> QED
      BY <3>1, <3>2 DEF Repeated
  <2> QED
    BY <1>6, <2>1, <2>2, <2>3
<1> QED
  BY <1>5, <1>6

\* When all were compared, the winner is the determined one.
LEMMA AllCompared ==
  ASSUME NEW j \in Jobs, NEW w, NEW c, Leading(j, w, c), \A k \in DOMAIN Ranked[j] : k < c,
         ~(RefCount(Dig(j)) > 1), IntraLayer
  PROVE  w.entry = Determined(j)
<1>1. /\ DOMAIN Ranked[j] \subseteq Nat /\ Contenders(j) \subseteq DOMAIN Ranked[j]
      /\ \A k \in DOMAIN Ranked[j] : Size(j, k) \in Nat
  BY Constants DEF Contenders
<1>2. {k \in Contenders(j) : k < c} = Contenders(j)
  BY <1>1
<1>3. ~PlanFails(j)
  BY DEF Leading, PlanFails, Dig
<1>4. CASE Contenders(j) = {}
  <2>1. w = WholeTarget(j)
    BY <1>2, <1>4 DEF Leading
  <2> QED
    BY <1>4, <2>1 DEF Determined, WholeTarget
<1>5. CASE Contenders(j) # {}
  <2>1. PICK k \in Contenders(j) : w = CandidateOf(j, k) /\ Beating(j, k, Contenders(j))
    BY <1>2, <1>5 DEF Leading
  <2> DEFINE Best(i) == \A h \in Contenders(j) :
                          Size(j, i) < Size(j, h) \/ (Size(j, i) = Size(j, h) /\ i <= h)
             first == CHOOSE i \in Contenders(j) : Best(i)
  <2>2. Best(k)
    BY <2>1 DEF Beating
  <2>3. \A i \in Contenders(j) : Best(i) => i = k
    <3> SUFFICES ASSUME NEW i \in Contenders(j), Best(i) PROVE i = k
      OBVIOUS
    <3>1. /\ Size(j, i) < Size(j, k) \/ (Size(j, i) = Size(j, k) /\ i <= k)
          /\ Size(j, k) < Size(j, i) \/ (Size(j, k) = Size(j, i) /\ k <= i)
      BY <2>2
    <3>2. i \in Nat /\ k \in Nat /\ Size(j, i) \in Nat /\ Size(j, k) \in Nat
      BY <1>1
    <3> QED
      BY <3>1, <3>2
  <2>4. first = k
    BY <2>2, <2>3
  <2>5. Determined(j) = Patch(j, Ranked[j][first])
    BY <1>3, <1>5 DEF Determined, Size, Dig
  <2> QED
    BY <2>1, <2>4, <2>5 DEF CandidateOf
<1> QED
  BY <1>4, <1>5

\* The files of a layer while one of its candidates is tried.
LEMMA TryFiles ==
  ASSUME IInv, NEW j \in Jobs, pc[j] = "try", NEW gone, NEW b \in Baselines,
         \A n \in gone : \E a \in Baselines : n = Candidate(Dig(j), a),
         UNCHANGED <<entries, primed, broken, unread, submitted, cancelled>>,
         DOMAIN files \ gone \subseteq DOMAIN files',
         DOMAIN files' \subseteq DOMAIN files \cup {Candidate(Dig(j), b)},
         \A n \in DOMAIN files' :
           IF n = Candidate(Dig(j), b) THEN files'[n] = Delta(b) ELSE files'[n] = files[n]
  PROVE  /\ FilesOK' /\ EntriesOK' /\ Target(Dig(j)) \in DOMAIN files'
         /\ \A d \in Digests \ {Dig(j)} : FilesKept(d)
<1>1. /\ Shape /\ FilesOK /\ EntriesOK /\ JobOK(j) /\ Dig(j) \in Digests
      /\ Target(Dig(j)) \in DOMAIN files
  BY Running DEF JobOK
<1>2. \A d : Target(d) \notin gone /\ Blob(d) \notin gone
  BY NamesDiffer
<1>3. \A d : Target(d) # Candidate(Dig(j), b) /\ Blob(d) # Candidate(Dig(j), b)
  BY NamesDiffer
<1>4. \A d \in Digests, a \in Baselines :
        Candidate(d, a) = Candidate(Dig(j), b) => d = Dig(j) /\ a = b
  BY NamesDiffer
<1>5. \A d \in Digests \ {Dig(j)}, a \in Baselines : Candidate(d, a) \notin gone
  BY NamesDiffer
<1>6. FilesOK'
  <2>1. ASSUME NEW d \in Digests, Target(d) \in DOMAIN files'
        PROVE  files'[Target(d)] = Whole
    BY <1>1, <1>3, <2>1 DEF FilesOK
  <2>2. ASSUME NEW d \in Digests, NEW a \in Baselines, Candidate(d, a) \in DOMAIN files'
        PROVE  files'[Candidate(d, a)] = Delta(a)
    BY <1>1, <1>4, <2>2 DEF FilesOK
  <2> QED
    BY <2>1, <2>2 DEF FilesOK
<1>7. \A d \in Digests : BlobKept(d)
  BY <1>2, <1>3 DEF BlobKept
<1>8. EntriesOK'
  BY <1>1, <1>7, EntriesStay, EntryDigests
<1>9. ASSUME NEW d \in Digests \ {Dig(j)} PROVE FilesKept(d)
  <2>1. \A a \in Baselines : Candidate(d, a) # Candidate(Dig(j), b)
    BY <1>4
  <2> QED
    BY <1>2, <1>5, <1>7, <2>1 DEF FilesKept
<1> QED
  BY <1>1, <1>2, <1>6, <1>8, <1>9

\* The plan of a layer is given up: it travels whole.
LEMMA TryGivenUp ==
  ASSUME IInv, NEW j \in Jobs, Try(j),
         LET b == Ranked[j][cand[j]]
         IN  b \notin primed \/ <<DigestOf[j], b>> \in broken \/ cancelled
  PROVE  IInv'
<1>1. /\ Shape /\ FilesOK /\ EntriesOK /\ JobOK(j) /\ status[j] = "running"
      /\ Dig(j) \in Digests /\ pc[j] = "try" /\ Winner(j)
  BY Running DEF Try
<1>2. cand[j] \in DOMAIN Ranked[j]
  BY <1>1 DEF JobOK
<1>3. PICK b \in Baselines : b = Ranked[j][cand[j]]
  BY <1>2, Constants
<1>4. UNCHANGED <<next, submitted, primed, broken, unread, cancelled, result, stopped,
                  status, entries, cand>>
  BY DEF Try, Goto
<1>5. /\ best' = [best EXCEPT ![j] = WholeTarget(j)] /\ pc' = [pc EXCEPT ![j] = "adopt"]
      /\ files' = files \/ files' = Without(files, {Candidate(Dig(j), b)})
  BY <1>3 DEF Try, Goto, Dig
<1>6. PICK gone \in {{}, {Candidate(Dig(j), b)}} :
        DOMAIN files' = DOMAIN files \ gone /\ \A n \in DOMAIN files' : files'[n] = files[n]
  <2>1. CASE files' = files
    BY <2>1
  <2>2. CASE files' = Without(files, {Candidate(Dig(j), b)})
    BY <2>2 DEF Without, Restrict
  <2> QED
    BY <1>5, <2>1, <2>2
<1>7. /\ FilesOK' /\ EntriesOK' /\ Target(Dig(j)) \in DOMAIN files'
      /\ \A d \in Digests \ {Dig(j)} : FilesKept(d)
  <2>1. \A n \in DOMAIN files' :
          IF n = Candidate(Dig(j), b) THEN files'[n] = Delta(b) ELSE files'[n] = files[n]
    BY <1>1, <1>6 DEF FilesOK
  <2> QED
    BY <1>1, <1>4, <1>6, <2>1, TryFiles
<1>8. Shape'
  BY <1>1, <1>4, <1>5 DEF Shape, Location
<1>9. JobOK(j)'
  <2>1. /\ pc'[j] = "adopt" /\ status'[j] = "running"
        /\ best'[j] = WholeTarget(j) /\ best'[j].file = Target(Dig(j))
        /\ best'[j].entry = Full(j)
    BY <1>1, <1>4, <1>5 DEF Shape, WholeTarget, Dig
  <2>2. ~cancelled => Full(j) = Determined(j)'
    <3>1. ~cancelled => PlanFails(j)
      BY <1>2 DEF PlanFails
    <3> QED
      BY <1>4, <3>1, DeterminedStays DEF Determined
  <2>3. PayloadThere(j)'
    <3>1. \A h : best'[j] # CandidateOf(j, h)
      BY <2>1, NamesDiffer DEF CandidateOf
    <3> QED
      BY <1>7, <2>1, <3>1 DEF PayloadThere, Repeated
  <2> QED
    BY <1>1, <1>4, <1>7, <2>1, <2>2, <2>3 DEF JobOK, Winner
<1>10. \A k \in Jobs \ {j} : UNCHANGED <<status[k], pc[k], cand[k], best[k]>>
  BY <1>1, <1>4, <1>5 DEF Shape
<1> QED
  BY <1>1, <1>4, <1>7, <1>8, <1>9, <1>10, JobStep DEF Registered

\* A candidate is encoded and compared.
LEMMA TryCompared ==
  ASSUME IInv, NEW j \in Jobs, Try(j),
         LET b == Ranked[j][cand[j]]
         IN  ~(b \notin primed \/ <<DigestOf[j], b>> \in broken \/ cancelled)
  PROVE  IInv'
<1>1. /\ Shape /\ FilesOK /\ EntriesOK /\ JobOK(j) /\ status[j] = "running"
      /\ Dig(j) \in Digests /\ pc[j] = "try" /\ Winner(j)
  BY Running DEF Try
<1>2. PICK c \in DOMAIN Ranked[j] : c = cand[j]
  BY <1>1 DEF JobOK
<1>3. PICK b \in Baselines : b = Ranked[j][c]
  BY <1>2, Constants
<1>4. b \in primed /\ <<Dig(j), b>> \notin broken /\ ~cancelled
  BY <1>2, <1>3 DEF Dig
<1>5. UNCHANGED <<next, submitted, primed, broken, unread, cancelled, result, stopped,
                  status, entries>>
  BY DEF Try, Goto
<1>6. /\ cand' = [cand EXCEPT ![j] = c + 1]
      /\ pc' = [pc EXCEPT ![j] = IF c < Len(Ranked[j]) THEN "try" ELSE "adopt"]
  BY <1>2, <1>3, <1>4 DEF Try, Goto, More, Dig
<1>7. PICK w : w = best[j] /\ Leading(j, w, c)
  BY <1>1, <1>2 DEF JobOK, Leads
<1>8. PICK f : f = Candidate(Dig(j), b)
  OBVIOUS
<1> DEFINE wins == Size(j, c) < FullZstd[Dig(j)] /\ Size(j, c) < Raw[Dig(j)] /\ Size(j, c) < w.size
           new  == IF wins THEN CandidateOf(j, c) ELSE w
<1>9. DOMAIN best' = Jobs /\ best'[j] = new /\ \A k \in Jobs \ {j} : UNCHANGED best[k]
  <2>1. CASE wins
    <3>1. best' = [best EXCEPT ![j] =
                     [file |-> Candidate(DigestOf[j], b), entry |-> Patch(j, b),
                      size |-> PatchSize[<<DigestOf[j], b>>]]]
      BY <1>2, <1>3, <1>4, <1>7, <2>1 DEF Try, Beats, Size, Dig
    <3>2. best' = [best EXCEPT ![j] = CandidateOf(j, c)]
      BY <1>3, <3>1 DEF CandidateOf, Size, Dig
    <3> QED
      BY <1>1, <2>1, <3>2 DEF Shape
  <2>2. CASE ~wins
    <3>1. best' = best
      BY <1>2, <1>3, <1>4, <1>7, <2>2 DEF Try, Beats, Size, Dig
    <3> QED
      BY <1>1, <1>7, <2>2, <3>1 DEF Shape
  <2> QED
    BY <2>1, <2>2
<1>10. files' = IF wins THEN Without(Put(files, f, Delta(b)), {w.file} \ {Target(Dig(j))})
                ELSE Without(files, {f})
  BY <1>2, <1>3, <1>4, <1>7, <1>8 DEF Try, Beats, Size, Dig
<1>11. w.file = Target(Dig(j)) \/ \E k \in DOMAIN Ranked[j] :
                                    k < c /\ w.file = Candidate(Dig(j), Ranked[j][k])
  BY <1>1, <1>2, <1>7, WinnerFile
<1>12. /\ wins => w.file # f /\ ~Repeated(j, CandidateOf(j, c), c + 1)
       /\ ~wins => (Repeated(j, w, c + 1) <=> Repeated(j, w, c) \/ w.file = f)
  BY <1>2, <1>3, <1>7, <1>8, RepeatedStep
<1>13. /\ FilesOK' /\ EntriesOK' /\ Target(Dig(j)) \in DOMAIN files'
       /\ \A d \in Digests \ {Dig(j)} : FilesKept(d)
  <2> DEFINE gone == IF wins THEN {w.file} \ {Target(Dig(j))} ELSE {f}
  <2>1. /\ DOMAIN files \ gone \subseteq DOMAIN files'
        /\ DOMAIN files' \subseteq DOMAIN files \cup {f}
        /\ \A n \in DOMAIN files' : IF n = f THEN files'[n] = Delta(b) ELSE files'[n] = files[n]
    <3>1. CASE wins
      <4>1. files' = Without(Put(files, f, Delta(b)), gone)
        BY <1>10, <3>1
      <4> HIDE DEF wins, gone
      <4> QED
        BY <4>1 DEF Without, Restrict, Put
    <3>2. CASE ~wins
      <4>1. files' = Without(files, gone) /\ f \in gone
        BY <1>10, <3>2
      <4> HIDE DEF wins, gone
      <4> QED
        BY <4>1 DEF Without, Restrict
    <3> QED
      BY <3>1, <3>2
  <2>2. \A n \in gone : \E a \in Baselines : n = Candidate(Dig(j), a)
    BY <1>3, <1>8, <1>11, Constants
  <2> HIDE DEF gone
  <2> QED
    BY <1>1, <1>5, <1>8, <2>1, <2>2, TryFiles
<1>14. Leading(j, new, c + 1)
  BY <1>2, <1>3, <1>4, <1>7, Compared
<1>15. new.file \in DOMAIN files' <=> ~Repeated(j, new, c + 1)
  <2>1. CASE wins
    <3>1. new.file = f
      BY <1>3, <1>8, <2>1 DEF CandidateOf
    <3>2. files' = Without(Put(files, f, Delta(b)), {w.file} \ {Target(Dig(j))})
      BY <1>10, <2>1
    <3>3. new.file \in DOMAIN files'
      BY <1>12, <2>1, <3>1, <3>2 DEF Without, Restrict, Put
    <3> QED
      BY <1>12, <2>1, <3>3
  <2>2. CASE ~wins
    <3>1. new = w /\ files' = Without(files, {f})
      BY <1>10, <2>2
    <3>2. w.file \in DOMAIN files <=> ~Repeated(j, w, c)
      BY <1>1, <1>2, <1>7 DEF JobOK, PayloadThere
    <3>3. new.file \in DOMAIN files' <=> w.file \in DOMAIN files /\ w.file # f
      BY <3>1 DEF Without, Restrict
    <3> QED
      BY <1>12, <2>2, <3>1, <3>2, <3>3
  <2> QED
    BY <2>1, <2>2
<1>16. new = WholeTarget(j) \/ \E k \in DOMAIN Ranked[j] : k < c + 1 /\ new = CandidateOf(j, k)
  BY <1>14 DEF Leading, Contenders
<1>17. ~(RefCount(Dig(j)) > 1) /\ IntraLayer
  BY <1>1 DEF JobOK
<1> HIDE DEF new, wins
<1>18. /\ cand'[j] = c + 1 /\ best'[j] = new /\ status'[j] = "running"
       /\ pc'[j] = IF c < Len(Ranked[j]) THEN "try" ELSE "adopt"
  BY <1>1, <1>5, <1>6, <1>9 DEF Shape
<1>19. Shape'
  BY <1>1, <1>2, <1>5, <1>6, <1>9, Constants DEF Shape, Location
<1>20. JobOK(j)'
  <2>1. Winner(j)'
    BY <1>16, <1>18 DEF Winner
  <2>2. Leads(j)' /\ PayloadThere(j)'
    BY <1>5, <1>14, <1>15, <1>18 DEF Leads, Leading, PayloadThere, Repeated
  <2>3. CASE c < Len(Ranked[j])
    <3>1. c + 1 \in DOMAIN Ranked[j]
      BY <2>3, Constants
    <3> QED
      BY <1>1, <1>5, <1>13, <1>17, <1>18, <2>1, <2>2, <2>3, <3>1 DEF JobOK
  <2>4. CASE ~(c < Len(Ranked[j]))
    <3>1. \A k \in DOMAIN Ranked[j] : k < c + 1
      BY <2>4, Constants
    <3>2. new.entry = Determined(j)
      BY <1>14, <1>17, <3>1, AllCompared
    <3>3. Determined(j)' = Determined(j)
      BY <1>5, DeterminedStays
    <3> QED
      BY <1>1, <1>5, <1>13, <1>18, <2>1, <2>2, <2>4, <3>1, <3>2, <3>3 DEF JobOK
  <2> QED
    BY <2>3, <2>4
<1>21. \A k \in Jobs \ {j} : UNCHANGED <<status[k], pc[k], cand[k], best[k]>>
  BY <1>1, <1>5, <1>6, <1>9 DEF Shape
<1> QED
  BY <1>1, <1>5, <1>13, <1>19, <1>20, <1>21, JobStep DEF Registered

LEMMA StepTry == ASSUME IInv, NEW j \in Jobs, Try(j) PROVE IInv'
BY TryGivenUp, TryCompared

\* The steps that touch neither the files nor the entries.
LEMMA Quiet ==
  ASSUME IInv, UNCHANGED <<cand, best, files, entries, primed, broken, unread>>,
         cancelled => cancelled', submitted \subseteq submitted'
  PROVE  FilesOK' /\ EntriesOK' /\ \A d : FilesKept(d) /\ Registered(d)' = Registered(d)
<1>1. Shape /\ FilesOK /\ EntriesOK
  BY DEF IInv
<1>2. \A d : FilesKept(d) /\ Registered(d)' = Registered(d)
  BY DEF FilesKept, BlobKept, Registered
<1>3. EntriesOK'
  BY <1>1, <1>2, EntriesStay DEF FilesKept
<1> QED
  BY <1>1, <1>2, <1>3 DEF FilesOK

\* The steps of the pool about a job that has not started.
LEMMA PoolStep ==
  ASSUME IInv, NEW j \in Jobs, j \in submitted, status[j] = "idle",
         UNCHANGED <<outside, stopped>>,
         \A k \in Jobs \ {j} : UNCHANGED <<status[k], pc[k]>>,
         Shape', Exclusive', JobOK(j)'
  PROVE  IInv'
<1>1. UNCHANGED <<next, submitted, cand, best, files, entries, primed, broken, unread,
                  cancelled, result>>
  BY DEF outside
<1>2. FilesOK' /\ EntriesOK' /\ \A d : FilesKept(d) /\ Registered(d)' = Registered(d)
  BY <1>1, Quiet
<1>3. \A k \in Jobs : JobOK(k)'
  <2> TAKE k \in Jobs
  <2>1. CASE k = j
    BY <2>1
  <2>2. CASE k # j
    BY <1>1, <1>2, <2>2, OtherJob
  <2> QED
    BY <2>1, <2>2
<1>4. CallerOK'
  <2>1. Shape /\ CallerOK /\ result # "ok"
    BY DEF IInv, CallerOK
  <2> QED
    BY <1>1, <1>2, <2>1, ExcusedStays DEF CallerOK
<1> QED
  BY <1>1, <1>2, <1>3, <1>4, ExcusedStays DEF IInv

LEMMA StepBegin == ASSUME IInv, NEW j \in Jobs, Begin(j) PROVE IInv'
<1>1. Shape /\ Exclusive /\ JobOK(j)
  BY DEF IInv
<1>2. /\ j \in submitted /\ status[j] = "idle" /\ UNCHANGED <<outside, stopped>>
      /\ status' = [status EXCEPT ![j] = "running"] /\ pc' = [pc EXCEPT ![j] = "spool"]
      /\ \A u \in Jobs : status[u] = "running" => Dig(u) # Dig(j)
  BY DEF Begin, Pool!Start, Pool!Running, Dig
<1>3. /\ UNCHANGED <<next, submitted, cand, best, files, entries, primed, broken, unread,
                     cancelled, result>>
      /\ status'[j] = "running" /\ pc'[j] = "spool"
      /\ \A k \in Jobs \ {j} : UNCHANGED <<status[k], pc[k]>>
  BY <1>1, <1>2 DEF Shape, outside
<1>4. Shape'
  BY <1>1, <1>2, <1>3 DEF Shape, Location
<1>5. Exclusive'
  BY <1>1, <1>2, <1>3 DEF Exclusive, Dig
<1>6. JobOK(j)'
  BY <1>1, <1>2, <1>3 DEF JobOK, Winner
<1> QED
  BY <1>2, <1>3, <1>4, <1>5, <1>6, PoolStep

LEMMA StepShare == ASSUME IInv, NEW j \in Jobs, Share(j) PROVE IInv'
<1>1. Shape /\ Exclusive /\ JobOK(j) /\ \A u \in Jobs : JobOK(u)
  BY DEF IInv
<1>2. PICK u \in Jobs : /\ status[j] = "idle" /\ Dig(u) = Dig(j)
                        /\ status[u] \in {"ok", "err", "ctx"}
                        /\ status' = [status EXCEPT ![j] = status[u]]
                        /\ j \in submitted /\ UNCHANGED <<outside, pc, stopped>>
  BY <1>1 DEF Share, Pool!Share, Pool!Final, Dig, Shape
<1>3. /\ UNCHANGED <<next, submitted, cand, best, files, entries, primed, broken, unread,
                     cancelled, result>>
      /\ status'[j] = status[u]
      /\ \A k \in Jobs \ {j} : UNCHANGED <<status[k], pc[k]>>
  BY <1>1, <1>2 DEF Shape, outside
<1>4. Shape'
  BY <1>1, <1>2, <1>3 DEF Shape
<1>5. Exclusive'
  BY <1>1, <1>2, <1>3 DEF Exclusive, Dig
<1>6. JobOK(j)'
  <2>1. /\ status[u] = "ok" => Registered(Dig(j))
        /\ status[u] = "err" => Excused'
        /\ status[u] = "ctx" => stopped
    BY <1>1, <1>2, <1>3, ExcusedStays DEF JobOK
  <2>2. pc[j] = "none"
    BY <1>1, <1>2 DEF JobOK, Shape, Location
  <2> QED
    BY <1>1, <1>2, <1>3, <2>1, <2>2 DEF JobOK, Winner, Registered
<1> QED
  BY <1>2, <1>3, <1>4, <1>5, <1>6, PoolStep

LEMMA StepTurnAway == ASSUME IInv, NEW j \in Jobs, TurnAway(j) PROVE IInv'
<1>1. Shape /\ Exclusive /\ JobOK(j)
  BY DEF IInv
<1>2. /\ j \in submitted /\ status[j] = "idle" /\ stopped
      /\ status' = [status EXCEPT ![j] = "ctx"] /\ UNCHANGED <<outside, pc, stopped>>
  BY DEF TurnAway, Pool!Skip
<1>3. /\ UNCHANGED <<next, submitted, cand, best, files, entries, primed, broken, unread,
                     cancelled, result>>
      /\ status'[j] = "ctx"
      /\ \A k \in Jobs \ {j} : UNCHANGED <<status[k], pc[k]>>
  BY <1>1, <1>2 DEF Shape, outside
<1>4. Shape'
  BY <1>1, <1>2, <1>3 DEF Shape
<1>5. Exclusive'
  BY <1>1, <1>2, <1>3 DEF Exclusive, Dig
<1>6. JobOK(j)'
  BY <1>1, <1>2, <1>3 DEF JobOK, Winner
<1> QED
  BY <1>2, <1>3, <1>4, <1>5, <1>6, PoolStep

\* The steps that leave every job where it is.
LEMMA CallerStep ==
  ASSUME IInv, UNCHANGED <<status, pc, cand, best, files, entries, primed, broken, unread>>,
         cancelled => cancelled', stopped => stopped', submitted \subseteq submitted',
         Shape', CallerOK', stopped' => Excused'
  PROVE  IInv'
<1>1. FilesOK' /\ EntriesOK' /\ \A d : FilesKept(d) /\ Registered(d)' = Registered(d)
  BY Quiet
<1>2. \A k \in Jobs : JobOK(k)'
  BY <1>1, OtherJob
<1>3. Exclusive'
  BY DEF IInv, Exclusive, Dig
<1> QED
  BY <1>1, <1>2, <1>3 DEF IInv

LEMMA StepSubmit == ASSUME IInv, Submit PROVE IInv'
<1>1. /\ Shape /\ CallerOK /\ next <= Len(Order) /\ next' = next + 1
      /\ UNCHANGED <<status, stopped, pc, cand, best, files, entries, primed, broken, unread,
                     cancelled, result>>
  BY DEF Submit, IInv
<1>2. next \in DOMAIN Order /\ Order[next] \in Jobs /\ next' \in 1..(Len(Order) + 1)
  BY <1>1, OrderIsJobs DEF Shape
<1>3. /\ submitted \subseteq submitted' /\ submitted' \subseteq Jobs
      /\ Order[next] \in submitted' \/ Registered(Dig(Order[next]))
  BY <1>1, <1>2 DEF Submit, Shape, Dig
<1>4. Shape'
  BY <1>1, <1>2, <1>3 DEF Shape
<1>5. CallerOK' /\ (Excused => Excused')
  <2>1. ASSUME NEW k \in DOMAIN Order, k < next'
        PROVE  Order[k] \in submitted' \/ Registered(Dig(Order[k]))'
    <3>1. k < next \/ k = next
      BY <1>1, <1>2, <2>1, OrderIsJobs
    <3> QED
      BY <1>1, <1>3, <3>1 DEF CallerOK, Registered
  <2>2. result # "ok"
    BY <1>1, <1>2, OrderIsJobs DEF CallerOK
  <2>3. Excused => Excused'
    BY <1>1, <1>3, ExcusedStays
  <2> QED
    BY <1>1, <2>1, <2>2, <2>3 DEF CallerOK
<1> QED
  BY <1>1, <1>3, <1>4, <1>5, CallerStep DEF IInv

LEMMA StepWait == ASSUME IInv, Wait PROVE IInv'
<1>1. /\ Shape /\ CallerOK /\ next > Len(Order)
      /\ \A j \in submitted : status[j] \in {"ok", "err", "ctx"}
      /\ result' = IF \A j \in submitted : status[j] = "ok" THEN "ok" ELSE "err"
      /\ UNCHANGED <<status, stopped, next, submitted, pc, cand, best, files, entries, primed,
                     broken, unread, cancelled>>
  BY DEF Wait, IInv, Pool!Final
<1>2. next = Len(Order) + 1
  BY <1>1, OrderIsJobs DEF Shape
<1>3. Shape'
  BY <1>1 DEF Shape
<1>4. result' = "err" => Excused'
  <2>1. \A j \in submitted : status[j] = "ok" \/ Excused
    BY <1>1 DEF IInv, JobOK, Shape
  <2> QED
    BY <1>1, <2>1, ExcusedStays
<1>5. CallerOK'
  <2>1. result' = "ok" => \A j \in submitted : status[j] = "ok"
    BY <1>1
  <2> QED
    BY <1>1, <1>2, <1>4, <2>1 DEF CallerOK, Registered
<1>6. Excused => Excused'
  BY <1>1, ExcusedStays
<1> QED
  BY <1>1, <1>3, <1>5, <1>6, CallerStep DEF IInv

LEMMA StepCancel == ASSUME IInv, Cancel PROVE IInv'
<1>1. /\ Shape /\ CallerOK /\ cancelled' = TRUE
      /\ UNCHANGED <<status, stopped, next, submitted, pc, cand, best, files, entries, primed,
                     broken, unread, result>>
  BY DEF Cancel, IInv
<1>2. Shape' /\ CallerOK' /\ Excused'
  <2>1. Excused'
    BY <1>1 DEF Excused
  <2> QED
    BY <1>1, <2>1 DEF Shape, CallerOK, Registered
<1> QED
  BY <1>1, <1>2, CallerStep

LEMMA StepStopPool == ASSUME IInv, StopPool PROVE IInv'
<1>1. /\ Shape /\ CallerOK /\ stopped' = TRUE
      /\ cancelled \/ \E j \in submitted : status[j] = "err"
      /\ UNCHANGED <<status, next, submitted, cand, best, files, entries, primed, broken,
                     unread, cancelled, result, pc>>
  BY DEF StopPool, Pool!Stop, outside, IInv
<1>2. Excused'
  <2>1. Excused
    <3>1. CASE cancelled
      BY <3>1 DEF Excused
    <3>2. CASE \E j \in submitted : status[j] = "err"
      BY <1>1, <3>2 DEF IInv, JobOK, Shape
    <3> QED
      BY <1>1, <3>1, <3>2
  <2> QED
    BY <1>1, <2>1, ExcusedStays
<1>3. Shape' /\ CallerOK'
  BY <1>1, <1>2 DEF Shape, CallerOK, Registered
<1> QED
  BY <1>1, <1>2, <1>3, CallerStep

LEMMA StepIdle == ASSUME IInv, UNCHANGED vars PROVE IInv'
<1>1. UNCHANGED <<status, stopped, next, submitted, pc, cand, best, files, entries, primed,
                  broken, unread, cancelled, result>>
  BY DEF vars
<1>2. Shape' /\ CallerOK' /\ (Excused => Excused')
  <2>1. Shape /\ (Excused => Excused')
    BY <1>1, ExcusedStays DEF IInv
  <2> QED
    BY <1>1, <2>1 DEF IInv, Shape, CallerOK, Registered
<1> QED
  BY <1>1, <1>2, CallerStep DEF IInv

LEMMA StepIInv == ASSUME IInv, [Next]_vars PROVE IInv'
<1>1. ASSUME NEW j \in Jobs, Job(j) PROVE IInv'
  BY <1>1, StepBegin, StepShare, StepTurnAway, StepSpool, StepPlan, StepTry, StepAdopt,
     StepRegister, StepClean DEF Job
<1> QED
  BY <1>1, StepSubmit, StepWait, StepCancel, StepStopPool, StepIdle DEF Next
-----------------------------------------------------------------------------
(* The theorems.                                                           *)

\* In every behaviour of the encode phase the workdir, the blob pool and the
\* workers of encodeTargets agree as IInv says.
THEOREM EncodeInvariant == Spec => []IInv
<1>1. IInv /\ [Next]_vars => IInv'
  BY StepIInv
<1> QED
  BY <1>1, InitIInv, PTL DEF Spec

\* A success means that every layer is registered.
LEMMA AllShipped ==
  ASSUME IInv, result = "ok"
  PROVE  \A j \in Jobs : Registered(Dig(j))
<1>1. next = Len(Order) + 1 /\ \A j \in submitted : status[j] = "ok"
  BY DEF IInv, CallerOK
<1>2. ASSUME NEW j \in Jobs PROVE Registered(Dig(j))
  <2>1. PICK k \in DOMAIN Order : Order[k] = j
    BY OrderIsJobs
  <2>2. k < next
    BY <1>1, OrderIsJobs
  <2>3. j \in submitted \/ Registered(Dig(j))
    BY <2>1, <2>2 DEF IInv, CallerOK
  <2> QED
    BY <1>1, <2>3 DEF IInv, JobOK
<1> QED
  BY <1>2

\* PoolComplete: what addEntryFromPath recorded of a blob is what its file
\* holds, and when encPool.Wait() reports success every layer has a blob.
THEOREM PoolIsComplete == Spec => []PoolComplete
<1>1. ASSUME IInv PROVE PoolComplete
  <2>1. EntryMatchesFile
    BY <1>1 DEF IInv, EntriesOK, EntryMatchesFile, Content
  <2>2. ASSUME result = "ok" PROVE DOMAIN entries = Digests
    <3>1. \A d \in Digests : \E j \in Jobs : d = Dig(j)
      BY LayerAssumption DEF Digests, Range, Dig
    <3>2. Digests \subseteq DOMAIN entries
      BY <1>1, <2>2, <3>1, AllShipped DEF Registered
    <3>3. DOMAIN entries \subseteq Digests
      BY <1>1, EntryDigests DEF IInv
    <3> QED
      BY <3>2, <3>3
  <2> QED
    BY <2>1, <2>2 DEF PoolComplete, EverythingShipped
<1> QED
  BY <1>1, EncodeInvariant, PTL

\* OnlyReadErrorsAbort: encodeTargets fails only because a target layer could not
\* be read, a job lost its payload to a candidate listed twice or the caller
\* cancelled, whatever else happens to the patches; and without a cancellation it
\* succeeds only when some job of every layer met neither.
THEOREM OnlyReadErrors == Spec => []OnlyReadErrorsAbort
<1>1. ASSUME IInv PROVE OnlyReadErrorsAbort
  <2>1. result = "err" => Excused
    BY <1>1 DEF IInv, CallerOK
  <2>2. ASSUME result = "ok", ~cancelled, NEW d \in Digests
        PROVE  \E j \in submitted : DigestOf[j] = d /\ j \notin unread /\ ~SelfDefeating(j)
    <3>1. \E j \in Jobs : d = Dig(j)
      BY LayerAssumption DEF Digests, Range, Dig
    <3>2. d \in DOMAIN entries
      BY <1>1, <2>2, <3>1, AllShipped DEF Registered
    <3> QED
      BY <1>1, <2>2, <3>2 DEF IInv, EntriesOK, MadeBy, Dig
  <2> QED
    BY <2>1, <2>2 DEF OnlyReadErrorsAbort, Excused
<1> QED
  BY <1>1, EncodeInvariant, PTL

\* Two jobs of a layer determine the same entry, but for the media type.
LEMMA DeterminedByDigest ==
  ASSUME NEW j \in Jobs, NEW k \in Jobs, Dig(j) = Dig(k)
  PROVE  Determined(k) = [Determined(j) EXCEPT !.media = Determined(k).media]
<1>1. CASE RefCount(Dig(j)) > 1
  <2>1. Determined(j) = Full(j) /\ Determined(k) = Full(k)
    BY <1>1 DEF Determined, Dig
  <2> QED
    BY <2>1 DEF Full
<1>2. CASE ~(RefCount(Dig(j)) > 1)
  <2>1. j = k
    BY <1>2, OnlyJob
  <2>2. \E b : Determined(j) = Full(j) \/ Determined(j) = Patch(j, b)
    BY DEF Determined
  <2> QED
    BY <2>1, <2>2 DEF Full, Patch
<1> QED
  BY <1>1, <1>2

LEMMA DeterminedMedia ==
  ASSUME NEW j \in Jobs PROVE Determined(j).media = MediaOf[j]
<1>1. \E b : Determined(j) = Full(j) \/ Determined(j) = Patch(j, b)
  BY DEF Determined
<1> QED
  BY <1>1 DEF Full, Patch

\* Deterministic: in an export nobody cancelled, whatever the schedule of the
\* pool, a layer is whole or a patch of the baseline its sizes, candidates and
\* failures determine; its media type is that of some pair that ships it.
THEOREM ScheduleIndependent == Spec => []Deterministic
<1>1. ASSUME IInv PROVE Deterministic
  <2> SUFFICES ASSUME result = "ok", ~cancelled, NEW j \in Jobs, NEW e, e = entries[Dig(j)]
               PROVE  /\ e = [Determined(j) EXCEPT !.media = e.media]
                      /\ \E k \in submitted : Dig(k) = Dig(j) /\ e.media = MediaOf[k]
    BY DEF Deterministic, Dig
  <2>1. Dig(j) \in DOMAIN entries
    BY <1>1, AllShipped DEF Registered
  <2>2. PICK k \in submitted : Dig(j) = Dig(k) /\ e = Determined(k)
    BY <1>1, <2>1 DEF IInv, EntriesOK, MadeBy
  <2>3. k \in Jobs
    BY <1>1 DEF IInv, Shape
  <2> QED
    BY <2>2, <2>3, DeterminedByDigest, DeterminedMedia
<1> QED
  BY <1>1, EncodeInvariant, PTL
=============================================================================
