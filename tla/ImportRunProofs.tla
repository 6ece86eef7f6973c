--------------------------- MODULE ImportRunProofs ---------------------------
(***************************************************************************)
(* What an import tells its caller, for any number of images, any verdicts *)
(* and fates, and any schedule of the pool.                                *)
(*                                                                         *)
(* The report is a function of verdicts and fates because of two things: the *)
(* apply list never changes once it is made, and what is recorded of an    *)
(* image is what its verdict and its fate say, by whoever records it. An   *)
(* image without a record has not come that far, or the run was ended.     *)
(***************************************************************************)
EXTENDS ImportRun, FiniteSetTheorems, SequenceTheorems, TLAPS

-----------------------------------------------------------------------------
(* Sets in order.                                                          *)

StrictOrder(S, R) ==
  /\ \A x \in S : <<x, x>> \notin R
  /\ \A x, y, z \in S : <<x, y>> \in R /\ <<y, z>> \in R => <<x, z>> \in R
  /\ \A x, y \in S : x # y => <<x, y>> \in R \/ <<y, x>> \in R

\* What is below an element is fewer than all, and more for a greater element.
LEMMA BelowGrows ==
  ASSUME NEW S, NEW R, IsFiniteSet(S), StrictOrder(S, R)
  PROVE  /\ \A x \in S : /\ IsFiniteSet(Below(S, R, x))
                         /\ Cardinality(Below(S, R, x)) \in 0..(Cardinality(S) - 1)
         /\ \A x, y \in S : <<x, y>> \in R =>
              Cardinality(Below(S, R, x)) < Cardinality(Below(S, R, y))
<1>1. \A x \in S : /\ IsFiniteSet(Below(S, R, x)) /\ Cardinality(Below(S, R, x)) \in Nat
  BY FS_Subset, FS_CardinalityType DEF Below
<1>2. ASSUME NEW x \in S, NEW T, IsFiniteSet(T), T \subseteq S, Below(S, R, x) \subseteq T \ {x},
             x \in T
      PROVE  Cardinality(Below(S, R, x)) < Cardinality(T)
  <2>1. IsFiniteSet(T \ {x}) /\ Cardinality(T \ {x}) = Cardinality(T) - 1
    BY <1>2, FS_RemoveElement
  <2>2. Cardinality(Below(S, R, x)) <= Cardinality(T \ {x})
    BY <1>2, <2>1, FS_Subset
  <2>3. Cardinality(T) \in Nat
    BY <1>2, FS_CardinalityType
  <2> QED
    BY <2>1, <2>2, <2>3, <1>1
<1>3. \A x \in S : Cardinality(Below(S, R, x)) < Cardinality(S)
  <2> TAKE x \in S
  <2>1. Below(S, R, x) \subseteq S \ {x}
    BY DEF Below, StrictOrder
  <2> QED
    BY <2>1, <1>2
<1>4. ASSUME NEW x \in S, NEW y \in S, <<x, y>> \in R
      PROVE  Cardinality(Below(S, R, x)) < Cardinality(Below(S, R, y))
  <2>1. Below(S, R, x) \subseteq Below(S, R, y) \ {x} /\ x \in Below(S, R, y)
    BY <1>4 DEF Below, StrictOrder
  <2>2. Below(S, R, y) \subseteq S
    BY DEF Below
  <2> QED
    BY <1>1, <1>2, <2>1, <2>2
<1>5. Cardinality(S) \in Nat
  BY FS_CardinalityType
<1> QED
  BY <1>1, <1>3, <1>4, <1>5

\* InOrder lists every element once, after exactly those that are below it.
LEMMA InOrderLists ==
  ASSUME NEW S, NEW R, IsFiniteSet(S), StrictOrder(S, R)
  PROVE  /\ Cardinality(S) \in Nat
         /\ InOrder(S, R) \in [1..Cardinality(S) -> S]
         /\ \A x \in S : \E p \in 1..Cardinality(S) : InOrder(S, R)[p] = x
         /\ \A p, q \in 1..Cardinality(S) : InOrder(S, R)[p] = InOrder(S, R)[q] => p = q
         /\ \A p \in 1..Cardinality(S) : Cardinality(Below(S, R, InOrder(S, R)[p])) = p - 1
<1> DEFINE n == Cardinality(S)
           rank == [x \in S |-> Cardinality(Below(S, R, x))]
<1>1. n = Cardinality(S) /\ n \in Nat
  BY FS_CardinalityType
<1>2. /\ rank \in [S -> 0..(n - 1)]
      /\ \A x \in S : rank[x] = Cardinality(Below(S, R, x))
  BY BelowGrows
<1>3. \A x, y \in S : rank[x] = rank[y] => x = y
  <2> SUFFICES ASSUME NEW x \in S, NEW y \in S, rank[x] = rank[y], x # y PROVE FALSE
    OBVIOUS
  <2>1. rank[x] < rank[y] \/ rank[y] < rank[x]
    BY BelowGrows DEF StrictOrder
  <2> QED
    BY <1>1, <1>2, <2>1
<1> HIDE DEF n, rank
<1>4. rank \in Injection(S, 0..(n - 1))
  BY <1>2, <1>3 DEF Injection, IsInjective
<1>5. IsFiniteSet(0..(n - 1)) /\ Cardinality(0..(n - 1)) = n
  <2>1. 0 \in Int /\ n - 1 \in Int
    BY <1>1
  <2>2. IsFiniteSet(0..(n - 1)) /\ Cardinality(0..(n - 1)) = IF 0 > n - 1 THEN 0 ELSE (n - 1) - 0 + 1
    BY <2>1, FS_Interval
  <2> QED
    BY <1>1, <2>2
<1>6. rank \in Surjection(S, 0..(n - 1))
  BY <1>1, <1>4, <1>5, FS_Injection
<1>7. ASSUME NEW p \in 1..n PROVE \E x \in S : rank[x] = p - 1
  <2>1. p - 1 \in 0..(n - 1)
    BY <1>1
  <2> QED
    BY <1>6, <2>1 DEF Surjection
<1>8. ASSUME NEW p \in 1..n PROVE InOrder(S, R)[p] \in S /\ rank[InOrder(S, R)[p]] = p - 1
  <2>1. InOrder(S, R)[p] = CHOOSE x \in S : rank[x] = p - 1
    BY <1>1, <1>2 DEF InOrder
  <2> QED
    BY <1>7, <2>1
<1>9. ASSUME NEW x \in S PROVE rank[x] + 1 \in 1..n /\ InOrder(S, R)[rank[x] + 1] = x
  <2>1. rank[x] + 1 \in 1..n
    BY <1>1, <1>2
  <2>2. rank[InOrder(S, R)[rank[x] + 1]] = rank[x]
    BY <1>1, <1>2, <1>8, <2>1
  <2> QED
    BY <1>3, <1>8, <2>1, <2>2
<1>10. InOrder(S, R) \in [1..n -> S]
  BY <1>1, <1>8 DEF InOrder
<1>11. \A p, q \in 1..n : InOrder(S, R)[p] = InOrder(S, R)[q] => p = q
  <2> TAKE p \in 1..n, q \in 1..n
  <2>1. InOrder(S, R)[p] = InOrder(S, R)[q] => p - 1 = q - 1
    BY <1>8
  <2> QED
    BY <1>1, <2>1
<1> QED
  BY <1>1, <1>2, <1>8, <1>9, <1>10, <1>11

\* Of numbers, Ascending lists each once.
LEMMA AscendingLists ==
  ASSUME NEW S, S \subseteq Images
  PROVE  /\ Cardinality(S) \in Nat
         /\ Ascending(S) \in [1..Cardinality(S) -> S]
         /\ \A x \in S : \E p \in 1..Cardinality(S) : Ascending(S)[p] = x
         /\ \A p, q \in 1..Cardinality(S) : Ascending(S)[p] = Ascending(S)[q] => p = q
<1> DEFINE R == {e \in S \X S : e[1] < e[2]}
<1>1. IsFiniteSet(S)
  <2>1. IsFiniteSet(1..N)
    BY NAssumption, FS_Interval
  <2> QED
    BY <2>1, FS_Subset DEF Images
<1>2. StrictOrder(S, R)
  BY NAssumption DEF StrictOrder, Images
<1>3. Ascending(S) = InOrder(S, R)
  BY DEF Ascending
<1> HIDE DEF R
<1> QED
  BY <1>1, <1>2, <1>3, InOrderLists
-----------------------------------------------------------------------------
(* The inductive invariant.                                                *)

\* What preflight lets through.
Accepted ==
  /\ \A i \in Images : verdict[i] # "schema"
  /\ strict => \A i \in Images : verdict[i] = "ok"

Shape ==
  /\ strict \in BOOLEAN /\ serial \in BOOLEAN /\ cancelled \in BOOLEAN
  /\ fate \in [Images -> Fate]
  /\ phase \in Phase
  /\ ret \in {"none", "ok", "err"}
  /\ ret = "none" <=> phase # "done"
  /\ workdir \in BOOLEAN
  /\ workdir <=> phase \in {"preflight", "budget", "apply", "report"}
  /\ applyList \in {<<>>, Passed}
  /\ phase \in {"budget", "apply", "report"} => applyList = Passed /\ Accepted
  /\ phase = "apply" => ~OverBudget
  /\ next \in 1..(Len(applyList) + 1)
  /\ phase \in {"open", "preflight", "budget"} => next = 1
  /\ submitted \subseteq Images
  /\ pc \in [Images -> {"none", "compose", "record", "end"}]
  /\ outcome \in [Images -> {"none"} \cup Fate]
  /\ status \in [Images -> {"idle", "running", "ok", "err", "ctx"}]
  /\ stopped \in BOOLEAN
  /\ stopped /\ ~strict => cancelled

\* Nothing has been done about an image.
Fresh(i) ==
  pc[i] = "none" /\ outcome[i] = "none" /\ status[i] = "idle" /\ i \notin submitted

InTurn(i)  == \E k \in DOMAIN applyList : applyList[k] = i
Before(i) == \E k \in DOMAIN applyList : k < next /\ applyList[k] = i
HasRow(i)  == \E k \in DOMAIN rows : rows[k].image = i

\* An image is touched in its turn only, and has a row once something became of it.
ImageOK(i) ==
  /\ phase \in {"open", "preflight", "budget"} => Fresh(i)
  /\ ~Fresh(i) => InTurn(i) /\ applyList = Passed /\ Accepted /\ ~OverBudget
  /\ pc[i] # "none" =>
       /\ phase = "apply"
       /\ fate[i] # "unread"
       /\ IF serial THEN next <= Len(applyList) /\ applyList[next] = i ELSE status[i] = "running"
  /\ pc[i] = "compose" => outcome[i] = "none"
  /\ pc[i] = "record" => outcome[i] \in {"ok", "compose", "invariant"} /\ ~HasRow(i)
  /\ pc[i] = "end" => outcome[i] # "none"
  /\ outcome[i] # "none" /\ pc[i] # "record" => HasRow(i)
  /\ outcome[i] # "none" /\ ~cancelled => outcome[i] = fate[i]
  /\ serial => status[i] = "idle" /\ i \notin submitted
  /\ i \in submitted => fate[i] # "unread" /\ Before(i)
  /\ status[i] # "idle" => i \in submitted
  /\ i \in submitted /\ status[i] = "idle" => pc[i] = "none" /\ outcome[i] = "none"
  /\ status[i] = "running" => pc[i] # "none"
  /\ status[i] \in {"ok", "err"} => pc[i] = "none" /\ outcome[i] # "none"
  /\ status[i] = "err" => strict
  /\ status[i] = "ctx" => stopped
  /\ phase \in {"report", "done"} =>
       pc[i] = "none" /\ (i \in submitted => status[i] \in Pool!Final)

\* The list is gone through in order: nothing is done yet about the images after
\* the one it is at, and something became of those before it, or will.
ListOK ==
  \A k \in DOMAIN applyList :
    LET i == applyList[k]
    IN  /\ k > next => Fresh(i)
        /\ k = next => Fresh(i) \/ pc[i] # "none"
        /\ k < next => pc[i] = "none" \/ ~serial
        /\ k < next /\ ~strict => outcome[i] # "none" \/ i \in submitted

\* Before the report the rows are those of the images something became of, in
\* the order they came to it; when the budget is exceeded there is one for all.
RowsOK ==
  phase # "done" =>
    /\ phase \in {"open", "preflight", "budget"} => rows = <<>>
    /\ IF phase = "report" /\ OverBudget
         THEN rows = <<Row(BudgetSentinel, "compose")>>
         ELSE /\ rows \in Seq([image : Images, status : {"ok", "compose", "invariant"}])
              /\ \A h, k \in DOMAIN rows : rows[h].image = rows[k].image => h = k
              /\ \A k \in DOMAIN rows :
                   LET i == rows[k].image
                   IN  /\ outcome[i] # "none" /\ pc[i] # "record"
                       /\ rows[k].status = Told(outcome[i])
    /\ phase = "report" /\ ~OverBudget /\ ~strict /\ ~cancelled =>
         \A k \in DOMAIN applyList : outcome[applyList[k]] # "none"

IInv ==
  /\ Shape /\ ListOK /\ RowsOK
  /\ \A i \in Images : ImageOK(i)
  /\ ReportIsTrue /\ ScheduleFree

\* The apply list names images that passed, each once.
LEMMA PassedLists ==
  /\ Len(Passed) \in Nat
  /\ DOMAIN Passed = 1..Len(Passed)
  /\ \A k \in DOMAIN Passed : Passed[k] \in Images /\ verdict[Passed[k]] = "ok"
  /\ \A h, k \in DOMAIN Passed : Passed[h] = Passed[k] => h = k
  /\ Len(Passed) <= N
<1> DEFINE S == {i \in Images : verdict[i] = "ok"}
<1>1. /\ Cardinality(S) \in Nat
      /\ Ascending(S) \in [1..Cardinality(S) -> S]
      /\ \A p, q \in 1..Cardinality(S) : Ascending(S)[p] = Ascending(S)[q] => p = q
  BY AscendingLists
<1>2. Passed = Ascending(S) /\ \A i \in S : i \in Images /\ verdict[i] = "ok"
  BY DEF Passed
<1>3. Cardinality(S) <= N
  <2>1. IsFiniteSet(1..N) /\ Cardinality(1..N) = N
    BY NAssumption, FS_Interval
  <2> QED
    BY <2>1, FS_Subset DEF Images
<1> HIDE DEF S
<1> QED
  BY <1>1, <1>2, <1>3

LEMMA ListIsPassed ==
  ASSUME applyList \in {<<>>, Passed}
  PROVE  /\ Len(applyList) \in Nat
         /\ DOMAIN applyList = 1..Len(applyList)
         /\ \A k \in DOMAIN applyList : applyList[k] \in Images /\ verdict[applyList[k]] = "ok"
         /\ \A h, k \in DOMAIN applyList : applyList[h] = applyList[k] => h = k
BY PassedLists

LEMMA InitIInv == Init => IInv
<1> SUFFICES ASSUME Init PROVE IInv
  OBVIOUS
<1>1. Shape
  <2>1. next = 1 /\ applyList = <<>> /\ next \in 1..(Len(applyList) + 1)
    BY DEF Init
  <2> QED
    BY <2>1, NAssumption DEF Init, Shape, Phase, Pool!Init
<1>2. \A i \in Images : ImageOK(i)
  BY DEF Init, ImageOK, Pool!Init, Fresh
<1>3. ListOK /\ RowsOK /\ ReportIsTrue /\ ScheduleFree
  BY DEF Init, ListOK, RowsOK, ReportIsTrue, ReportedOnce, SuccessIffApplied, ScheduleFree
<1> QED
  BY <1>1, <1>2, <1>3 DEF IInv

\* Before the report is made there is nothing to say of it.
LEMMA NoReportYet ==
  ASSUME ret' = "none" PROVE ReportIsTrue' /\ ScheduleFree'
BY DEF ReportIsTrue, ReportedOnce, SuccessIffApplied, ScheduleFree

\* The steps before any image is touched.
Untouched == rows = <<>> /\ \A i \in Images : Fresh(i)

LEMMA EarlyIsUntouched ==
  ASSUME IInv, phase \in {"open", "preflight", "budget"} PROVE Untouched
BY DEF IInv, RowsOK, ImageOK, Shape, ListOK, Untouched, Fresh

\* An import that returns before any image is touched reports nothing.
LEMMA ReturnsEmpty ==
  ASSUME Untouched, UNCHANGED <<rows, outcome>>, ret' = "err" PROVE ReportIsTrue' /\ ScheduleFree'
<1>1. rows' = <<>> /\ \A i \in Images : outcome'[i] = "none"
  BY DEF Untouched, Fresh
<1>2. ReportedOnce'
  <2> SUFFICES ASSUME NEW i \in Images
               PROVE  /\ Cardinality({k \in DOMAIN rows' : rows'[k].image = i}) <= 1
                      /\ outcome'[i] = "none"
    BY DEF ReportedOnce, Attempted
  <2>1. {k \in DOMAIN rows' : rows'[k].image = i} = {}
    BY <1>1
  <2> QED
    BY <1>1, <2>1, FS_EmptySet
<1>3. SuccessIffApplied' /\ ScheduleFree'
  BY <1>1 DEF SuccessIffApplied, ScheduleFree
<1> QED
  BY <1>2, <1>3 DEF ReportIsTrue

\* What is determined by the inputs stays.
LEMMA InputsStay ==
  ASSUME UNCHANGED inputs
  PROVE  UNCHANGED <<Passed, Accepted, OverBudget, Skipped>>
BY DEF inputs, Passed, Accepted, OverBudget, Skipped

LEMMA FreshIsOK ==
  ASSUME NEW i \in Images, Fresh(i)' PROVE ImageOK(i)'
BY DEF Fresh, ImageOK, Pool!Final

LEMMA StepPrepare == ASSUME IInv, Prepare PROVE IInv'
<1>1. Untouched
  BY EarlyIsUntouched DEF Prepare
<1>2. Shape'
  <2>1. UNCHANGED <<Passed, Accepted, OverBudget>>
    BY InputsStay DEF Prepare
  <2>2. Shape
    BY DEF IInv
  <2> QED
    BY <2>1, <2>2 DEF Prepare, Return, Shape, Phase, inputs, pool
<1>3. \A i \in Images : ImageOK(i)'
  BY <1>1, FreshIsOK DEF Prepare, Untouched, Fresh, pool
<1>4. ListOK' /\ RowsOK'
  BY <1>1, <1>2, ListIsPassed DEF IInv, Shape, ListOK, RowsOK, Prepare, Return, inputs, pool, Untouched, Fresh, Phase
<1>5. ReportIsTrue' /\ ScheduleFree'
  BY <1>1, NoReportYet, ReturnsEmpty DEF Prepare, Return, IInv, Shape
<1> QED
  BY <1>2, <1>3, <1>4, <1>5 DEF IInv

LEMMA StepPreflight == ASSUME IInv, Preflight PROVE IInv'
<1>1. Untouched /\ Shape
  BY EarlyIsUntouched DEF Preflight, IInv
<1>2. UNCHANGED <<Passed, Accepted, OverBudget>>
  BY InputsStay DEF Preflight
<1>3. Shape'
  <2>1. Len(applyList') \in Nat /\ applyList' \in {<<>>, Passed}
    BY <1>1, PassedLists, ListIsPassed DEF Preflight, Shape
  <2>2. next' = 1 /\ next' \in 1..(Len(applyList') + 1)
    BY <1>1, <2>1 DEF Preflight, Shape
  <2>3. CASE phase' = "budget"
    BY <1>1, <1>2, <2>1, <2>2, <2>3 DEF Preflight, Return, Shape, Phase, inputs, pool, Accepted
  <2>4. CASE phase' = "done"
    BY <1>1, <1>2, <2>1, <2>2, <2>4 DEF Preflight, Return, Shape, Phase, inputs, pool
  <2> QED
    BY <2>3, <2>4 DEF Preflight, Return
<1>4. \A i \in Images : Fresh(i)' /\ ImageOK(i)'
  BY <1>1, FreshIsOK DEF Preflight, Untouched, Fresh, pool
<1>5. ListOK'
  <2>1. \A k \in DOMAIN applyList' : applyList'[k] \in Images
    <3>1. applyList' \in {<<>>, Passed'}
      BY <1>3 DEF Shape
    <3> QED
      BY <3>1, <1>3, AscendingLists DEF Passed
  <2> QED
    BY <1>1, <1>4, <2>1 DEF ListOK, Preflight, Shape, Fresh
<1>6. RowsOK'
  BY <1>1 DEF RowsOK, Preflight, Return, Untouched
<1>7. ReportIsTrue' /\ ScheduleFree'
  BY <1>1, NoReportYet, ReturnsEmpty DEF Preflight, Return, Shape
<1> QED
  BY <1>3, <1>4, <1>5, <1>6, <1>7 DEF IInv

LEMMA StepCheckBudget == ASSUME IInv, CheckBudget PROVE IInv'
<1>1. Untouched /\ Shape /\ phase # "done" /\ ret = "none"
  BY EarlyIsUntouched DEF CheckBudget, IInv, Shape
<1>2. UNCHANGED <<Passed, Accepted, OverBudget>>
  BY InputsStay DEF CheckBudget
<1>3. Shape'
  BY <1>1, <1>2 DEF CheckBudget, Shape, Phase, inputs, pool
<1>4. \A i \in Images : Fresh(i)' /\ ImageOK(i)'
  BY <1>1, FreshIsOK DEF CheckBudget, Untouched, Fresh, pool
<1>5. ListOK'
  BY <1>1, <1>3, <1>4, ListIsPassed DEF IInv, ListOK, CheckBudget, Shape, Fresh
<1>6. RowsOK'
  <2>1. CASE OverBudget
    BY <1>1, <1>2, <2>1 DEF RowsOK, CheckBudget, Untouched
  <2>2. CASE ~OverBudget
    <3>1. rows' = <<>> /\ phase' = "apply"
      BY <1>1, <2>2 DEF CheckBudget, Untouched
    <3> QED
      BY <3>1 DEF RowsOK
  <2> QED
    BY <2>1, <2>2
<1>7. ReportIsTrue' /\ ScheduleFree'
  BY <1>1, NoReportYet DEF CheckBudget
<1> QED
  BY <1>3, <1>4, <1>5, <1>6, <1>7 DEF IInv
-----------------------------------------------------------------------------
(* The steps about one image.                                              *)

\* While images are applied every row is of an image.
LEMMA RowsAreOfImages ==
  ASSUME RowsOK, phase # "done", ~(phase = "report" /\ OverBudget)
  PROVE  /\ Len(rows) \in Nat
         /\ DOMAIN rows = 1..Len(rows)
         /\ \A k \in DOMAIN rows : rows[k] \in [image : Images, status : {"ok", "compose", "invariant"}]
<1> DEFINE Rec == [image : Images, status : {"ok", "compose", "invariant"}]
<1>1. rows \in Seq(Rec)
  BY DEF RowsOK
<1> HIDE DEF Rec
<1>2. Len(rows) \in Nat /\ DOMAIN rows = 1..Len(rows) /\ \A k \in 1..Len(rows) : rows[k] \in Rec
  BY <1>1
<1> QED
  BY <1>2 DEF Rec

\* An image a step is not about.
LEMMA Bystander ==
  ASSUME IInv, phase = "apply", NEW j \in Images, UNCHANGED <<inputs, applyList, phase>>,
         UNCHANGED <<pc[j], outcome[j], status[j], j \in submitted>>, HasRow(j)' <=> HasRow(j),
         cancelled => cancelled', stopped => stopped',
         next' \in Nat, next <= next', serial /\ pc[j] # "none" => next' = next
  PROVE  ImageOK(j)'
<1>1. Shape /\ ImageOK(j) /\ UNCHANGED <<Passed, Accepted, OverBudget>>
  BY InputsStay DEF IInv
<1>2. (Fresh(j) <=> Fresh(j)') /\ UNCHANGED <<serial, strict, fate, InTurn(j)>>
  BY DEF Fresh, InTurn, inputs
<1>3. Before(j) => Before(j)'
  <2>1. Len(applyList) \in Nat /\ DOMAIN applyList = 1..Len(applyList) /\ next \in Nat
    BY <1>1, ListIsPassed DEF Shape
  <2> QED
    BY <2>1 DEF Before
<1> QED
  BY <1>1, <1>2, <1>3 DEF ImageOK

LEMMA StepCompose == ASSUME IInv, NEW i \in Images, Compose(i) PROVE IInv'
<1>1. Shape /\ ImageOK(i) /\ RowsOK /\ ListOK
  BY DEF IInv
<1>2. /\ phase = "apply" /\ fate[i] \in {"ok", "compose", "invariant"} /\ outcome[i] = "none"
      /\ ret = "none" /\ ~HasRow(i) /\ ~Fresh(i)
  <2>1. phase = "apply" /\ fate[i] # "unread" /\ outcome[i] = "none" /\ ~Fresh(i)
    BY <1>1 DEF Compose, ImageOK, Fresh
  <2>2. ~(phase = "report" /\ OverBudget)
    BY <2>1
  <2> QED
    BY <1>1, <2>1, <2>2 DEF Shape, Fate, RowsOK, HasRow
<1>3. /\ UNCHANGED <<inputs, cancelled, phase, applyList, next, pool, rows, workdir, ret, HasRow(i)>>
      /\ UNCHANGED <<serial, strict, fate>>
      /\ pc' = [pc EXCEPT ![i] = "record"]
      /\ outcome' = [outcome EXCEPT ![i] = outcome'[i]]
      /\ outcome'[i] \in {"ok", "compose", "invariant"}
      /\ ~cancelled => outcome'[i] = fate[i]
  BY <1>1, <1>2 DEF Compose, Shape, HasRow, inputs
<1>4. UNCHANGED <<Passed, Accepted, OverBudget, status, submitted, stopped>>
  BY <1>3, InputsStay DEF pool
<1>5. Shape'
  BY <1>1, <1>3, <1>4 DEF Shape, Fate, inputs
<1>6. \A j \in Images : ImageOK(j)'
  <2> TAKE j \in Images
  <2>1. CASE j # i
    <3>1. UNCHANGED <<pc[j], outcome[j]>> /\ (HasRow(j)' <=> HasRow(j)) /\ next \in Nat
      BY <1>1, <1>3, <2>1, ListIsPassed DEF Shape, HasRow
    <3> QED
      BY <1>2, <1>3, <1>4, <3>1, Bystander DEF pool
  <2>2. CASE j = i
    <3>1. pc[i] = "compose" /\ pc'[i] = "record" /\ (InTurn(i) <=> InTurn(i)') /\ (Before(i) <=> Before(i)')
      BY <1>1, <1>3 DEF Compose, Shape, InTurn, Before
    <3> QED
      BY <1>1, <1>2, <1>3, <1>4, <2>2, <3>1 DEF ImageOK
  <2> QED
    BY <2>1, <2>2
<1>7. ListOK'
  <2>1. \A j \in Images : Fresh(j) => j # i /\ Fresh(j)'
    BY <1>1, <1>2, <1>3, <1>4 DEF Fresh, Shape
  <2>2. \A j \in Images : pc[j] = "none" <=> pc'[j] = "none"
    BY <1>1, <1>3 DEF Compose, Shape
  <2>3. \A j \in Images : outcome[j] # "none" => outcome'[j] # "none"
    BY <1>1, <1>3 DEF Shape
  <2>4. \A k \in DOMAIN applyList : applyList[k] \in Images
    BY <1>1, ListIsPassed DEF Shape
  <2> QED
    BY <1>1, <1>3, <1>4, <2>1, <2>2, <2>3, <2>4 DEF ListOK
<1>8. RowsOK'
  <2>1. \A k \in DOMAIN rows : rows[k].image # i
    BY <1>2 DEF HasRow
  <2>2. \A k \in DOMAIN rows : rows[k].image \in Images
    BY <1>1, <1>2, RowsAreOfImages
  <2>3. \A j \in Images : j # i => UNCHANGED <<pc[j], outcome[j]>>
    BY <1>1, <1>3 DEF Shape
  <2> QED
    BY <1>1, <1>2, <1>3, <1>4, <2>1, <2>2, <2>3 DEF RowsOK, Told
<1>9. ReportIsTrue' /\ ScheduleFree'
  BY <1>2, <1>3, NoReportYet
<1> QED
  BY <1>5, <1>6, <1>7, <1>8, <1>9 DEF IInv

\* The rows are those there were and one for image i.
OneMore(i, s) ==
  /\ rows' \in Seq([image : Images, status : {"ok", "compose", "invariant"}])
  /\ \A h, k \in DOMAIN rows' : rows'[h].image = rows'[k].image => h = k
  /\ \A k \in DOMAIN rows' : \/ rows'[k].image = i /\ rows'[k].status = s
                             \/ k \in DOMAIN rows /\ rows'[k] = rows[k] /\ rows[k].image # i
  /\ \A j \in Images : HasRow(j)' <=> HasRow(j) \/ j = i

\* A row is added for an image that had none.
LEMMA RowAdded ==
  ASSUME RowsOK, phase = "apply", NEW i \in Images, NEW s \in {"ok", "compose", "invariant"},
         ~HasRow(i), rows' = Append(rows, Row(i, s))
  PROVE  OneMore(i, s)
<1> DEFINE Rec == [image : Images, status : {"ok", "compose", "invariant"}]
<1>1. rows \in Seq(Rec) /\ \A h, k \in DOMAIN rows : rows[h].image = rows[k].image => h = k
  BY DEF RowsOK
<1>2. Row(i, s) \in Rec /\ Row(i, s).image = i /\ Row(i, s).status = s
  BY DEF Row
<1>3. DOMAIN rows = 1..Len(rows) /\ Len(rows) \in Nat
  BY RowsAreOfImages
<1>4. \A k \in DOMAIN rows : rows[k].image # i
  BY DEF HasRow
<1> HIDE DEF Rec
<1>5. /\ rows' \in Seq(Rec)
      /\ DOMAIN rows' = 1..(Len(rows) + 1)
      /\ \A k \in 1..Len(rows) : rows'[k] = rows[k]
      /\ rows'[Len(rows) + 1] = Row(i, s)
  BY <1>1, <1>2, <1>3
<1>6. \A k \in DOMAIN rows' : \/ rows'[k].image = i /\ rows'[k].status = s /\ k = Len(rows) + 1
                              \/ k \in DOMAIN rows /\ rows'[k] = rows[k] /\ rows[k].image # i
  BY <1>2, <1>3, <1>4, <1>5
<1>7. \A h, k \in DOMAIN rows' : rows'[h].image = rows'[k].image => h = k
  BY <1>1, <1>6
<1>8. \A j \in Images : HasRow(j)' <=> HasRow(j) \/ j = i
  BY <1>2, <1>3, <1>5, <1>6 DEF HasRow
<1> QED
  BY <1>5, <1>6, <1>7, <1>8 DEF Rec, OneMore

LEMMA StepRecord == ASSUME IInv, NEW i \in Images, Record(i) PROVE IInv'
<1>1. Shape /\ ImageOK(i) /\ RowsOK /\ ListOK
  BY DEF IInv
<1>2. /\ phase = "apply" /\ outcome[i] \in {"ok", "compose", "invariant"} /\ ret = "none"
      /\ ~HasRow(i) /\ ~Fresh(i)
  BY <1>1 DEF Record, ImageOK, Fresh, Shape
<1>3. /\ UNCHANGED <<inputs, cancelled, phase, applyList, next, pool, outcome, workdir, ret>>
      /\ UNCHANGED <<serial, strict, fate>>
      /\ pc' = [pc EXCEPT ![i] = "end"]
      /\ rows' = Append(rows, Row(i, outcome[i]))
  BY DEF Record, inputs
<1>4. UNCHANGED <<Passed, Accepted, OverBudget, status, submitted, stopped>>
  BY <1>3, InputsStay DEF pool
<1>5. Shape'
  BY <1>1, <1>3, <1>4 DEF Shape, inputs
<1>6. OneMore(i, outcome[i])
  <2>1. PICK s \in {"ok", "compose", "invariant"} : s = outcome[i]
    BY <1>2
  <2>2. rows' = Append(rows, Row(i, s))
    BY <1>3, <2>1
  <2>3. OneMore(i, s)
    BY <1>1, <1>2, <2>1, <2>2, RowAdded
  <2> QED
    BY <2>1, <2>3
<1>7. \A j \in Images : ImageOK(j)'
  <2> TAKE j \in Images
  <2>1. CASE j # i
    <3>1. UNCHANGED <<pc[j], outcome[j]>> /\ (HasRow(j)' <=> HasRow(j)) /\ next \in Nat
      BY <1>1, <1>3, <1>6, <2>1, ListIsPassed DEF Shape, OneMore
    <3> QED
      BY <1>2, <1>3, <1>4, <3>1, Bystander DEF pool
  <2>2. CASE j = i
    <3>1. /\ pc[i] = "record" /\ pc'[i] = "end" /\ HasRow(i)'
          /\ (InTurn(i) <=> InTurn(i)') /\ (Before(i) <=> Before(i)')
      BY <1>1, <1>3, <1>6 DEF Record, Shape, InTurn, Before, OneMore
    <3> QED
      BY <1>1, <1>2, <1>3, <1>4, <2>2, <3>1 DEF ImageOK
  <2> QED
    BY <2>1, <2>2
<1>8. ListOK'
  <2>1. \A j \in Images : Fresh(j) => j # i /\ Fresh(j)'
    BY <1>1, <1>2, <1>3, <1>4 DEF Fresh, Shape
  <2>2. \A j \in Images : pc[j] = "none" <=> pc'[j] = "none"
    BY <1>1, <1>3 DEF Record, Shape
  <2>3. \A k \in DOMAIN applyList : applyList[k] \in Images
    BY <1>1, ListIsPassed DEF Shape
  <2> QED
    BY <1>1, <1>3, <1>4, <2>1, <2>2, <2>3 DEF ListOK
<1>9. RowsOK'
  <2>1. \A j \in Images : (pc[j] # "record" => pc'[j] # "record") /\ pc'[i] = "end"
    BY <1>1, <1>3 DEF Shape
  <2>2. \A k \in DOMAIN rows : rows[k].image \in Images
    BY <1>1, <1>2, RowsAreOfImages
  <2>3. \A k \in DOMAIN rows' :
          LET j == rows'[k].image
          IN  outcome'[j] # "none" /\ pc'[j] # "record" /\ rows'[k].status = Told(outcome'[j])
    BY <1>1, <1>2, <1>3, <1>6, <2>1, <2>2 DEF RowsOK, Told, OneMore
  <2> QED
    BY <1>2, <1>3, <1>6, <2>3 DEF RowsOK, OneMore
<1>10. ReportIsTrue' /\ ScheduleFree'
  BY <1>2, <1>3, NoReportYet
<1> QED
  BY <1>5, <1>7, <1>8, <1>9, <1>10 DEF IInv
-----------------------------------------------------------------------------
(* The steps about the image whose turn it is.                             *)

\* Nothing has been done about it, and none runs when there is one worker.
LEMMA AtTurn ==
  ASSUME IInv, phase = "apply", Left, serial => pc[applyList[next]] = "none"
  PROVE  /\ applyList[next] \in Images
         /\ Fresh(applyList[next])
         /\ ~HasRow(applyList[next])
         /\ InTurn(applyList[next])
         /\ applyList = Passed /\ Accepted /\ ~OverBudget /\ ret = "none"
         /\ \A j \in Images : serial => pc[j] = "none"
         /\ next \in Nat /\ next \in DOMAIN applyList /\ DOMAIN applyList = 1..Len(applyList)
         /\ Len(applyList) \in Nat
         /\ \A h, k \in DOMAIN applyList : applyList[h] = applyList[k] => h = k
         /\ \A k \in DOMAIN applyList : applyList[k] \in Images
<1>1. Shape /\ ListOK /\ RowsOK /\ \A j \in Images : ImageOK(j)
  BY DEF IInv
<1>2. /\ applyList = Passed /\ Accepted /\ ~OverBudget /\ ret = "none"
      /\ DOMAIN applyList = 1..Len(applyList) /\ Len(applyList) \in Nat
      /\ \A h, k \in DOMAIN applyList : applyList[h] = applyList[k] => h = k
      /\ \A k \in DOMAIN applyList : applyList[k] \in Images
  BY <1>1, ListIsPassed DEF Shape
<1>3. next \in Nat /\ next \in DOMAIN applyList
  BY <1>1, <1>2 DEF Shape, Left
<1> DEFINE i == applyList[next]
<1>4. i \in Images /\ InTurn(i)
  BY <1>2, <1>3 DEF InTurn
<1>5. pc[i] = "none"
  <2> SUFFICES ASSUME ~serial, pc[i] # "none" PROVE FALSE
    OBVIOUS
  <2>1. status[i] = "running" /\ i \in submitted
    BY <1>1, <1>4 DEF ImageOK
  <2>2. Before(i)
    BY <1>1, <1>4, <2>1 DEF ImageOK
  <2> QED
    BY <1>2, <1>3, <2>2 DEF Before
<1>6. Fresh(i)
  BY <1>1, <1>3, <1>5 DEF ListOK
<1>7. ~HasRow(i)
  BY <1>1, <1>2, <1>6 DEF RowsOK, HasRow, Fresh
<1>8. \A j \in Images : serial => pc[j] = "none"
  BY <1>1, <1>5 DEF ImageOK
<1> QED
  BY <1>2, <1>3, <1>4, <1>6, <1>7, <1>8

\* Its estimate cannot be made.
LEMMA TurnUnread ==
  ASSUME IInv, phase = "apply", Left, NEW i \in Images, i = applyList[next],
         serial => pc[i] = "none", fate[i] = "unread", Unread(i),
         next' = next + 1 \/ (strict /\ next' = Len(applyList) + 1),
         UNCHANGED <<inputs, cancelled, phase, applyList, pool, pc, workdir, ret>>
  PROVE  IInv'
<1>1. Shape /\ ListOK /\ RowsOK /\ ImageOK(i)
  BY DEF IInv
<1>2. UNCHANGED <<Passed, Accepted, OverBudget, status, submitted, stopped, serial, strict, fate>>
  BY InputsStay DEF pool, inputs
<1>3. /\ Fresh(i) /\ ~HasRow(i) /\ InTurn(i)
      /\ applyList = Passed /\ Accepted /\ ~OverBudget /\ ret = "none"
      /\ \A j \in Images : serial => pc[j] = "none"
      /\ next \in Nat /\ next \in DOMAIN applyList /\ DOMAIN applyList = 1..Len(applyList)
      /\ Len(applyList) \in Nat
      /\ \A h, k \in DOMAIN applyList : applyList[h] = applyList[k] => h = k
      /\ \A k \in DOMAIN applyList : applyList[k] \in Images
  BY AtTurn
<1>4. next' \in 1..(Len(applyList) + 1) /\ next < next' /\ next' \in Nat
  BY <1>3
<1>5. outcome' = [outcome EXCEPT ![i] = "unread"] /\ OneMore(i, "compose")
  BY <1>1, <1>3, RowAdded DEF Unread
<1>6. Shape'
  BY <1>1, <1>2, <1>4, <1>5 DEF Shape, Fate, inputs
<1>7. \A j \in Images : ImageOK(j)'
  <2> TAKE j \in Images
  <2>1. CASE j # i
    <3>1. outcome'[j] = outcome[j] /\ (HasRow(j)' <=> HasRow(j))
      BY <1>1, <1>5, <2>1 DEF Shape, OneMore
    <3> QED
      BY <1>2, <1>3, <1>4, <3>1, Bystander
  <2>2. CASE j = i
    <3>1. pc'[i] = "none" /\ outcome'[i] = "unread" /\ HasRow(i)' /\ InTurn(i)' /\ status'[i] = "idle" /\ i \notin submitted'
      BY <1>1, <1>2, <1>3, <1>5 DEF Shape, OneMore, InTurn, Fresh
    <3> QED
      BY <1>2, <1>3, <2>2, <3>1 DEF ImageOK
  <2> QED
    BY <2>1, <2>2
<1>8. ListOK'
  <2>1. \A j \in Images : j # i /\ Fresh(j) => Fresh(j)'
    BY <1>1, <1>2, <1>5 DEF Fresh, Shape
  <2>2. \A j \in Images : outcome[j] # "none" => outcome'[j] # "none"
    BY <1>1, <1>5 DEF Shape
  <2>3. outcome'[i] # "none" /\ pc'[i] = "none"
    BY <1>1, <1>3, <1>5 DEF Shape, Fresh
  <2>4. ASSUME NEW k \in DOMAIN applyList
        PROVE  /\ k > next' => Fresh(applyList[k])'
               /\ k = next' => Fresh(applyList[k])'
               /\ k < next' => pc'[applyList[k]] = "none" \/ ~serial
               /\ k < next' /\ ~strict => outcome'[applyList[k]] # "none" \/ applyList[k] \in submitted
    <3>1. k > next => Fresh(applyList[k])'
      BY <1>1, <1>3, <2>1 DEF ListOK
    <3>2. k < next => (~strict => outcome'[applyList[k]] # "none" \/ applyList[k] \in submitted)
      BY <1>1, <1>3, <2>2 DEF ListOK
    <3>3. k < next \/ k = next \/ k > next
      BY <1>3
    <3> QED
      BY <1>3, <1>4, <2>3, <3>1, <3>2, <3>3
  <2> QED
    BY <1>2, <2>4 DEF ListOK
<1>9. RowsOK'
  <2>1. \A k \in DOMAIN rows : rows[k].image \in Images
    BY <1>1, <1>3, RowsAreOfImages
  <2>2. pc'[i] = "none" /\ outcome'[i] = "unread"
    BY <1>1, <1>3, <1>5 DEF Shape, Fresh
  <2>3. \A j \in Images : j # i => outcome'[j] = outcome[j]
    BY <1>1, <1>5 DEF Shape
  <2>4. \A k \in DOMAIN rows' :
          LET j == rows'[k].image
          IN  outcome'[j] # "none" /\ pc'[j] # "record" /\ rows'[k].status = Told(outcome'[j])
    BY <1>1, <1>3, <1>5, <2>1, <2>2, <2>3 DEF RowsOK, Told, OneMore
  <2> QED
    BY <1>5, <2>4 DEF RowsOK, OneMore
<1>10. ReportIsTrue' /\ ScheduleFree'
  BY <1>3, NoReportYet
<1> QED
  BY <1>6, <1>7, <1>8, <1>9, <1>10 DEF IInv

LEMMA StepInline == ASSUME IInv, Inline PROVE IInv'
<1>1. Shape /\ ListOK /\ RowsOK /\ \A j \in Images : ImageOK(j)
  BY DEF IInv
<1>2. phase = "apply" /\ serial /\ Left /\ pc[applyList[next]] = "none"
  BY DEF Inline
<1>3. PICK i \in Images :
        /\ i = applyList[next]
        /\ Fresh(i) /\ ~HasRow(i) /\ InTurn(i)
        /\ applyList = Passed /\ Accepted /\ ~OverBudget /\ ret = "none"
        /\ \A j \in Images : serial => pc[j] = "none"
        /\ next \in Nat /\ next \in DOMAIN applyList /\ DOMAIN applyList = 1..Len(applyList)
        /\ Len(applyList) \in Nat
        /\ \A h, k \in DOMAIN applyList : applyList[h] = applyList[k] => h = k
        /\ \A k \in DOMAIN applyList : applyList[k] \in Images
  BY <1>2, AtTurn
<1>4. UNCHANGED <<inputs, cancelled, applyList, pool, workdir, ret>>
  BY DEF Inline
<1>5. /\ UNCHANGED <<Passed, Accepted, OverBudget, status, submitted, stopped>>
      /\ UNCHANGED <<serial, strict, fate>>
  BY <1>4, InputsStay DEF pool, inputs
<1>6. CASE cancelled
  <2>1. phase' = "report" /\ UNCHANGED <<pc, outcome, rows, next>>
    BY <1>3, <1>6 DEF Inline
  <2>2. Shape'
    BY <1>1, <1>2, <1>4, <1>5, <2>1 DEF Shape, Phase, inputs
  <2>3. \A j \in Images : ImageOK(j)'
    <3> TAKE j \in Images
    <3>1. ImageOK(j) /\ pc[j] = "none" /\ j \notin submitted
      BY <1>1, <1>2, <1>3 DEF ImageOK
    <3>2. /\ Fresh(j)' <=> Fresh(j)
          /\ InTurn(j)' <=> InTurn(j)
          /\ HasRow(j)' <=> HasRow(j)
      BY <1>4, <1>5, <2>1 DEF Fresh, InTurn, HasRow
    <3> QED
      BY <1>2, <1>4, <1>5, <1>6, <2>1, <3>1, <3>2 DEF ImageOK
  <2>4. ListOK' /\ RowsOK'
    BY <1>1, <1>2, <1>3, <1>4, <1>5, <1>6, <2>1 DEF ListOK, RowsOK, Fresh
  <2> QED
    BY <1>3, <1>4, <2>2, <2>3, <2>4, NoReportYet DEF IInv
<1>7. CASE ~cancelled /\ fate[i] = "unread"
  <2>1. /\ Unread(i) /\ UNCHANGED <<pc, phase>>
        /\ next' = next + 1 \/ (strict /\ next' = Len(applyList) + 1)
    BY <1>3, <1>7 DEF Inline
  <2> QED
    BY <1>2, <1>3, <1>4, <1>7, <2>1, TurnUnread
<1>8. CASE ~cancelled /\ fate[i] # "unread"
  <2>1. pc' = [pc EXCEPT ![i] = "compose"] /\ UNCHANGED <<phase, outcome, rows, next>>
    BY <1>3, <1>8 DEF Inline
  <2>2. Shape'
    BY <1>1, <1>2, <1>4, <1>5, <2>1 DEF Shape, inputs
  <2>3. \A j \in Images : ImageOK(j)'
    <3> TAKE j \in Images
    <3>1. CASE j # i
      <4>1. pc'[j] = pc[j] /\ (HasRow(j)' <=> HasRow(j))
        BY <1>1, <2>1, <3>1 DEF Shape, HasRow
      <4> QED
        BY <1>2, <1>3, <1>4, <1>5, <2>1, <4>1, Bystander
    <3>2. CASE j = i
      <4>1. pc'[i] = "compose" /\ outcome'[i] = "none" /\ status'[i] = "idle" /\ i \notin submitted' /\ InTurn(i)'
        BY <1>1, <1>3, <1>4, <1>5, <2>1 DEF Shape, Fresh, InTurn
      <4> QED
        BY <1>2, <1>3, <1>4, <1>5, <1>8, <2>1, <3>2, <4>1 DEF ImageOK, Left
    <3> QED
      BY <3>1, <3>2
  <2>4. ListOK'
    <3>1. \A j \in Images : j # i => pc'[j] = pc[j] /\ (Fresh(j) => Fresh(j)')
      BY <1>1, <1>5, <2>1 DEF Shape, Fresh
    <3>2. pc'[i] # "none"
      BY <1>1, <1>3, <2>1 DEF Shape
    <3> QED
      BY <1>1, <1>2, <1>3, <1>4, <1>5, <2>1, <3>1, <3>2 DEF ListOK
  <2>5. RowsOK'
    <3>1. \A j \in Images : pc'[j] = "record" => pc[j] = "record"
      BY <1>1, <2>1 DEF Shape
    <3>2. \A k \in DOMAIN rows : rows[k].image \in Images
      BY <1>1, <1>2, RowsAreOfImages
    <3> QED
      BY <1>1, <1>2, <1>5, <2>1, <3>1, <3>2 DEF RowsOK
  <2> QED
    BY <1>3, <1>4, <2>2, <2>3, <2>4, <2>5, NoReportYet DEF IInv
<1> QED
  BY <1>6, <1>7, <1>8

LEMMA StepSubmit == ASSUME IInv, Submit PROVE IInv'
<1>1. Shape /\ ListOK /\ RowsOK /\ \A j \in Images : ImageOK(j)
  BY DEF IInv
<1>2. phase = "apply" /\ ~serial /\ Left
  BY DEF Submit
<1>3. PICK i \in Images :
        /\ i = applyList[next]
        /\ Fresh(i) /\ ~HasRow(i) /\ InTurn(i)
        /\ applyList = Passed /\ Accepted /\ ~OverBudget /\ ret = "none"
        /\ \A j \in Images : serial => pc[j] = "none"
        /\ next \in Nat /\ next \in DOMAIN applyList /\ DOMAIN applyList = 1..Len(applyList)
        /\ Len(applyList) \in Nat
        /\ \A h, k \in DOMAIN applyList : applyList[h] = applyList[k] => h = k
        /\ \A k \in DOMAIN applyList : applyList[k] \in Images
  BY <1>2, AtTurn
<1>4. /\ UNCHANGED <<inputs, cancelled, phase, applyList, status, stopped, pc, workdir, ret>>
      /\ next' = next + 1
  BY DEF Submit
<1>5. /\ UNCHANGED <<Passed, Accepted, OverBudget>>
      /\ UNCHANGED <<serial, strict, fate>>
  BY <1>4, InputsStay DEF inputs
<1>6. CASE fate[i] = "unread"
  <2>1. Unread(i) /\ UNCHANGED pool
    BY <1>3, <1>4, <1>6 DEF Submit, pool
  <2> QED
    BY <1>2, <1>3, <1>4, <1>6, <2>1, TurnUnread
<1>7. CASE fate[i] # "unread"
  <2>1. submitted' = submitted \cup {i} /\ UNCHANGED <<outcome, rows>>
    BY <1>3, <1>7 DEF Submit
  <2>2. Shape'
    BY <1>1, <1>2, <1>3, <1>4, <1>5, <2>1 DEF Shape, inputs
  <2>3. \A j \in Images : ImageOK(j)'
    <3> TAKE j \in Images
    <3>1. CASE j # i
      <4>1. (j \in submitted' <=> j \in submitted) /\ (HasRow(j)' <=> HasRow(j))
        BY <2>1, <3>1 DEF HasRow
      <4> QED
        BY <1>2, <1>3, <1>4, <2>1, <4>1, Bystander
    <3>2. CASE j = i
      <4>1. pc'[i] = "none" /\ outcome'[i] = "none" /\ status'[i] = "idle" /\ Before(i)' /\ InTurn(i)'
        BY <1>3, <1>4, <2>1 DEF Fresh, InTurn, Before
      <4> QED
        BY <1>2, <1>3, <1>4, <1>5, <1>7, <2>1, <3>2, <4>1 DEF ImageOK
    <3> QED
      BY <3>1, <3>2
  <2>4. ListOK'
    <3>1. \A j \in Images : j # i => (Fresh(j) => Fresh(j)')
      BY <1>4, <2>1 DEF Fresh
    <3>2. \A k \in DOMAIN applyList :
            /\ k > next' => Fresh(applyList[k])'
            /\ k = next' => Fresh(applyList[k])'
            /\ k < next' /\ ~strict => outcome'[applyList[k]] # "none" \/ applyList[k] \in submitted'
      <4> TAKE k \in DOMAIN applyList
      <4>1. k > next => Fresh(applyList[k])'
        BY <1>1, <1>3, <1>4, <3>1 DEF ListOK
      <4>2. k < next => (~strict => outcome'[applyList[k]] # "none" \/ applyList[k] \in submitted')
        BY <1>1, <1>3, <2>1 DEF ListOK
      <4>3. k < next \/ k = next \/ k > next
        BY <1>3
      <4> QED
        BY <1>3, <1>4, <2>1, <4>1, <4>2, <4>3
    <3> QED
      BY <1>2, <1>4, <1>5, <3>2 DEF ListOK
  <2>5. RowsOK'
    BY <1>1, <1>2, <1>4, <2>1 DEF RowsOK
  <2> QED
    BY <1>3, <1>4, <2>2, <2>3, <2>4, <2>5, NoReportYet DEF IInv
<1> QED
  BY <1>6, <1>7
-----------------------------------------------------------------------------
(* The steps of an image between the list and its composition.             *)

\* Where a running image is.
LEMMA RunningWhere ==
  ASSUME IInv, NEW i \in Images, pc[i] # "none"
  PROVE  /\ phase = "apply" /\ ret = "none" /\ next \in Nat /\ applyList = Passed
         /\ DOMAIN applyList = 1..Len(applyList) /\ Len(applyList) \in Nat
         /\ \A h, k \in DOMAIN applyList : applyList[h] = applyList[k] => h = k
         /\ \A k \in DOMAIN applyList : applyList[k] \in Images
         /\ serial => next <= Len(applyList) /\ applyList[next] = i /\ \A j \in Images : j # i => pc[j] = "none"
         /\ ~serial => Before(i) /\ i \in submitted /\ status[i] = "running"
<1>1. Shape /\ \A j \in Images : ImageOK(j)
  BY DEF IInv
<1>2. phase = "apply" /\ ret = "none" /\ applyList = Passed
  BY <1>1 DEF Shape, ImageOK, Fresh
<1>3. /\ DOMAIN applyList = 1..Len(applyList) /\ Len(applyList) \in Nat
      /\ \A h, k \in DOMAIN applyList : applyList[h] = applyList[k] => h = k
      /\ \A k \in DOMAIN applyList : applyList[k] \in Images
      /\ next \in Nat
  BY <1>1, ListIsPassed DEF Shape
<1>4. serial => next <= Len(applyList) /\ applyList[next] = i /\ \A j \in Images : j # i => pc[j] = "none"
  BY <1>1 DEF ImageOK
<1>5. ~serial => Before(i) /\ i \in submitted /\ status[i] = "running"
  BY <1>1 DEF ImageOK
<1> QED
  BY <1>2, <1>3, <1>4, <1>5

LEMMA StepAdvance == ASSUME IInv, NEW i \in Images, Advance(i) PROVE IInv'
<1>1. Shape /\ ListOK /\ RowsOK /\ ImageOK(i) /\ pc[i] = "end" /\ serial
  BY DEF IInv, Advance
<1>2. /\ phase = "apply" /\ ret = "none" /\ next \in Nat
      /\ DOMAIN applyList = 1..Len(applyList) /\ Len(applyList) \in Nat
      /\ \A h, k \in DOMAIN applyList : applyList[h] = applyList[k] => h = k
      /\ \A k \in DOMAIN applyList : applyList[k] \in Images
      /\ next <= Len(applyList) /\ applyList[next] = i /\ \A j \in Images : j # i => pc[j] = "none"
  BY <1>1, RunningWhere
<1>3. /\ pc' = [pc EXCEPT ![i] = "none"]
      /\ next' = next + 1 \/ (strict /\ next' = Len(applyList) + 1)
      /\ UNCHANGED <<inputs, cancelled, phase, applyList, pool, outcome, rows, workdir, ret>>
  BY DEF Advance
<1>4. /\ UNCHANGED <<Passed, Accepted, OverBudget, status, submitted, stopped>>
      /\ UNCHANGED <<serial, strict, fate>>
  BY <1>3, InputsStay DEF pool, inputs
<1>5. next' \in 1..(Len(applyList) + 1) /\ next < next' /\ next' \in Nat /\ next \in DOMAIN applyList
  BY <1>1, <1>2, <1>3 DEF Shape
<1>6. Shape'
  BY <1>1, <1>3, <1>4, <1>2, <1>5 DEF Shape, inputs
<1>7. \A j \in Images : pc'[j] = "none" /\ (HasRow(j)' <=> HasRow(j))
  BY <1>1, <1>2, <1>3 DEF Shape, HasRow
<1>8. \A j \in Images : ImageOK(j)'
  <2> TAKE j \in Images
  <2>1. CASE j # i
    <3>1. pc'[j] = pc[j] /\ pc[j] = "none"
      BY <1>2, <1>7, <2>1
    <3> QED
      BY <1>2, <1>3, <1>4, <1>5, <1>7, <3>1, Bystander
  <2>2. CASE j = i
    <3>1. (InTurn(i)' <=> InTurn(i)) /\ ~Fresh(i) /\ pc'[i] = "none"
      BY <1>1, <1>3, <1>7 DEF InTurn, Fresh
    <3> QED
      BY <1>1, <1>2, <1>3, <1>4, <1>7, <2>2, <3>1 DEF ImageOK
  <2> QED
    BY <2>1, <2>2
<1>9. ListOK'
  <2>1. \A j \in Images : j # i /\ Fresh(j) => Fresh(j)'
    BY <1>3, <1>4, <1>7 DEF Fresh
  <2>2. outcome[i] # "none"
    BY <1>1 DEF ImageOK
  <2>3. ASSUME NEW k \in DOMAIN applyList
        PROVE  /\ k > next' => Fresh(applyList[k])'
               /\ k = next' => Fresh(applyList[k])'
               /\ k < next' => pc'[applyList[k]] = "none"
               /\ k < next' /\ ~strict => outcome'[applyList[k]] # "none" \/ applyList[k] \in submitted'
    <3>1. k > next => Fresh(applyList[k])'
      BY <1>1, <1>2, <1>3, <1>5, <2>1 DEF ListOK
    <3>2. k < next => (~strict => outcome'[applyList[k]] # "none" \/ applyList[k] \in submitted')
      BY <1>1, <1>3, <1>4 DEF ListOK
    <3>3. k < next \/ k = next \/ k > next
      BY <1>2
    <3> QED
      BY <1>2, <1>3, <1>5, <1>7, <2>2, <3>1, <3>2, <3>3
  <2> QED
    BY <1>3, <1>4, <2>3 DEF ListOK
<1>10. RowsOK'
  <2>1. \A k \in DOMAIN rows : rows[k].image \in Images
    BY <1>1, <1>2, RowsAreOfImages
  <2> QED
    BY <1>1, <1>2, <1>3, <1>4, <1>7, <2>1 DEF RowsOK
<1> QED
  BY <1>2, <1>3, <1>6, <1>8, <1>9, <1>10, NoReportYet DEF IInv

LEMMA StepBegin == ASSUME IInv, NEW i \in Images, Begin(i) PROVE IInv'
<1>1. Shape /\ ListOK /\ RowsOK /\ ImageOK(i) /\ i \in submitted /\ status[i] = "idle"
  BY DEF IInv, Begin, Pool!Start
<1>2. /\ phase = "apply" /\ ~serial /\ ret = "none"
      /\ pc[i] = "none" /\ outcome[i] = "none" /\ fate[i] # "unread" /\ Before(i) /\ ~Fresh(i)
  BY <1>1 DEF ImageOK, Shape, Pool!Final, Fresh, Phase
<1>3. /\ pc' = [pc EXCEPT ![i] = "compose"]
      /\ status' = [status EXCEPT ![i] = "running"]
      /\ UNCHANGED <<inputs, cancelled, phase, applyList, next, submitted, outcome, rows, workdir, ret>>
      /\ UNCHANGED stopped
  BY DEF Begin, Pool!Start
<1>4. UNCHANGED <<Passed, Accepted, OverBudget, serial, strict, fate>>
  BY <1>3, InputsStay DEF inputs
<1>5. Shape'
  BY <1>1, <1>3, <1>4 DEF Shape, inputs
<1>6. \A j \in Images : HasRow(j)' <=> HasRow(j)
  BY <1>3 DEF HasRow
<1>7. /\ Len(applyList) \in Nat /\ next \in Nat /\ DOMAIN applyList = 1..Len(applyList)
      /\ \A k \in DOMAIN applyList : applyList[k] \in Images
      /\ \A h, k \in DOMAIN applyList : applyList[h] = applyList[k] => h = k
  BY <1>1, ListIsPassed DEF Shape
<1>8. \A j \in Images : ImageOK(j)'
  <2> TAKE j \in Images
  <2>1. CASE j # i
    <3>1. pc'[j] = pc[j] /\ status'[j] = status[j]
      BY <1>1, <1>3, <2>1 DEF Shape
    <3> QED
      BY <1>2, <1>3, <1>6, <1>7, <3>1, Bystander
  <2>2. CASE j = i
    <3>1. /\ InTurn(i)' <=> InTurn(i)
          /\ Before(i)' <=> Before(i)
          /\ pc'[i] = "compose" /\ status'[i] = "running" /\ outcome'[i] = "none"
      BY <1>1, <1>2, <1>3 DEF InTurn, Before, Shape
    <3> QED
      BY <1>1, <1>2, <1>3, <1>4, <1>6, <2>2, <3>1 DEF ImageOK
  <2> QED
    BY <2>1, <2>2
<1>9. ListOK'
  <2>1. \A j \in Images : Fresh(j) => j # i /\ Fresh(j)'
    BY <1>1, <1>2, <1>3 DEF Fresh, Shape
  <2>2. \A k \in DOMAIN applyList : k = next => applyList[k] # i
    BY <1>2, <1>7 DEF Before
  <2>3. \A j \in Images : j # i => (pc[j] # "none" => pc'[j] # "none")
    BY <1>1, <1>3 DEF Shape
  <2> QED
    BY <1>1, <1>2, <1>3, <1>4, <1>7, <2>1, <2>2, <2>3 DEF ListOK
<1>10. RowsOK'
  <2>1. \A k \in DOMAIN rows : rows[k].image \in Images
    BY <1>1, <1>2, RowsAreOfImages
  <2>2. \A j \in Images : pc'[j] = "record" => pc[j] = "record"
    BY <1>1, <1>3 DEF Shape
  <2> QED
    BY <1>1, <1>2, <1>3, <1>4, <2>1, <2>2 DEF RowsOK
<1> QED
  BY <1>2, <1>3, <1>5, <1>8, <1>9, <1>10, NoReportYet DEF IInv

LEMMA StepEnd == ASSUME IInv, NEW i \in Images, End(i) PROVE IInv'
<1>1. Shape /\ ListOK /\ RowsOK /\ ImageOK(i) /\ pc[i] = "end" /\ ~serial
  BY DEF IInv, End
<1>2. /\ phase = "apply" /\ ret = "none" /\ next \in Nat
      /\ DOMAIN applyList = 1..Len(applyList) /\ Len(applyList) \in Nat
      /\ \A h, k \in DOMAIN applyList : applyList[h] = applyList[k] => h = k
      /\ \A k \in DOMAIN applyList : applyList[k] \in Images
      /\ Before(i) /\ i \in submitted /\ ~Fresh(i) /\ outcome[i] # "none"
  BY <1>1, RunningWhere DEF ImageOK, Fresh
<1>3. /\ pc' = [pc EXCEPT ![i] = "none"]
      /\ UNCHANGED <<inputs, cancelled, phase, applyList, next, submitted, outcome, rows, workdir, ret>>
      /\ UNCHANGED <<serial, strict, fate>>
      /\ UNCHANGED stopped
  BY DEF End, Pool!Finish, inputs
<1>4. PICK r \in {"ok", "err"} :
        /\ status' = [status EXCEPT ![i] = r]
        /\ r = "err" => strict
  BY <1>1 DEF End, Pool!Finish, Shape
<1>5. UNCHANGED <<Passed, Accepted, OverBudget>>
  BY <1>3, InputsStay
<1>6. Shape'
  BY <1>1, <1>3, <1>4, <1>5 DEF Shape, inputs
<1>7. \A j \in Images : HasRow(j)' <=> HasRow(j)
  BY <1>3 DEF HasRow
<1>8. \A j \in Images : ImageOK(j)'
  <2> TAKE j \in Images
  <2>1. CASE j # i
    <3>1. pc'[j] = pc[j] /\ status'[j] = status[j]
      BY <1>1, <1>3, <1>4, <2>1 DEF Shape
    <3> QED
      BY <1>2, <1>3, <1>7, <3>1, Bystander
  <2>2. CASE j = i
    <3>1. /\ InTurn(i)' <=> InTurn(i)
          /\ Before(i)' <=> Before(i)
          /\ pc'[i] = "none" /\ status'[i] = r
      BY <1>1, <1>3, <1>4 DEF InTurn, Before, Shape
    <3> QED
      BY <1>1, <1>2, <1>3, <1>4, <1>5, <1>7, <2>2, <3>1 DEF ImageOK
  <2> QED
    BY <2>1, <2>2
<1>9. ListOK'
  <2>1. \A j \in Images : Fresh(j) => j # i /\ Fresh(j)'
    BY <1>1, <1>2, <1>3, <1>4 DEF Fresh, Shape
  <2>2. \A k \in DOMAIN applyList : k = next => applyList[k] # i
    BY <1>2 DEF Before
  <2>3. \A j \in Images : j # i => (pc[j] # "none" => pc'[j] # "none")
    BY <1>1, <1>3 DEF Shape
  <2> QED
    BY <1>1, <1>2, <1>3, <2>1, <2>2, <2>3 DEF ListOK
<1>10. RowsOK'
  <2>1. \A k \in DOMAIN rows : rows[k].image \in Images
    BY <1>1, <1>2, RowsAreOfImages
  <2>2. \A j \in Images : pc'[j] = "record" => pc[j] = "record"
    BY <1>1, <1>3 DEF Shape
  <2> QED
    BY <1>1, <1>2, <1>3, <1>5, <2>1, <2>2 DEF RowsOK
<1> QED
  BY <1>2, <1>3, <1>6, <1>8, <1>9, <1>10, NoReportYet DEF IInv
-----------------------------------------------------------------------------
(* The steps about the run.                                                *)

\* Nothing but the context or the pool changes.
LEMMA OnlyStopped ==
  ASSUME IInv, UNCHANGED <<inputs, phase, applyList, next, pc, outcome, rows, workdir, ret>>,
         UNCHANGED <<status, submitted>>,
         cancelled' \in BOOLEAN, stopped' \in BOOLEAN,
         cancelled => cancelled', stopped => stopped', stopped' /\ ~strict => cancelled'
  PROVE  IInv'
<1>1. UNCHANGED <<Passed, Accepted, OverBudget, serial, strict, fate, verdict, Skipped>>
  BY InputsStay DEF inputs
<1>2. Shape'
  BY <1>1 DEF IInv, Shape, inputs
<1>3. \A j \in Images : ImageOK(j)'
  <2> TAKE j \in Images
  <2>1. /\ Fresh(j)' <=> Fresh(j)
        /\ InTurn(j)' <=> InTurn(j)
        /\ Before(j)' <=> Before(j)
        /\ HasRow(j)' <=> HasRow(j)
    BY DEF Fresh, InTurn, Before, HasRow
  <2> QED
    BY <1>1, <2>1 DEF IInv, ImageOK
<1>4. ListOK'
  <2>1. \A j \in Images : Fresh(j)' <=> Fresh(j)
    BY DEF Fresh
  <2>2. \A k \in DOMAIN applyList : applyList[k] \in Images
    BY ListIsPassed DEF IInv, Shape
  <2> QED
    BY <1>1, <2>1, <2>2 DEF IInv, ListOK
<1>5. RowsOK'
  BY <1>1 DEF IInv, RowsOK
<1>6. ReportIsTrue' /\ ScheduleFree'
  BY <1>1 DEF IInv, ReportIsTrue, ReportedOnce, SuccessIffApplied, ScheduleFree, Attempted, Determined
<1> QED
  BY <1>2, <1>3, <1>4, <1>5, <1>6 DEF IInv

LEMMA StepCancel == ASSUME IInv, Cancel PROVE IInv'
<1>1. UNCHANGED <<status, submitted, stopped, strict>>
  BY DEF Cancel, pool, inputs
<1>2. stopped' \in BOOLEAN /\ (stopped' /\ ~strict => cancelled') /\ cancelled' = TRUE
  BY <1>1 DEF Cancel, IInv, Shape
<1> QED
  BY <1>1, <1>2, OnlyStopped DEF Cancel

LEMMA StepStopPool == ASSUME IInv, StopPool PROVE IInv'
<1>1. stopped' = TRUE /\ UNCHANGED <<status, submitted, strict, cancelled>>
  BY DEF StopPool, Pool!Stop, inputs
<1>2. ~strict => cancelled
  BY DEF StopPool, IInv, ImageOK, Shape
<1>3. cancelled \in BOOLEAN
  BY DEF IInv, Shape
<1> QED
  BY <1>1, <1>2, <1>3, OnlyStopped DEF StopPool

LEMMA StepStutter == ASSUME IInv, UNCHANGED vars PROVE IInv'
<1>1. UNCHANGED <<status, submitted, stopped, strict, cancelled>>
  BY DEF vars, pool, inputs
<1>2. cancelled \in BOOLEAN /\ stopped \in BOOLEAN /\ (stopped /\ ~strict => cancelled)
  BY DEF IInv, Shape
<1> QED
  BY <1>1, <1>2, OnlyStopped DEF vars

LEMMA StepTurnAway == ASSUME IInv, NEW i \in Images, TurnAway(i) PROVE IInv'
<1>1. /\ Shape /\ ListOK /\ RowsOK /\ ImageOK(i)
      /\ i \in submitted /\ status[i] = "idle" /\ stopped
  BY DEF IInv, TurnAway, Pool!Skip
<1>2. /\ phase = "apply" /\ ~serial /\ ret = "none"
      /\ pc[i] = "none" /\ outcome[i] = "none" /\ Before(i) /\ ~Fresh(i)
  BY <1>1 DEF ImageOK, Shape, Pool!Final, Fresh, Phase
<1>3. /\ status' = [status EXCEPT ![i] = "ctx"]
      /\ UNCHANGED <<inputs, cancelled, phase, applyList, next, submitted, pc, outcome, rows, workdir, ret>>
      /\ UNCHANGED <<serial, strict, fate>>
      /\ UNCHANGED stopped
  BY DEF TurnAway, Pool!Skip, inputs
<1>4. UNCHANGED <<Passed, Accepted, OverBudget>>
  BY <1>3, InputsStay
<1>5. Shape'
  BY <1>1, <1>3, <1>4 DEF Shape, inputs
<1>6. \A j \in Images : HasRow(j)' <=> HasRow(j)
  BY <1>3 DEF HasRow
<1>7. /\ next \in Nat /\ \A k \in DOMAIN applyList : applyList[k] \in Images
  BY <1>1, ListIsPassed DEF Shape
<1>8. \A j \in Images : ImageOK(j)'
  <2> TAKE j \in Images
  <2>1. CASE j # i
    <3>1. pc'[j] = pc[j] /\ status'[j] = status[j]
      BY <1>1, <1>3, <2>1 DEF Shape
    <3> QED
      BY <1>2, <1>3, <1>6, <1>7, <3>1, Bystander
  <2>2. CASE j = i
    <3>1. /\ InTurn(i)' <=> InTurn(i)
          /\ Before(i)' <=> Before(i)
          /\ pc'[i] = "none" /\ status'[i] = "ctx" /\ outcome'[i] = "none"
      BY <1>1, <1>2, <1>3 DEF InTurn, Before, Shape
    <3> QED
      BY <1>1, <1>2, <1>3, <1>4, <1>6, <2>2, <3>1 DEF ImageOK
  <2> QED
    BY <2>1, <2>2
<1>9. ListOK'
  <2>1. \A j \in Images : Fresh(j) => Fresh(j)'
    BY <1>1, <1>2, <1>3 DEF Fresh, Shape
  <2> QED
    BY <1>1, <1>3, <1>7, <2>1 DEF ListOK
<1>10. RowsOK'
  BY <1>1, <1>2, <1>3, <1>4 DEF RowsOK
<1> QED
  BY <1>2, <1>3, <1>5, <1>8, <1>9, <1>10, NoReportYet DEF IInv

LEMMA StepWait == ASSUME IInv, Wait PROVE IInv'
<1>1. Shape /\ ListOK /\ RowsOK /\ \A j \in Images : ImageOK(j)
  BY DEF IInv
<1>2. /\ phase = "apply" /\ phase' = "report" /\ ret = "none" /\ ~OverBudget
      /\ UNCHANGED <<inputs, cancelled, applyList, next, pool, pc, outcome, rows, workdir, ret>>
      /\ \A j \in submitted : status[j] \in Pool!Final
  BY <1>1 DEF Wait, Shape
<1>3. UNCHANGED <<Passed, Accepted, OverBudget, status, submitted, stopped, serial, strict, fate>>
  BY <1>2, InputsStay DEF inputs, pool
<1>4. /\ Len(applyList) \in Nat /\ next = Len(applyList) + 1 /\ DOMAIN applyList = 1..Len(applyList)
      /\ \A k \in DOMAIN applyList : applyList[k] \in Images
  BY <1>1, ListIsPassed DEF Shape, Wait, Left
<1>5. \A j \in Images : pc[j] = "none"
  BY <1>1, <1>2, <1>4 DEF ImageOK, Pool!Final
<1>6. Shape'
  BY <1>1, <1>2, <1>3 DEF Shape, Phase, inputs
<1>7. \A j \in Images : ImageOK(j)'
  <2> TAKE j \in Images
  <2>1. /\ Fresh(j)' <=> Fresh(j)
        /\ InTurn(j)' <=> InTurn(j)
        /\ Before(j)' <=> Before(j)
        /\ HasRow(j)' <=> HasRow(j)
    BY <1>2, <1>3 DEF Fresh, InTurn, Before, HasRow
  <2> QED
    BY <1>1, <1>2, <1>3, <1>5, <2>1 DEF ImageOK
<1>8. ListOK'
  <2>1. \A j \in Images : Fresh(j)' <=> Fresh(j)
    BY <1>2, <1>3 DEF Fresh
  <2> QED
    BY <1>1, <1>2, <1>3, <1>4, <2>1 DEF ListOK
<1>9. RowsOK'
  <2>1. ASSUME ~strict, ~cancelled, NEW k \in DOMAIN applyList PROVE outcome[applyList[k]] # "none"
    <3>1. outcome[applyList[k]] # "none" \/ applyList[k] \in submitted
      BY <1>1, <1>4, <2>1 DEF ListOK
    <3>2. \A j \in submitted : outcome[j] # "none"
      BY <1>1, <1>2, <2>1 DEF ImageOK, Shape, Pool!Final
    <3> QED
      BY <3>1, <3>2
  <2> QED
    BY <1>1, <1>2, <1>3, <2>1 DEF RowsOK
<1> QED
  BY <1>2, <1>6, <1>7, <1>8, <1>9, NoReportYet DEF IInv
-----------------------------------------------------------------------------
(* The report.                                                             *)

\* The report's rows are the images' rows, each once.
LEMMA SortedRows ==
  ASSUME applyList = Passed, NEW n \in Nat, DOMAIN rows = 1..n
  PROVE  \E f \in [1..n -> 1..n] :
           /\ \A h \in 1..n : \E p \in 1..n : f[p] = h
           /\ \A p, q \in 1..n : f[p] = f[q] => p = q
           /\ \A p \in 1..n : Cardinality(Below(1..n, Lower(rows), f[p])) = p - 1
           /\ Sorted(rows) = [p \in 1..n |-> rows[f[p]]]
<1> DEFINE f == InOrder(1..n, Lower(rows))
<1>1. IsFiniteSet(1..n) /\ Cardinality(1..n) = n
  <2>1. IsFiniteSet(1..n) /\ Cardinality(1..n) = IF 1 > n THEN 0 ELSE n - 1 + 1
    BY FS_Interval
  <2> QED
    BY <2>1
<1>2. StrictOrder(1..n, Lower(rows))
  <2>1. \A i : Rank(i) \in Nat
    <3>1. DOMAIN applyList = 1..Len(applyList) /\ Len(applyList) \in Nat
      BY PassedLists
    <3> QED
      BY <3>1 DEF Rank
  <2> DEFINE rank(k) == Rank(rows[k].image)
  <2>2. \A k \in 1..n : rank(k) \in Nat
    BY <2>1
  <2>3. Lower(rows) = {e \in (1..n) \X (1..n) : \/ rank(e[1]) < rank(e[2])
                                                \/ rank(e[1]) = rank(e[2]) /\ e[1] < e[2]}
    BY DEF Lower
  <2> HIDE DEF rank
  <2> QED
    BY <2>2, <2>3 DEF StrictOrder
<1>3. Sorted(rows) = [p \in 1..n |-> rows[f[p]]]
  BY DEF Sorted
<1> HIDE DEF f
<1>4. /\ f \in [1..n -> 1..n]
      /\ \A h \in 1..n : \E p \in 1..n : f[p] = h
      /\ \A p, q \in 1..n : f[p] = f[q] => p = q
      /\ \A p \in 1..n : Cardinality(Below(1..n, Lower(rows), f[p])) = p - 1
  <2>1. PICK D, R : D = 1..n /\ R = Lower(rows)
    OBVIOUS
  <2>2. IsFiniteSet(D) /\ StrictOrder(D, R) /\ Cardinality(D) = n
    BY <1>1, <1>2, <2>1
  <2>3. /\ InOrder(D, R) \in [1..Cardinality(D) -> D]
        /\ \A x \in D : \E p \in 1..Cardinality(D) : InOrder(D, R)[p] = x
        /\ \A p, q \in 1..Cardinality(D) : InOrder(D, R)[p] = InOrder(D, R)[q] => p = q
        /\ \A p \in 1..Cardinality(D) : Cardinality(Below(D, R, InOrder(D, R)[p])) = p - 1
    BY <2>2, InOrderLists
  <2>4. f = InOrder(D, R)
    BY <2>1 DEF f
  <2> QED
    BY <2>1, <2>2, <2>3, <2>4
<1> QED
  BY <1>3, <1>4

\* The rows of the images that failed the scan.
LEMMA SkippedRows ==
  \E m \in Nat :
    /\ Skipped \in Seq([image : Images, status : {"skip"}])
    /\ Len(Skipped) = m
    /\ \A k \in 1..m : verdict[Skipped[k].image] = "skip"
    /\ \A h, k \in 1..m : Skipped[h].image = Skipped[k].image => h = k
<1> DEFINE S == {i \in Images : verdict[i] = "skip"}
           m == Cardinality(S)
           names == Ascending(S)
<1>1. /\ m \in Nat
      /\ names \in [1..m -> S]
      /\ \A p, q \in 1..m : names[p] = names[q] => p = q
  BY AscendingLists
<1>2. S \subseteq Images /\ \A i \in S : verdict[i] = "skip"
  OBVIOUS
<1>3. Skipped = [k \in DOMAIN names |-> Row(names[k], "skip")]
  BY DEF Skipped
<1> HIDE DEF S, m, names
<1>4. /\ Skipped = [k \in 1..m |-> Row(names[k], "skip")]
      /\ \A k \in 1..m : Row(names[k], "skip") \in [image : Images, status : {"skip"}]
  BY <1>1, <1>2, <1>3 DEF Row
<1>5. Skipped \in Seq([image : Images, status : {"skip"}]) /\ Len(Skipped) = m
  BY <1>1, <1>4
<1>6. \A k \in 1..m : Skipped[k].image = names[k]
  BY <1>4 DEF Row
<1> QED
  BY <1>1, <1>2, <1>5, <1>6

\* g numbers the elements of S from 1 to m.
Numbers(g, S, m) ==
  /\ g \in [S -> 1..m]
  /\ \A h, k \in S : g[h] = g[k] => h = k
  /\ \A r \in 1..m : \E k \in S : g[k] = r

Numbered(g, S, r) == {k \in S : g[k] < r}

\* In a numbering, r - 1 elements come before the one of number r.
LEMMA CountBelow ==
  ASSUME NEW S, NEW m \in Nat, NEW g, Numbers(g, S, m)
  PROVE  /\ IsFiniteSet(S) /\ Cardinality(S) = m
         /\ \A r \in 1..m : Cardinality(Numbered(g, S, r)) = r - 1
<1>1. ASSUME NEW q \in Nat PROVE IsFiniteSet(1..q) /\ Cardinality(1..q) = q
  <2>1. IsFiniteSet(1..q) /\ Cardinality(1..q) = IF 1 > q THEN 0 ELSE q - 1 + 1
    BY FS_Interval
  <2> QED
    BY <2>1
<1>2. ASSUME NEW T, NEW q \in Nat, NEW f, Numbers(f, T, q)
      PROVE  IsFiniteSet(T) /\ Cardinality(T) = q
  <2>1. f \in Injection(T, 1..q) /\ f \in Surjection(T, 1..q)
    BY <1>2 DEF Injection, Surjection, IsInjective, Numbers
  <2> QED
    BY <1>1, <2>1, FS_Injection
<1>3. ASSUME NEW r \in 1..m PROVE Cardinality(Numbered(g, S, r)) = r - 1
  <2> DEFINE T == Numbered(g, S, r)
             f == [k \in T |-> g[k]]
  <2>1. r - 1 \in Nat
    OBVIOUS
  <2>2. f \in [T -> 1..(r - 1)]
    BY DEF Numbered, Numbers
  <2>3. \A h, k \in T : f[h] = f[k] => h = k
    BY DEF Numbered, Numbers
  <2>4. \A q \in 1..(r - 1) : \E k \in T : f[k] = q
    <3> TAKE q \in 1..(r - 1)
    <3>1. PICK k \in S : g[k] = q
      BY DEF Numbers
    <3>2. k \in T /\ f[k] = q
      BY <3>1 DEF Numbered
    <3> QED
      BY <3>2
  <2>5. Numbers(f, T, r - 1)
    BY <2>2, <2>3, <2>4 DEF Numbers
  <2> HIDE DEF T, f
  <2>6. Cardinality(T) = r - 1
    BY <1>2, <2>1, <2>5
  <2> QED
    BY <2>6 DEF T
<1> QED
  BY <1>2, <1>3

\* The rows as the report finds them.
RowsReady(n) ==
  /\ n \in Nat
  /\ DOMAIN rows = 1..n
  /\ \A h, k \in 1..n : rows[h].image = rows[k].image => h = k
  /\ \A k \in 1..n : rows[k].image \in Images => verdict[rows[k].image] = "ok"
  /\ \A i \in Images : outcome[i] # "none" =>
       /\ verdict[i] = "ok"
       /\ \E k \in 1..n : rows[k] = Row(i, Told(outcome[i]))
  /\ \A k \in 1..n : rows[k].status = "ok" => \E i \in Images : outcome[i] = "ok"

LEMMA ReportFindsRows ==
  ASSUME IInv, phase = "report" PROVE \E n \in Nat : RowsReady(n)
<1>1. Shape /\ RowsOK /\ \A i \in Images : ImageOK(i) /\ pc[i] = "none"
  BY DEF IInv, ImageOK
<1>2. /\ DOMAIN applyList = 1..Len(applyList)
      /\ \A k \in DOMAIN applyList : applyList[k] \in Images /\ verdict[applyList[k]] = "ok"
  BY <1>1, ListIsPassed DEF Shape
<1>3. \A i \in Images : outcome[i] # "none" => verdict[i] = "ok" /\ ~OverBudget /\ HasRow(i)
  BY <1>1, <1>2 DEF ImageOK, Fresh, InTurn
<1>4. CASE OverBudget
  <2>1. rows = <<Row(BudgetSentinel, "compose")>>
    BY <1>1, <1>4 DEF RowsOK
  <2>2. DOMAIN rows = 1..1 /\ rows[1].image = 0 /\ rows[1].status = "compose"
    BY <2>1 DEF Row, BudgetSentinel
  <2>3. \A k \in 1..1 : k = 1
    OBVIOUS
  <2>4. 0 \notin Images
    BY NAssumption DEF Images
  <2>5. RowsReady(1)
    BY <1>3, <1>4, <2>2, <2>3, <2>4 DEF RowsReady
  <2> QED
    BY <2>5
<1>5. CASE ~OverBudget
  <2>1. PICK n \in Nat :
          /\ n = Len(rows)
          /\ DOMAIN rows = 1..n
          /\ \A k \in 1..n : rows[k] \in [image : Images, status : {"ok", "compose", "invariant"}]
    BY <1>1, <1>5, RowsAreOfImages
  <2>2. /\ \A h, k \in 1..n : rows[h].image = rows[k].image => h = k
        /\ \A k \in 1..n : /\ rows[k].image \in Images
                           /\ outcome[rows[k].image] # "none"
                           /\ rows[k].status = Told(outcome[rows[k].image])
    BY <1>1, <1>5, <2>1 DEF RowsOK
  <2>3. ASSUME NEW i \in Images, outcome[i] # "none"
        PROVE  verdict[i] = "ok" /\ \E k \in 1..n : rows[k] = Row(i, Told(outcome[i]))
    <3>1. PICK k \in 1..n : rows[k].image = i
      BY <1>3, <2>1, <2>3 DEF HasRow
    <3>2. rows[k] = Row(i, Told(outcome[i]))
      BY <2>1, <2>2, <3>1 DEF Row
    <3> QED
      BY <1>3, <2>3, <3>2
  <2>4. \A k \in 1..n : rows[k].status = "ok" => \E i \in Images : outcome[i] = "ok"
    BY <2>2 DEF Told
  <2>5. \A k \in 1..n : verdict[rows[k].image] = "ok"
    BY <1>3, <2>2
  <2>6. RowsReady(n)
    BY <2>1, <2>2, <2>3, <2>4, <2>5 DEF RowsReady
  <2> QED
    BY <2>6
<1> QED
  BY <1>4, <1>5

\* No two rows of a list are of one image of W.
Distinct(s, W) ==
  \A h, k \in DOMAIN s : s[h].image \in W /\ s[h].image = s[k].image => h = k

Apart(s, t, W) ==
  \A h \in DOMAIN s, k \in DOMAIN t :
    s[h].image \in W /\ t[k].image \in W => s[h].image # t[k].image

LEMMA DistinctJoined ==
  ASSUME NEW X, NEW s \in Seq(X), NEW t \in Seq(X), NEW W, Distinct(s, W), Distinct(t, W),
         Apart(s, t, W)
  PROVE  /\ Distinct(s \o t, W)
         /\ Len(s \o t) \in Nat
         /\ DOMAIN (s \o t) = 1..Len(s \o t)
         /\ \A k \in DOMAIN s : k \in DOMAIN (s \o t) /\ (s \o t)[k] = s[k]
<1> DEFINE r == s \o t
<1>1. /\ Len(s) \in Nat /\ Len(t) \in Nat /\ DOMAIN s = 1..Len(s) /\ DOMAIN t = 1..Len(t)
      /\ Len(r) = Len(s) + Len(t) /\ DOMAIN r = 1..(Len(s) + Len(t))
      /\ \A k \in 1..(Len(s) + Len(t)) : r[k] = IF k <= Len(s) THEN s[k] ELSE t[k - Len(s)]
  BY ConcatProperties
<1> HIDE DEF r
<1>2. ASSUME NEW h \in DOMAIN r, NEW k \in DOMAIN r, r[h].image \in W, r[h].image = r[k].image
      PROVE  h = k
  <2>1. CASE h <= Len(s) /\ k <= Len(s)
    <3>1. h \in DOMAIN s /\ k \in DOMAIN s /\ r[h] = s[h] /\ r[k] = s[k]
      BY <1>1, <2>1
    <3> QED
      BY <1>2, <3>1 DEF Distinct
  <2>2. CASE h > Len(s) /\ k > Len(s)
    <3>1. /\ h - Len(s) \in DOMAIN t /\ k - Len(s) \in DOMAIN t
          /\ r[h] = t[h - Len(s)] /\ r[k] = t[k - Len(s)]
      BY <1>1, <2>2
    <3>2. h - Len(s) = k - Len(s)
      BY <1>2, <3>1 DEF Distinct
    <3> QED
      BY <1>1, <3>2
  <2>3. CASE h <= Len(s) /\ k > Len(s)
    <3>1. h \in DOMAIN s /\ k - Len(s) \in DOMAIN t /\ r[h] = s[h] /\ r[k] = t[k - Len(s)]
      BY <1>1, <2>3
    <3> QED
      BY <1>2, <3>1 DEF Apart
  <2>4. CASE h > Len(s) /\ k <= Len(s)
    <3>1. k \in DOMAIN s /\ h - Len(s) \in DOMAIN t /\ r[k] = s[k] /\ r[h] = t[h - Len(s)]
      BY <1>1, <2>4
    <3> QED
      BY <1>2, <3>1 DEF Apart
  <2> QED
    BY <1>1, <2>1, <2>2, <2>3, <2>4
<1>3. Distinct(r, W)
  BY <1>2 DEF Distinct
<1> QED
  BY <1>1, <1>3 DEF r

\* The report, put in order and completed with the images that failed the scan.
LEMMA ReportedRows ==
  ASSUME applyList = Passed, NEW n \in Nat, RowsReady(n)
  PROVE  /\ Distinct(Sorted(rows) \o Skipped, Images)
         /\ \A i \in Images : outcome[i] # "none" =>
              \E k \in DOMAIN (Sorted(rows) \o Skipped) :
                (Sorted(rows) \o Skipped)[k] = Row(i, Told(outcome[i]))
<1>1. /\ DOMAIN rows = 1..n
      /\ \A h, k \in 1..n : rows[h].image = rows[k].image => h = k
      /\ \A k \in 1..n : rows[k].image \in Images => verdict[rows[k].image] = "ok"
      /\ \A i \in Images : outcome[i] # "none" =>
           \E k \in 1..n : rows[k] = Row(i, Told(outcome[i]))
  BY DEF RowsReady
<1>2. PICK f \in [1..n -> 1..n] :
        /\ \A h \in 1..n : \E p \in 1..n : f[p] = h
        /\ \A p, q \in 1..n : f[p] = f[q] => p = q
        /\ Sorted(rows) = [p \in 1..n |-> rows[f[p]]]
  BY <1>1, SortedRows
<1>3. PICK l \in Nat :
        /\ Skipped \in Seq([image : Images, status : {"skip"}])
        /\ Len(Skipped) = l
        /\ \A k \in 1..l : verdict[Skipped[k].image] = "skip"
        /\ \A h, k \in 1..l : Skipped[h].image = Skipped[k].image => h = k
  BY SkippedRows
<1>4. PICK X, s, t :
        /\ s = Sorted(rows) /\ t = Skipped
        /\ X = {rows[k] : k \in 1..n} \cup [image : Images, status : {"skip"}]
  OBVIOUS
<1>5. s = [p \in 1..n |-> rows[f[p]]] /\ s \in Seq(X) /\ Distinct(s, Images)
  <2>1. s = [p \in 1..n |-> rows[f[p]]] /\ \A p \in 1..n : rows[f[p]] \in X
    BY <1>2, <1>4
  <2>2. s \in Seq(X)
    BY <2>1
  <2>3. \A h, k \in 1..n : s[h].image = s[k].image => f[h] = f[k]
    BY <1>1, <1>2, <2>1
  <2>4. DOMAIN s = 1..n /\ \A h, k \in 1..n : s[h].image = s[k].image => h = k
    BY <1>2, <2>1, <2>3
  <2> QED
    BY <2>1, <2>2, <2>4 DEF Distinct
<1>6. t \in Seq(X) /\ DOMAIN t = 1..l /\ Distinct(t, Images)
  <2>1. PICK Y : Y = [image : Images, status : {"skip"}]
    OBVIOUS
  <2>2. t \in Seq(Y) /\ Y \subseteq X /\ Len(t) = l
    BY <1>3, <1>4, <2>1
  <2>3. t \in Seq(X) /\ DOMAIN t = 1..l
    BY <1>3, <2>2
  <2> QED
    BY <1>3, <1>4, <2>3 DEF Distinct
<1>7. Apart(s, t, Images)
  <2>1. \A h \in 1..n : s[h].image \in Images => verdict[s[h].image] = "ok"
    BY <1>1, <1>2, <1>5
  <2>2. \A k \in 1..l : verdict[t[k].image] = "skip"
    BY <1>3, <1>4
  <2>3. DOMAIN s = 1..n /\ DOMAIN t = 1..l
    BY <1>5, <1>6
  <2>4. ASSUME NEW h \in 1..n, NEW k \in 1..l, s[h].image \in Images PROVE s[h].image # t[k].image
    BY <2>1, <2>2, <2>4
  <2> QED
    BY <2>3, <2>4 DEF Apart
<1>8. /\ Distinct(s \o t, Images)
      /\ \A k \in DOMAIN s : k \in DOMAIN (s \o t) /\ (s \o t)[k] = s[k]
  <2>1. s \in Seq(X) /\ t \in Seq(X) /\ Distinct(s, Images) /\ Distinct(t, Images) /\ Apart(s, t, Images)
    BY <1>5, <1>6, <1>7
  <2> QED
    BY <2>1, DistinctJoined
<1>9. ASSUME NEW i \in Images, outcome[i] # "none"
      PROVE  \E k \in DOMAIN (s \o t) : (s \o t)[k] = Row(i, Told(outcome[i]))
  <2>1. PICK h \in 1..n : rows[h] = Row(i, Told(outcome[i]))
    BY <1>1, <1>9
  <2>2. PICK p \in 1..n : f[p] = h
    BY <1>2, <2>1
  <2>3. p \in DOMAIN s /\ s[p] = rows[h]
    BY <1>5, <2>2
  <2> QED
    BY <1>8, <2>1, <2>3
<1> QED
  BY <1>4, <1>8, <1>9

\* When every image of the list has its row, the rows are in the list's order.
LEMMA SortedIsList ==
  ASSUME applyList = Passed, NEW n \in Nat, DOMAIN rows = 1..n,
         \A h, k \in 1..n : rows[h].image = rows[k].image => h = k,
         \A k \in 1..n : InTurn(rows[k].image),
         \A r \in DOMAIN applyList : HasRow(applyList[r])
  PROVE  \E f \in [1..n -> 1..n] :
           /\ DOMAIN applyList = 1..n
           /\ Sorted(rows) = [p \in 1..n |-> rows[f[p]]]
           /\ \A p \in 1..n : rows[f[p]].image = applyList[p]
<1>1. /\ DOMAIN applyList = 1..Len(applyList) /\ Len(applyList) \in Nat
      /\ \A h, k \in DOMAIN applyList : applyList[h] = applyList[k] => h = k
  BY PassedLists
<1> DEFINE L == Len(applyList)
           pos == [k \in 1..n |-> Rank(rows[k].image)]
<1>2. ASSUME NEW k \in 1..n PROVE pos[k] \in 1..L /\ applyList[pos[k]] = rows[k].image
  <2>1. \E r \in DOMAIN applyList : applyList[r] = rows[k].image
    BY DEF InTurn
  <2> QED
    BY <1>1, <2>1 DEF Rank
<1>3. pos \in [1..n -> 1..L]
  BY <1>2
<1>4. \A h, k \in 1..n : pos[h] = pos[k] => h = k
  BY <1>2
<1>5. \A r \in 1..L : \E k \in 1..n : pos[k] = r
  <2> TAKE r \in 1..L
  <2>1. PICK k \in 1..n : rows[k].image = applyList[r]
    BY <1>1 DEF HasRow
  <2> QED
    BY <1>1, <1>2, <2>1
<1>6. n = L /\ \A r \in 1..L : Cardinality(Numbered(pos, 1..n, r)) = r - 1
  <2>1. PICK m, g, D : m \in Nat /\ m = L /\ g = pos /\ D = 1..n
    BY <1>1
  <2>2. m \in Nat /\ Numbers(g, D, m)
    BY <2>1, <1>3, <1>4, <1>5 DEF Numbers
  <2>3. Cardinality(D) = m /\ \A r \in 1..m : Cardinality(Numbered(g, D, r)) = r - 1
    <3> HIDE DEF pos
    <3>1. IsFiniteSet(D) /\ Cardinality(D) = m /\ \A r \in 1..m : Cardinality(Numbered(g, D, r)) = r - 1
      BY ONLY <2>2, CountBelow
    <3> QED
      BY <3>1
  <2>4. Cardinality(1..n) = IF 1 > n THEN 0 ELSE n - 1 + 1
    BY FS_Interval
  <2> QED
    BY <2>1, <2>3, <2>4
<1>7. PICK f \in [1..n -> 1..n] :
        /\ \A p \in 1..n : Cardinality(Below(1..n, Lower(rows), f[p])) = p - 1
        /\ Sorted(rows) = [p \in 1..n |-> rows[f[p]]]
  BY SortedRows
<1>8. \A h \in 1..n : Below(1..n, Lower(rows), h) = Numbered(pos, 1..n, pos[h])
  <2>1. \A h, k \in 1..n : <<k, h>> \in Lower(rows) <=> \/ pos[k] < pos[h]
                                                        \/ pos[k] = pos[h] /\ k < h
    BY DEF Lower
  <2> HIDE DEF pos
  <2>2. \A h, k \in 1..n : <<k, h>> \in Lower(rows) <=> pos[k] < pos[h]
    <3> TAKE h, k \in 1..n
    <3>1. pos[h] \in Int /\ pos[k] \in Int /\ (pos[k] = pos[h] => h = k)
      BY <1>1, <1>3, <1>4
    <3>2. <<k, h>> \in Lower(rows) <=> pos[k] < pos[h] \/ (pos[k] = pos[h] /\ k < h)
      BY <2>1
    <3> QED
      BY <3>1, <3>2
  <2> QED
    BY <2>2 DEF Below, Numbered
<1> HIDE DEF pos
<1>9. ASSUME NEW p \in 1..n PROVE rows[f[p]].image = applyList[p]
  <2>1. f[p] \in 1..n /\ pos[f[p]] \in 1..L
    BY <1>3, <1>7
  <2>2. Cardinality(Numbered(pos, 1..n, pos[f[p]])) = pos[f[p]] - 1
    BY <1>6, <2>1
  <2>3. Cardinality(Numbered(pos, 1..n, pos[f[p]])) = p - 1
    BY <1>7, <1>8, <2>1
  <2>4. pos[f[p]] = p
    BY <1>1, <1>3, <1>7, <2>1, <2>2, <2>3
  <2> QED
    BY <1>2, <2>1, <2>4
<1> QED
  BY <1>1, <1>6, <1>7, <1>9

LEMMA ReportOnce ==
  ASSUME IInv, Report PROVE ReportedOnce'
<1>1. /\ phase = "report" /\ UNCHANGED <<inputs, outcome>> /\ rows' = Sorted(rows) \o Skipped
  BY DEF Report
<1>2. applyList = Passed
  BY <1>1 DEF IInv, Shape
<1>3. PICK n \in Nat : RowsReady(n)
  BY <1>1, ReportFindsRows
<1>4. /\ Distinct(rows', Images)
      /\ \A i \in Images : outcome[i] # "none" =>
           \E k \in DOMAIN rows' : rows'[k] = Row(i, Told(outcome[i]))
  BY <1>1, <1>2, <1>3, ReportedRows
<1>5. ASSUME NEW i \in Images
      PROVE  LET own == {k \in DOMAIN rows' : rows'[k].image = i}
             IN  /\ Cardinality(own) <= 1
                 /\ outcome'[i] # "none" => \E k \in own : rows'[k] = Row(i, Told(outcome'[i]))
  <2> DEFINE own == {k \in DOMAIN rows' : rows'[k].image = i}
  <2>1. \A h, k \in own : h = k
    BY <1>4 DEF Distinct
  <2>2. outcome'[i] # "none" => \E k \in own : rows'[k] = Row(i, Told(outcome'[i]))
    BY <1>1, <1>4 DEF Row
  <2> HIDE DEF own
  <2>3. own = {} \/ \E k : own = {k}
    BY <2>1
  <2>4. Cardinality(own) <= 1
    <3>1. CASE own = {}
      BY <3>1, FS_EmptySet
    <3>2. CASE \E k : own = {k}
      <4>1. PICK k : own = {k}
        BY <3>2
      <4>2. Cardinality(own) = 1
        BY <4>1, FS_Singleton
      <4> QED
        BY <4>2
    <3> QED
      BY <2>3, <3>1, <3>2
  <2> QED
    BY <2>2, <2>4 DEF own
<1> QED
  BY <1>5 DEF ReportedOnce, Attempted

LEMMA ReportSuccess ==
  ASSUME IInv, Report PROVE SuccessIffApplied'
<1>1. /\ phase = "report" /\ UNCHANGED outcome
      /\ ret' = IF Succeeded(rows) = {} THEN "err" ELSE "ok"
  BY DEF Report, Return
<1>2. PICK n \in Nat : RowsReady(n)
  BY <1>1, ReportFindsRows
<1>3. Succeeded(rows) # {} => \E i \in Images : outcome[i] = "ok"
  BY <1>2 DEF RowsReady, Succeeded
<1>4. ASSUME NEW i \in Images, outcome[i] = "ok" PROVE Succeeded(rows) # {}
  <2>1. PICK k \in 1..n : rows[k] = Row(i, "ok")
    BY <1>2, <1>4 DEF RowsReady, Told
  <2>2. k \in Succeeded(rows)
    BY <1>2, <2>1 DEF RowsReady, Succeeded, Row
  <2> QED
    BY <2>2
<1> QED
  BY <1>1, <1>3, <1>4 DEF SuccessIffApplied

LEMMA ReportScheduleFree ==
  ASSUME IInv, Report PROVE ScheduleFree'
<1>1. /\ phase = "report" /\ UNCHANGED <<strict, cancelled, fate>>
      /\ rows' = Sorted(rows) \o Skipped /\ UNCHANGED <<Passed, OverBudget, Skipped>>
  BY InputsStay DEF Report, inputs
<1>2. /\ applyList = Passed /\ RowsOK /\ \A i \in Images : ImageOK(i)
      /\ \A k \in DOMAIN applyList : applyList[k] \in Images
  BY <1>1, ListIsPassed DEF IInv, Shape
<1> SUFFICES ASSUME ~strict, ~cancelled PROVE rows' = Determined'
  BY <1>1 DEF ScheduleFree
<1>3. CASE OverBudget
  <2>1. rows = <<Row(BudgetSentinel, "compose")>>
    BY <1>1, <1>2, <1>3 DEF RowsOK
  <2>2. PICK n \in Nat : n = 1 /\ DOMAIN rows = 1..n
    BY <2>1
  <2>3. PICK f \in [1..n -> 1..n] : Sorted(rows) = [p \in 1..n |-> rows[f[p]]]
    BY <1>2, <2>2, SortedRows
  <2>4. \A p \in 1..n : f[p] = 1
    BY <2>2, <2>3
  <2>5. Sorted(rows) = [p \in 1..n |-> rows[1]]
    BY <2>3, <2>4
  <2>6. Sorted(rows) = <<Row(BudgetSentinel, "compose")>>
    BY <2>1, <2>2, <2>5
  <2> QED
    BY <1>1, <1>3, <2>6 DEF Determined
<1>4. CASE ~OverBudget
  <2>1. PICK n \in Nat :
          /\ DOMAIN rows = 1..n
          /\ \A k \in 1..n : rows[k] \in [image : Images, status : {"ok", "compose", "invariant"}]
    BY <1>1, <1>2, <1>4, RowsAreOfImages
  <2>2. /\ \A h, k \in 1..n : rows[h].image = rows[k].image => h = k
        /\ \A k \in 1..n : /\ outcome[rows[k].image] # "none"
                           /\ rows[k].status = Told(outcome[rows[k].image])
    BY <1>1, <1>2, <1>4, <2>1 DEF RowsOK
  <2>3. \A i \in Images : outcome[i] # "none" => InTurn(i) /\ HasRow(i) /\ outcome[i] = fate[i]
    BY <1>1, <1>2 DEF ImageOK, Fresh
  <2>4. \A k \in DOMAIN applyList : HasRow(applyList[k])
    BY <1>1, <1>2, <1>4, <2>3 DEF RowsOK
  <2>5. \A k \in 1..n : InTurn(rows[k].image)
    BY <2>1, <2>2, <2>3
  <2>6. PICK f \in [1..n -> 1..n] :
          /\ DOMAIN applyList = 1..n
          /\ Sorted(rows) = [p \in 1..n |-> rows[f[p]]]
          /\ \A p \in 1..n : rows[f[p]].image = applyList[p]
    BY <1>2, <2>1, <2>2, <2>4, <2>5, SortedIsList
  <2>7. \A p \in 1..n : rows[f[p]] = Row(applyList[p], Told(fate[applyList[p]]))
    <3> TAKE p \in 1..n
    <3>1. f[p] \in 1..n /\ rows[f[p]].image = applyList[p] /\ applyList[p] \in Images
      BY <2>1, <2>6
    <3>2. outcome[applyList[p]] # "none" /\ rows[f[p]].status = Told(outcome[applyList[p]])
      BY <2>2, <3>1
    <3>3. rows[f[p]].status = Told(fate[applyList[p]])
      BY <2>3, <3>1, <3>2
    <3>4. rows[f[p]] \in [image : Images, status : {"ok", "compose", "invariant"}]
      BY <2>1, <3>1
    <3> QED
      BY <3>1, <3>3, <3>4 DEF Row
  <2>8. Sorted(rows) = [k \in DOMAIN Passed |-> Row(Passed[k], Told(fate[Passed[k]]))]
    BY <1>2, <2>6, <2>7
  <2> QED
    BY <1>1, <1>4, <2>8 DEF Determined
<1> QED
  BY <1>3, <1>4

LEMMA StepReport == ASSUME IInv, Report PROVE IInv'
<1>1. /\ phase = "report" /\ phase' = "done" /\ workdir' = FALSE /\ ret' \in {"ok", "err"}
      /\ UNCHANGED <<inputs, cancelled, applyList, next, pool, pc, outcome>>
  BY DEF Report, Return
<1>2. /\ UNCHANGED <<Passed, Accepted, OverBudget, status, submitted, stopped>>
      /\ UNCHANGED <<serial, strict, fate>>
  BY <1>1, InputsStay DEF inputs, pool
<1>3. Shape /\ ListOK /\ \A j \in Images : ImageOK(j)
  BY DEF IInv
<1>4. Shape'
  <2>1. /\ ret' \in {"none", "ok", "err"} /\ (ret' = "none" <=> phase' # "done")
        /\ workdir' \in BOOLEAN /\ (workdir' <=> phase' \in {"preflight", "budget", "apply", "report"})
        /\ phase' \in Phase /\ phase' \notin {"open", "preflight", "budget", "apply", "report"}
    BY <1>1 DEF Phase
  <2> QED
    BY <1>1, <1>2, <1>3, <2>1 DEF Shape, inputs
<1>5. ReportedOnce' /\ SuccessIffApplied' /\ ScheduleFree'
  BY ReportOnce, ReportSuccess, ReportScheduleFree
<1>6. \A j \in Images : ImageOK(j)'
  <2> TAKE j \in Images
  <2>1. /\ Fresh(j)' <=> Fresh(j)
        /\ InTurn(j)' <=> InTurn(j)
        /\ Before(j)' <=> Before(j)
    BY <1>1, <1>2 DEF Fresh, InTurn, Before
  <2>2. outcome[j] # "none" => HasRow(j)'
    BY <1>1, <1>5 DEF ReportedOnce, Attempted, HasRow
  <2>3. ImageOK(j) /\ pc[j] = "none"
    BY <1>1, <1>3 DEF ImageOK
  <2> QED
    BY <1>1, <1>2, <2>1, <2>2, <2>3 DEF ImageOK
<1>7. ListOK'
  <2>1. \A j \in Images : Fresh(j)' <=> Fresh(j)
    BY <1>1, <1>2 DEF Fresh
  <2>2. \A k \in DOMAIN applyList : applyList[k] \in Images
    BY <1>3, ListIsPassed DEF Shape
  <2> QED
    BY <1>1, <1>2, <1>3, <2>1, <2>2 DEF ListOK
<1>8. RowsOK'
  BY <1>1 DEF RowsOK
<1> QED
  BY <1>4, <1>5, <1>6, <1>7, <1>8 DEF IInv, ReportIsTrue
-----------------------------------------------------------------------------
(* The invariants.                                                         *)

LEMMA StepIInv == IInv /\ [Next]_vars => IInv'
<1> SUFFICES ASSUME IInv, [Next]_vars PROVE IInv'
  OBVIOUS
<1>1. CASE Main
  BY <1>1, StepPrepare, StepPreflight, StepCheckBudget, StepInline, StepSubmit, StepWait, StepReport DEF Main
<1>2. CASE Cancel
  BY <1>2, StepCancel
<1>3. CASE StopPool
  BY <1>3, StepStopPool
<1>4. ASSUME NEW i \in Images, Image(i) PROVE IInv'
  BY <1>4, StepCompose, StepRecord, StepAdvance, StepBegin, StepEnd, StepTurnAway DEF Image
<1>5. CASE UNCHANGED vars
  BY <1>5, StepStutter
<1> QED
  BY <1>1, <1>2, <1>3, <1>4, <1>5 DEF Next

\* The inductive invariant holds in every reachable state of an import.
THEOREM ImportInvariant == Spec => []IInv
<1>1. Init => IInv
  BY InitIInv
<1>2. IInv /\ [Next]_vars => IInv'
  BY StepIInv
<1> QED
  BY <1>1, <1>2, PTL DEF Spec

\* ReportIsTrue: when Import returns, every image it attempted has one row, which
\* says what became of it, and nil is returned exactly when some image was applied.
THEOREM ReportTrue == Spec => []ReportIsTrue
<1>1. IInv => ReportIsTrue
  BY DEF IInv
<1> QED
  BY <1>1, ImportInvariant, PTL

\* ChecksComeFirst: no image is touched when the bundle is malformed, when the
\* strict scan fails, or when the memory budget cannot hold some image.
THEOREM ChecksFirst == Spec => []ChecksComeFirst
<1>1. IInv => ChecksComeFirst
  BY DEF IInv, ImageOK, Fresh, Accepted, ChecksComeFirst, Attempted
<1> QED
  BY <1>1, ImportInvariant, PTL

\* ScheduleFree: in partial mode the report is the one the inputs determine,
\* whatever the number of workers and whatever their schedule.
THEOREM ReportScheduled == Spec => []ScheduleFree
<1>1. IInv => ScheduleFree
  BY DEF IInv
<1> QED
  BY <1>1, ImportInvariant, PTL

\* WorkdirOutlivesImages: no image is composed after its scratch directory went.
THEOREM WorkdirOutlives == Spec => []WorkdirOutlivesImages
<1>1. IInv => WorkdirOutlivesImages
  BY DEF IInv, ImageOK, Shape, WorkdirOutlivesImages
<1> QED
  BY <1>1, ImportInvariant, PTL
=============================================================================
