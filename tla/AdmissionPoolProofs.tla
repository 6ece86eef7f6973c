-------------------------- MODULE AdmissionPoolProofs --------------------------
(***************************************************************************)
(* Safety of the admission pool for any set of tasks, any estimates, any   *)
(* number of workers and any memory budget.                                *)
(*                                                                         *)
(* The invariant is built in layers, each proved from the ones before it:  *)
(* the shape of the state, the queues, the tokens, the singleflight calls  *)
(* and the outcomes. With it each step is one of GatedRun, or none.        *)
(***************************************************************************)
EXTENDS AdmissionPool, FiniteSetTheorems, SequenceTheorems, TLAPS

\* The type invariant without the sign of the token counters, which only the
\* accounting of tokens below can establish.
Shape ==
  /\ pc \in [Tasks -> Location]
  /\ flight \in SUBSET Tasks
  /\ leader \in [Tasks -> Tasks]
  /\ cur \in [Gates -> Int]
  /\ queue \in [Gates -> Seq(Tasks)]
  /\ outcome \in [Tasks -> Outcome]
  /\ cause \in {"none", "caller", "task", "wait"}
  /\ err \in Outcome \ {"ok"}
  /\ phase \in {"submitting", "waiting", "returned"}

\* The clamped estimate is a positive number, within the budget if there is one.
LEMMA NeedType ==
  /\ Need \in [Tasks -> Nat \ {0}]
  /\ HasMem => \A t \in Tasks : Need[t] <= MemBudget
  /\ HasMem => MemBudget \in Nat
  /\ Workers \in Nat \ {0}
BY EstimateAssumption, SizeAssumption DEF Need, HasMem, Workers

LEMMA AmountType == \A g \in Gates, t \in Tasks : Amount(g, t) \in Nat \ {0}
BY NeedType DEF Amount

\* What SequencesExt's RemoveAt returns.
LEMMA RemoveAtProperties ==
  ASSUME NEW S, NEW s \in Seq(S), NEW i \in 1..Len(s)
  PROVE  /\ RemoveAt(s, i) \in Seq(S)
         /\ Len(RemoveAt(s, i)) = Len(s) - 1
         /\ \A j \in 1..(Len(s) - 1) :
              RemoveAt(s, i)[j] = IF j < i THEN s[j] ELSE s[j + 1]
<1> DEFINE front == SubSeq(s, 1, i - 1)
           back  == SubSeq(s, i + 1, Len(s))
<1>1. /\ front \in Seq(S) /\ Len(front) = i - 1
      /\ \A j \in 1..(i - 1) : front[j] = s[j]
  BY SubSeqProperties, ElementOfSeq
<1>2. /\ back \in Seq(S) /\ Len(back) = Len(s) - i
      /\ \A j \in 1..(Len(s) - i) : back[j] = s[j + i]
  BY SubSeqProperties, ElementOfSeq
<1>3. /\ front \o back \in Seq(S)
      /\ Len(front \o back) = Len(front) + Len(back)
      /\ \A j \in 1..(Len(front) + Len(back)) :
           (front \o back)[j] = IF j <= Len(front) THEN front[j]
                                ELSE back[j - Len(front)]
  BY <1>1, <1>2, ConcatProperties
<1>4. RemoveAt(s, i) = front \o back
  BY DEF RemoveAt
<1> HIDE DEF front, back
<1>5. Len(s) \in Nat /\ i \in Nat /\ Len(front) + Len(back) = Len(s) - 1
  BY <1>1, <1>2, LenProperties
<1>6. ASSUME NEW j \in 1..(Len(s) - 1)
      PROVE  (front \o back)[j] = IF j < i THEN s[j] ELSE s[j + 1]
  <2>1. CASE j < i
    BY <1>1, <1>3, <1>5, <2>1
  <2>2. CASE ~(j < i)
    <3>1. (front \o back)[j] = back[j - (i - 1)]
      BY <1>1, <1>3, <1>5, <2>2
    <3>2. j - (i - 1) \in 1..(Len(s) - i)
      BY <1>5, <2>2
    <3>3. back[j - (i - 1)] = s[(j - (i - 1)) + i]
      BY <1>2, <3>2
    <3>4. (j - (i - 1)) + i = j + 1
      BY <1>5
    <3>5. QED
      BY <2>2, <3>1, <3>3, <3>4
  <2>3. QED
    BY <2>1, <2>2
<1>7. QED
  BY <1>3, <1>4, <1>5, <1>6

LEMMA ShapeInit == Init => Shape
BY DEF Init, Shape, Location, Outcome, Gates

LEMMA ShapeStep == Shape /\ [Next]_vars => Shape'
<1> SUFFICES ASSUME Shape, [Next]_vars PROVE Shape'
  OBVIOUS
<1> USE DEF Shape, Location, Outcome, Gates
<1>1. ASSUME NEW t \in Tasks, Submit(t) PROVE Shape'
  BY <1>1 DEF Submit
<1>2. CASE CallWait
  BY <1>2 DEF CallWait
<1>3. CASE WaitReturns
  BY <1>3 DEF WaitReturns, Cancel
<1>4. CASE ParentCancels
  BY <1>4 DEF ParentCancels, Cancel
<1>5. ASSUME NEW t \in Tasks, Lead(t) PROVE Shape'
  BY <1>5 DEF Lead
<1>6. ASSUME NEW t \in Tasks, Join(t) PROVE Shape'
  BY <1>6 DEF Join
<1>7. ASSUME NEW t \in Tasks, Leave(t) PROVE Shape'
  BY <1>7 DEF Leave
<1>8. ASSUME NEW t \in Tasks, Released(t) PROVE Shape'
  BY <1>8 DEF Released
<1>9. ASSUME NEW t \in Tasks, NEW g \in Gates, Refuse(g, t) PROVE Shape'
  BY <1>9 DEF Refuse, Fail, Refused
<1>10. ASSUME NEW t \in Tasks, NEW g \in Gates, Take(g, t) PROVE Shape'
  BY SMTT(30), <1>10, AmountType DEF Take
<1>11. ASSUME NEW t \in Tasks, NEW g \in Gates, Enqueue(g, t) PROVE Shape'
  BY <1>11 DEF Enqueue, Queued
<1>12. ASSUME NEW g \in Gates, Grant(g) PROVE Shape'
  <2>1. Head(queue[g]) \in Tasks /\ Tail(queue[g]) \in Seq(Tasks)
    BY <1>12 DEF Grant
  <2>2. QED
    BY <1>12, <2>1, AmountType DEF Grant, Granted
<1>13. ASSUME NEW t \in Tasks, NEW g \in Gates, Wake(g, t) PROVE Shape'
  <2>1. CASE Cancelled
    <3>1. cur' = [cur EXCEPT ![g] = @ - Amount(g, t)] /\ Fail(g, t)
      BY <1>13, <2>1 DEF Wake
    <3>2. cur' \in [Gates -> Int]
      BY <3>1, AmountType
    <3>3. pc' \in [Tasks -> Location] /\ outcome' \in [Tasks -> Outcome]
      BY <3>1 DEF Fail, Refused
    <3>4. QED
      BY <1>13, <3>2, <3>3 DEF Wake
  <2>2. CASE ~Cancelled
    BY <1>13, <2>2 DEF Wake
  <2>3. QED
    BY <2>1, <2>2
<1>14. ASSUME NEW t \in Tasks, NEW g \in Gates, GiveUp(g, t) PROVE Shape'
  <2>1. PICK i \in 1..Len(queue[g]) : queue' = [queue EXCEPT ![g] = RemoveAt(@, i)]
    BY <1>14 DEF GiveUp
  <2>2. RemoveAt(queue[g], i) \in Seq(Tasks)
    BY RemoveAtProperties
  <2>3. QED
    BY <1>14, <2>1, <2>2 DEF GiveUp, Fail, Refused
<1>15. ASSUME NEW t \in Tasks, SkipMemGate(t) PROVE Shape'
  BY <1>15 DEF SkipMemGate
<1>16. ASSUME NEW t \in Tasks, Run(t) PROVE Shape'
  BY <1>16 DEF Run
<1>17. ASSUME NEW t \in Tasks, NEW g \in Gates, Release(g, t) PROVE Shape'
  BY <1>17, AmountType DEF Release
<1>18. ASSUME NEW t \in Tasks, Return(t) PROVE Shape'
  BY <1>18 DEF Return, Cancel
<1>19. CASE UNCHANGED vars
  BY <1>19 DEF vars
<1>20. QED
  BY <1>1, <1>2, <1>3, <1>4, <1>5, <1>6, <1>7, <1>8, <1>9, <1>10, <1>11, <1>12,
     <1>13, <1>14, <1>15, <1>16, <1>17, <1>18, <1>19
     DEF Next, Goroutine, Acquire, Pass

THEOREM ShapeHolds == Spec => []Shape
BY ShapeInit, ShapeStep, PTL DEF Spec
-----------------------------------------------------------------------------
(* The queues: a waiter is in one queue, once.                             *)

QueueOK ==
  \A g \in Gates :
    /\ \A i \in 1..Len(queue[g]) : pc[queue[g][i]] = Queued(g)
    /\ \A i, j \in 1..Len(queue[g]) : queue[g][i] = queue[g][j] => i = j

\* A goroutine that waits for no token leaves the queues alone.
LEMMA QueueFrame ==
  ASSUME Shape, QueueOK, UNCHANGED queue,
         NEW t \in Tasks, pc[t] \notin {"workerQ", "memQ"},
         NEW l, pc' = [pc EXCEPT ![t] = l]
  PROVE  QueueOK'
<1> SUFFICES ASSUME NEW g \in Gates, NEW i \in 1..Len(queue[g])
             PROVE  pc'[queue[g][i]] = Queued(g)
  BY DEF QueueOK, Queued
<1>1. pc[queue[g][i]] = Queued(g) /\ queue[g][i] \in Tasks
  BY ElementOfSeq DEF QueueOK, Shape
<1>2. QED
  BY <1>1 DEF Queued, Gates, Shape

\* It is enough to look at the queue that changes.
LEMMA QueueChange ==
  ASSUME QueueOK, NEW g \in Gates,
         \A h \in Gates \ {g} : queue'[h] = queue[h],
         \A h \in Gates : \A i \in 1..Len(queue'[h]) : pc'[queue'[h][i]] = Queued(h),
         \A i, j \in 1..Len(queue'[g]) : queue'[g][i] = queue'[g][j] => i = j
  PROVE  QueueOK'
<1> SUFFICES ASSUME NEW h \in Gates,
                    NEW i \in 1..Len(queue'[h]), NEW j \in 1..Len(queue'[h]),
                    queue'[h][i] = queue'[h][j]
             PROVE  i = j
  BY DEF QueueOK, Queued
<1>1. CASE h = g
  BY <1>1
<1>2. CASE h # g
  <2>1. queue'[h] = queue[h]
    BY <1>2
  <2>2. \A k, l \in 1..Len(queue[h]) : queue[h][k] = queue[h][l] => k = l
    BY DEF QueueOK
  <2>3. QED
    BY <2>1, <2>2
<1>3. QED
  BY <1>1, <1>2

LEMMA QueueInit == Init => QueueOK
<1> SUFFICES ASSUME Init, NEW g \in Gates PROVE Len(queue[g]) = 0
  BY DEF QueueOK
<1>1. QED
  BY DEF Init

LEMMA QueueStep == Shape /\ QueueOK /\ [Next]_vars => QueueOK'
<1> SUFFICES ASSUME Shape, QueueOK, [Next]_vars PROVE QueueOK'
  OBVIOUS
<1>1. ASSUME NEW t \in Tasks, Submit(t) PROVE QueueOK'
  BY <1>1, QueueFrame DEF Submit
<1>2. ASSUME UNCHANGED <<pc, queue>> PROVE QueueOK'
  BY <1>2 DEF QueueOK, Queued
<1>3. ASSUME NEW t \in Tasks, Lead(t) PROVE QueueOK'
  BY <1>3, QueueFrame DEF Lead
<1>4. ASSUME NEW t \in Tasks, Join(t) PROVE QueueOK'
  BY <1>4, QueueFrame DEF Join
<1>5. ASSUME NEW t \in Tasks, Leave(t) PROVE QueueOK'
  BY <1>5, QueueFrame DEF Leave
<1>6. ASSUME NEW t \in Tasks, Released(t) PROVE QueueOK'
  BY <1>6, QueueFrame DEF Released
<1>7. ASSUME NEW t \in Tasks, NEW g \in Gates, Refuse(g, t) PROVE QueueOK'
  BY <1>7, QueueFrame DEF Refuse, Fail, AtGate, Gates
<1>8. ASSUME NEW t \in Tasks, NEW g \in Gates, Take(g, t) PROVE QueueOK'
  BY <1>8, QueueFrame DEF Take, AtGate, Gates
<1>9. ASSUME NEW t \in Tasks, NEW g \in Gates, Enqueue(g, t) PROVE QueueOK'
  <2>1. /\ pc[t] = g /\ pc' = [pc EXCEPT ![t] = Queued(g)]
        /\ queue' = [queue EXCEPT ![g] = Append(@, t)]
    BY <1>9 DEF Enqueue, AtGate
  <2>2. \A h \in Gates : \A i \in 1..Len(queue[h]) :
          /\ queue[h][i] \in Tasks /\ queue[h][i] # t
          /\ pc'[queue[h][i]] = Queued(h)
    BY <2>1, ElementOfSeq DEF QueueOK, Queued, Gates, Shape
  <2>3. /\ queue'[g] = Append(queue[g], t)
        /\ \A h \in Gates \ {g} : queue'[h] = queue[h]
    BY <2>1 DEF Shape
  <2>4. /\ Len(queue[g]) \in Nat /\ Len(queue'[g]) = Len(queue[g]) + 1
        /\ \A i \in 1..Len(queue[g]) : queue'[g][i] = queue[g][i]
        /\ queue'[g][Len(queue[g]) + 1] = t
    BY <2>3, AppendProperties, LenProperties DEF Shape
  <2>5. pc'[t] = Queued(g)
    BY <2>1 DEF Shape
  <2>6. \A i \in 1..Len(queue'[g]) : i \in 1..Len(queue[g]) \/ i = Len(queue[g]) + 1
    BY <2>4
  <2>7. \A i \in 1..Len(queue'[g]) : pc'[queue'[g][i]] = Queued(g)
    BY <2>2, <2>4, <2>5, <2>6
  <2>8. \A i, j \in 1..Len(queue'[g]) : queue'[g][i] = queue'[g][j] => i = j
    BY SMTT(30), <2>2, <2>4, <2>6 DEF QueueOK
  <2>9. QED
    <3>1. \A h \in Gates : \A i \in 1..Len(queue'[h]) : pc'[queue'[h][i]] = Queued(h)
      <4> SUFFICES ASSUME NEW h \in Gates, NEW i \in 1..Len(queue'[h])
                   PROVE  pc'[queue'[h][i]] = Queued(h)
        OBVIOUS
      <4>1. CASE h = g
        BY <4>1, <2>7
      <4>2. CASE h # g
        BY <4>2, <2>2, <2>3
      <4>3. QED
        BY <4>1, <4>2
    <3>2. QED
      BY <3>1, <2>3, <2>8, QueueChange
<1>10. ASSUME NEW g \in Gates, Grant(g) PROVE QueueOK'
  <2> DEFINE t == Head(queue[g])
  <2>1. /\ queue[g] # <<>> /\ t \in Tasks /\ pc' = [pc EXCEPT ![t] = Granted(g)]
        /\ queue' = [queue EXCEPT ![g] = Tail(@)]
    BY <1>10 DEF Grant, Shape
  <2>2. /\ Len(queue[g]) \in Nat /\ Len(queue'[g]) = Len(queue[g]) - 1
        /\ \A i \in 1..Len(queue'[g]) : queue'[g][i] = queue[g][i + 1]
        /\ \A h \in Gates \ {g} : queue'[h] = queue[h]
        /\ 1 \in 1..Len(queue[g]) /\ t = queue[g][1]
    BY <2>1, HeadTailProperties, LenProperties DEF Shape
  <2>3. pc[t] = Queued(g)
    BY <2>2 DEF QueueOK
  <2>4. \A i \in 1..Len(queue'[g]) : i + 1 \in 1..Len(queue[g]) /\ i + 1 # 1
    BY <2>2
  <2>5. \A h \in Gates : \A i \in 1..Len(queue'[h]) :
          queue'[h][i] \in Tasks /\ queue'[h][i] # t
    <3>1. \A i \in 1..Len(queue'[g]) : queue'[g][i] \in Tasks /\ queue'[g][i] # t
      <4> SUFFICES ASSUME NEW i \in 1..Len(queue'[g])
                   PROVE  queue'[g][i] \in Tasks /\ queue'[g][i] # t
        OBVIOUS
      <4>1. /\ i + 1 \in 1..Len(queue[g]) /\ 1 \in 1..Len(queue[g]) /\ i + 1 # 1
            /\ queue'[g][i] = queue[g][i + 1] /\ t = queue[g][1]
        BY <2>2, <2>4
      <4>2. queue[g][i + 1] # queue[g][1]
        BY <4>1 DEF QueueOK
      <4>3. queue[g][i + 1] \in Tasks
        BY <4>1, ElementOfSeq DEF Shape
      <4>4. QED
        BY <4>1, <4>2, <4>3
    <3>2. \A h \in Gates \ {g} : \A i \in 1..Len(queue[h]) :
            queue[h][i] \in Tasks /\ queue[h][i] # t
      BY <2>3, ElementOfSeq DEF QueueOK, Queued, Gates, Shape
    <3>3. QED
      BY <2>2, <3>1, <3>2
  <2>6. ASSUME NEW h \in Gates, NEW i \in 1..Len(queue'[h])
        PROVE  pc[queue'[h][i]] = Queued(h)
    <3>1. CASE h = g
      <4>1. i + 1 \in 1..Len(queue[g]) /\ queue'[g][i] = queue[g][i + 1]
        BY <3>1, <2>2, <2>4
      <4>2. QED
        BY <3>1, <4>1 DEF QueueOK
    <3>2. CASE h # g
      <4>1. queue'[h] = queue[h]
        BY <3>2, <2>2
      <4>2. QED
        BY <4>1 DEF QueueOK
    <3>3. QED
      BY <3>1, <3>2
  <2>7. \A h \in Gates : \A i \in 1..Len(queue'[h]) : pc'[queue'[h][i]] = Queued(h)
    BY <2>1, <2>5, <2>6 DEF Shape
  <2>8. \A i, j \in 1..Len(queue'[g]) : queue'[g][i] = queue'[g][j] => i = j
    <3> SUFFICES ASSUME NEW i \in 1..Len(queue'[g]), NEW j \in 1..Len(queue'[g]),
                        queue'[g][i] = queue'[g][j]
                 PROVE  i = j
      OBVIOUS
    <3>1. i + 1 = j + 1
      BY <2>2, <2>4 DEF QueueOK
    <3>2. QED
      BY <3>1, <2>2
  <2>9. QED
    BY <2>2, <2>7, <2>8, QueueChange
<1>11. ASSUME NEW t \in Tasks, NEW g \in Gates, Wake(g, t) PROVE QueueOK'
  <2>1. UNCHANGED queue /\ pc[t] \notin {"workerQ", "memQ"}
    BY <1>11 DEF Wake, Granted
  <2>2. PICK l : pc' = [pc EXCEPT ![t] = l]
    BY <1>11 DEF Wake, Fail
  <2>3. QED
    BY <2>1, <2>2, QueueFrame
<1>12. ASSUME NEW t \in Tasks, NEW g \in Gates, GiveUp(g, t) PROVE QueueOK'
  <2>1. PICK k \in 1..Len(queue[g]) :
          queue[g][k] = t /\ queue' = [queue EXCEPT ![g] = RemoveAt(@, k)]
    BY <1>12 DEF GiveUp
  <2>2. pc' = [pc EXCEPT ![t] = Refused(g)] /\ pc[t] = Queued(g)
    BY <1>12, <2>1 DEF GiveUp, Fail, QueueOK
  <2>3. /\ Len(queue[g]) \in Nat /\ Len(queue'[g]) = Len(queue[g]) - 1
        /\ \A h \in Gates \ {g} : queue'[h] = queue[h]
        /\ \A i \in 1..Len(queue'[g]) :
             queue'[g][i] = IF i < k THEN queue[g][i] ELSE queue[g][i + 1]
    <3>1. queue[g] \in Seq(Tasks) /\ queue'[g] = RemoveAt(queue[g], k)
      BY <2>1 DEF Shape
    <3>2. \A h \in Gates \ {g} : queue'[h] = queue[h]
      BY <2>1 DEF Shape
    <3>3. Len(queue[g]) \in Nat
      BY <3>1, LenProperties
    <3>4. /\ Len(RemoveAt(queue[g], k)) = Len(queue[g]) - 1
          /\ \A i \in 1..(Len(queue[g]) - 1) :
               RemoveAt(queue[g], k)[i] = IF i < k THEN queue[g][i]
                                          ELSE queue[g][i + 1]
      BY <3>1, RemoveAtProperties
    <3>5. QED
      BY <3>1, <3>2, <3>3, <3>4
  <2> DEFINE old(i) == IF i < k THEN i ELSE i + 1
  <2>4. \A i \in 1..Len(queue'[g]) :
          /\ old(i) \in 1..Len(queue[g]) /\ old(i) # k
          /\ queue'[g][i] = queue[g][old(i)]
    BY <2>3
  <2>5. \A i, j \in 1..Len(queue'[g]) : old(i) = old(j) => i = j
    BY <2>3
  <2> HIDE DEF old
  <2>6. \A i \in 1..Len(queue'[g]) :
          queue'[g][i] \in Tasks /\ queue'[g][i] # t /\ pc[queue'[g][i]] = Queued(g)
    <3> SUFFICES ASSUME NEW i \in 1..Len(queue'[g])
                 PROVE  queue'[g][i] \in Tasks /\ queue'[g][i] # t
                        /\ pc[queue'[g][i]] = Queued(g)
      OBVIOUS
    <3>1. /\ old(i) \in 1..Len(queue[g]) /\ old(i) # k
          /\ queue'[g][i] = queue[g][old(i)]
      BY <2>4
    <3>2. queue[g][old(i)] # queue[g][k] /\ pc[queue[g][old(i)]] = Queued(g)
      BY <3>1 DEF QueueOK
    <3>3. queue[g][old(i)] \in Tasks
      BY <3>1, ElementOfSeq DEF Shape
    <3>4. QED
      BY <2>1, <3>1, <3>2, <3>3
  <2>7. \A h \in Gates \ {g} : \A i \in 1..Len(queue[h]) :
          queue[h][i] \in Tasks /\ queue[h][i] # t /\ pc[queue[h][i]] = Queued(h)
    BY <2>2, ElementOfSeq DEF QueueOK, Queued, Gates, Shape
  <2>8. ASSUME NEW h \in Gates, NEW i \in 1..Len(queue'[h])
        PROVE  pc'[queue'[h][i]] = Queued(h)
    <3>1. queue'[h][i] \in Tasks /\ queue'[h][i] # t /\ pc[queue'[h][i]] = Queued(h)
      <4>1. CASE h = g
        BY <4>1, <2>6
      <4>2. CASE h # g
        BY <4>2, <2>3, <2>7
      <4>3. QED
        BY <4>1, <4>2
    <3>2. QED
      BY <3>1, <2>2 DEF Shape
  <2>9. \A i, j \in 1..Len(queue'[g]) : queue'[g][i] = queue'[g][j] => i = j
    BY <2>4, <2>5 DEF QueueOK
  <2>10. QED
    BY <2>3, <2>8, <2>9, QueueChange
<1>13. ASSUME NEW t \in Tasks, SkipMemGate(t) PROVE QueueOK'
  BY <1>13, QueueFrame DEF SkipMemGate
<1>14. ASSUME NEW t \in Tasks, Run(t) PROVE QueueOK'
  BY <1>14, QueueFrame DEF Run
<1>15. ASSUME NEW t \in Tasks, NEW g \in Gates, Release(g, t) PROVE QueueOK'
  BY <1>15, QueueFrame DEF Release
<1>16. ASSUME NEW t \in Tasks, Return(t) PROVE QueueOK'
  BY <1>16, QueueFrame DEF Return
<1>17. QED
  BY <1>1, <1>2, <1>3, <1>4, <1>5, <1>6, <1>7, <1>8, <1>9, <1>10, <1>11, <1>12,
     <1>13, <1>14, <1>15, <1>16
     DEF Next, Goroutine, Acquire, Pass, CallWait, WaitReturns, ParentCancels, vars

THEOREM QueueHolds == Spec => []QueueOK
BY ShapeHolds, QueueInit, QueueStep, PTL DEF Spec
-----------------------------------------------------------------------------
(* The tokens: each semaphore's counter is what its holders took.          *)

Holding(g) == IF g = "worker"
                THEN {"workerGot", "mem", "memQ", "memGot", "fn", "releaseMem",
                      "releaseWorker"}
                ELSE {"memGot", "fn", "releaseMem"}

\* The tokens of g that a set of holders took.
Used(g, S) == IF g = "worker" THEN Cardinality(S) ELSE Cardinality(Units(S))

Active(g) == g = "worker" \/ HasMem

TokensOK ==
  /\ \A g \in Gates : Active(g) => /\ cur[g] = Used(g, At(Holding(g)))
                                   /\ cur[g] <= Size(g)
  /\ ~HasMem => cur["mem"] = 0 /\ At({"memQ", "memGot", "releaseMem"}) = {}

\* The memory units of a set of tasks are finitely many, and each task adds
\* as many as its clamped estimate.
LEMMA UnitsFinite ==
  ASSUME HasMem, NEW S \in SUBSET Tasks
  PROVE  IsFiniteSet(Units(S))
<1>1. Units(S) \subseteq Tasks \X (1..MemBudget)
  BY NeedType DEF Units
<1>2. IsFiniteSet(1..MemBudget)
  BY NeedType, FS_Interval
<1>3. IsFiniteSet(Tasks \X (1..MemBudget))
  BY <1>2, TasksAssumption, FS_Product
<1>4. QED
  BY <1>1, <1>3, FS_Subset

LEMMA UnitsAdd ==
  ASSUME HasMem, NEW S \in SUBSET Tasks, NEW t \in Tasks \ S
  PROVE  Cardinality(Units(S \cup {t})) = Cardinality(Units(S)) + Need[t]
<1> DEFINE own == {t} \X (1..Need[t])
<1>1. Units(S \cup {t}) = Units(S) \cup own
  BY DEF Units
<1>2. Units(S) \cap own = {}
  BY DEF Units
<1>3. Need[t] \in Nat \ {0}
  BY NeedType
<1>4. IsFiniteSet(1..Need[t]) /\ Cardinality(1..Need[t]) = Need[t]
  BY SMTT(30), <1>3, FS_Interval
<1>5. IsFiniteSet({t}) /\ Cardinality({t}) = 1
  BY FS_Singleton
<1>6. IsFiniteSet(own) /\ Cardinality(own) = Need[t]
  <2>1. IsFiniteSet(own) /\ Cardinality(own) = Cardinality({t}) * Cardinality(1..Need[t])
    BY <1>4, <1>5, FS_Product
  <2>2. Cardinality({t}) * Cardinality(1..Need[t]) = Need[t]
    BY <1>3, <1>4, <1>5
  <2>3. QED
    BY <2>1, <2>2
<1>7. IsFiniteSet(Units(S)) /\ Cardinality(Units(S)) \in Nat
  BY UnitsFinite, FS_CardinalityType
<1>8. Cardinality({}) = 0
  BY FS_EmptySet
<1> HIDE DEF own
<1>9. Cardinality(Units(S) \cup own)
        = Cardinality(Units(S)) + Cardinality(own) - Cardinality(Units(S) \cap own)
  BY <1>6, <1>7, FS_Union
<1>10. Cardinality(Units(S) \cap own) = 0
  BY <1>2, <1>8
<1>11. Cardinality(Units(S) \cup own) = Cardinality(Units(S)) + Need[t]
  BY <1>3, <1>6, <1>7, <1>9, <1>10
<1>12. QED
  BY <1>1, <1>11

LEMMA UsedAdd ==
  ASSUME NEW g \in Gates, Active(g), NEW S \in SUBSET Tasks, NEW t \in Tasks \ S
  PROVE  /\ Used(g, S \cup {t}) = Used(g, S) + Amount(g, t)
         /\ Used(g, S) \in Nat
<1>1. IsFiniteSet(S)
  BY TasksAssumption, FS_Subset
<1>2. CASE g = "worker"
  BY <1>1, <1>2, FS_AddElement, FS_CardinalityType DEF Used, Amount
<1>3. CASE g = "mem"
  <2>1. HasMem
    BY <1>3 DEF Active
  <2>2. Cardinality(Units(S)) \in Nat
    BY <2>1, UnitsFinite, FS_CardinalityType
  <2>3. QED
    BY <1>3, <2>1, <2>2, UnitsAdd DEF Used, Amount
<1>4. QED
  BY <1>2, <1>3 DEF Gates

LEMMA UsedType ==
  ASSUME NEW g \in Gates, Active(g), NEW S \in SUBSET Tasks
  PROVE  Used(g, S) \in Nat
<1>1. IsFiniteSet(S)
  BY TasksAssumption, FS_Subset
<1>2. CASE g = "worker"
  BY <1>1, <1>2, FS_CardinalityType DEF Used
<1>3. CASE g = "mem"
  BY <1>3, UnitsFinite, FS_CardinalityType DEF Used, Active
<1>4. QED
  BY <1>2, <1>3 DEF Gates

LEMMA UsedMonotonic ==
  ASSUME NEW g \in Gates, Active(g), NEW S \in SUBSET Tasks, NEW T \in SUBSET S
  PROVE  Used(g, T) <= Used(g, S)
<1>1. IsFiniteSet(S)
  BY TasksAssumption, FS_Subset
<1>2. CASE g = "worker"
  BY <1>1, <1>2, FS_Subset DEF Used
<1>3. CASE g = "mem"
  <2>1. Units(T) \subseteq Units(S)
    BY DEF Units
  <2>2. IsFiniteSet(Units(S))
    BY <1>3, UnitsFinite DEF Active
  <2>3. QED
    BY <1>3, <2>1, <2>2, FS_Subset DEF Used
<1>4. QED
  BY <1>2, <1>3 DEF Gates

\* How a move of one goroutine changes the set of holders.
LEMMA AtMove ==
  ASSUME Shape, NEW t \in Tasks, NEW l, pc' = [pc EXCEPT ![t] = l], NEW H
  PROVE  At(H)' = IF l \in H THEN At(H) \cup {t} ELSE At(H) \ {t}
BY DEF At, Shape

\* A move that takes and returns nothing.
LEMMA TokensFrame ==
  ASSUME Shape, TokensOK, UNCHANGED cur,
         NEW t \in Tasks, NEW l, pc' = [pc EXCEPT ![t] = l],
         \A g \in Gates : Active(g) => (pc[t] \in Holding(g) <=> l \in Holding(g)),
         ~HasMem => l \notin {"memQ", "memGot", "releaseMem"}
  PROVE  TokensOK'
<1>1. ASSUME NEW g \in Gates, Active(g)
      PROVE  At(Holding(g))' = At(Holding(g))
  BY <1>1, AtMove DEF At
<1>2. ~HasMem => At({"memQ", "memGot", "releaseMem"})' = {}
  BY DEF TokensOK, At, Shape
<1>3. QED
  BY <1>1, <1>2 DEF TokensOK, Used, Units, Active, Size, Holding

\* A move that takes the tokens of one gate.
LEMMA TokensTaken ==
  ASSUME Shape, TokensOK, NEW g \in Gates, Active(g), NEW t \in Tasks, NEW l,
         pc' = [pc EXCEPT ![t] = l],
         cur' = [cur EXCEPT ![g] = @ + Amount(g, t)], Fits(g, t),
         pc[t] \notin Holding(g), l \in Holding(g),
         \A h \in Gates \ {g} :
           Active(h) => (pc[t] \in Holding(h) <=> l \in Holding(h)),
         ~HasMem => l \notin {"memQ", "memGot", "releaseMem"}
  PROVE  TokensOK'
<1>1. At(Holding(g))' = At(Holding(g)) \cup {t} /\ t \in Tasks \ At(Holding(g))
  BY AtMove DEF At
<1>2. cur'[g] = cur[g] + Amount(g, t) /\ \A h \in Gates \ {g} : cur'[h] = cur[h]
  BY DEF Shape
<1>3. Used(g, At(Holding(g)) \cup {t}) = Used(g, At(Holding(g))) + Amount(g, t)
  BY <1>1, UsedAdd DEF At
<1>4. cur'[g] = Used(g, At(Holding(g))') /\ cur'[g] <= Size(g)
  BY <1>1, <1>2, <1>3 DEF TokensOK, Fits
<1>5. ASSUME NEW h \in Gates \ {g}, Active(h)
      PROVE  cur'[h] = Used(h, At(Holding(h))') /\ cur'[h] <= Size(h)
  <2>1. At(Holding(h))' = At(Holding(h))
    BY <1>5, AtMove DEF At
  <2>2. QED
    BY <1>2, <1>5, <2>1 DEF TokensOK
<1>6. ~HasMem => cur'["mem"] = 0 /\ At({"memQ", "memGot", "releaseMem"})' = {}
  BY <1>2 DEF TokensOK, Active, Gates, At, Shape
<1>7. QED
  BY <1>4, <1>5, <1>6 DEF TokensOK, Used, Units, Active, Size, Holding

\* A move that gives them back.
LEMMA TokensReturned ==
  ASSUME Shape, TokensOK, NEW g \in Gates, Active(g), NEW t \in Tasks, NEW l,
         pc' = [pc EXCEPT ![t] = l],
         cur' = [cur EXCEPT ![g] = @ - Amount(g, t)],
         pc[t] \in Holding(g), l \notin Holding(g),
         \A h \in Gates \ {g} :
           Active(h) => (pc[t] \in Holding(h) <=> l \in Holding(h)),
         ~HasMem => l \notin {"memQ", "memGot", "releaseMem"}
  PROVE  TokensOK'
<1> DEFINE rest == At(Holding(g)) \ {t}
<1>1. At(Holding(g))' = rest /\ At(Holding(g)) = rest \cup {t}
  <2>1. At(Holding(g))' = rest
    BY AtMove
  <2>2. t \in At(Holding(g))
    BY DEF At
  <2>3. QED
    BY <2>1, <2>2
<1>2. rest \in SUBSET Tasks /\ t \in Tasks \ rest
  BY DEF At
<1>3. cur'[g] = cur[g] - Amount(g, t) /\ \A h \in Gates \ {g} : cur'[h] = cur[h]
  BY DEF Shape
<1> HIDE DEF rest
<1>4. Used(g, rest \cup {t}) = Used(g, rest) + Amount(g, t) /\ Used(g, rest) \in Nat
  BY <1>2, UsedAdd
<1>5. cur[g] = Used(g, rest) + Amount(g, t) /\ cur[g] <= Size(g) /\ Size(g) \in Int
  <2>1. Size(g) \in Int
    BY SizeAssumption, NeedType DEF Size
  <2>2. cur[g] = Used(g, At(Holding(g))) /\ cur[g] <= Size(g)
    BY DEF TokensOK
  <2>3. QED
    BY <1>1, <1>4, <2>1, <2>2
<1>6. cur'[g] = Used(g, At(Holding(g))') /\ cur'[g] <= Size(g)
  <2>1. cur'[g] = Used(g, rest) /\ cur'[g] <= Size(g)
    BY <1>3, <1>4, <1>5, AmountType
  <2>2. QED
    BY <1>1, <2>1
<1>7. ASSUME NEW h \in Gates \ {g}, Active(h)
      PROVE  cur'[h] = Used(h, At(Holding(h))') /\ cur'[h] <= Size(h)
  <2>1. At(Holding(h))' = At(Holding(h))
    BY <1>7, AtMove DEF At
  <2>2. QED
    BY <1>3, <1>7, <2>1 DEF TokensOK
<1>8. ~HasMem => cur'["mem"] = 0 /\ At({"memQ", "memGot", "releaseMem"})' = {}
  BY <1>3 DEF TokensOK, Active, Gates, At, Shape
<1>9. QED
  BY <1>6, <1>7, <1>8 DEF TokensOK, Used, Units, Active, Size, Holding

\* A move between places where no token is held.
LEMMA TokensOutside ==
  ASSUME Shape, TokensOK, UNCHANGED cur,
         NEW t \in Tasks, pc[t] \in {"new", "go", "joined", "leave", "return"},
         NEW l \in {"go", "joined", "worker", "return", "done"},
         pc' = [pc EXCEPT ![t] = l]
  PROVE  TokensOK'
<1>1. \A g \in Gates : pc[t] \notin Holding(g) /\ l \notin Holding(g)
  BY DEF Holding
<1>2. QED
  BY <1>1, TokensFrame

LEMMA TokensInit == Init => TokensOK
<1> SUFFICES ASSUME Init PROVE TokensOK
  OBVIOUS
<1>1. \A H \in SUBSET (Location \ {"new"}) : At(H) = {}
  BY DEF Init, At
<1>2. \A g \in Gates : At(Holding(g)) = {}
  BY <1>1 DEF Holding, Location
<1>3. Units({}) = {} /\ Cardinality({}) = 0
  BY FS_EmptySet DEF Units
<1>4. \A g \in Gates : cur[g] = 0 /\ (Active(g) => 0 <= Size(g))
  BY NeedType DEF Init, Size, Active, Gates
<1>5. At({"memQ", "memGot", "releaseMem"}) = {} /\ cur["mem"] = 0
  BY <1>1, <1>4 DEF Location, Gates
<1>6. QED
  BY <1>2, <1>3, <1>4, <1>5 DEF TokensOK, Used

LEMMA TokensStep == Shape /\ QueueOK /\ TokensOK /\ [Next]_vars => TokensOK'
<1> SUFFICES ASSUME Shape, QueueOK, TokensOK, [Next]_vars PROVE TokensOK'
  OBVIOUS
<1>1. ASSUME UNCHANGED <<pc, cur>> PROVE TokensOK'
  BY <1>1 DEF TokensOK, Used, Units, At, Active, Size, Holding
<1>2. ASSUME NEW t \in Tasks, Submit(t) PROVE TokensOK'
  BY <1>2, TokensOutside DEF Submit
<1>3. ASSUME NEW t \in Tasks, Lead(t) PROVE TokensOK'
  BY <1>3, TokensOutside DEF Lead
<1>4. ASSUME NEW t \in Tasks, Join(t) PROVE TokensOK'
  BY <1>4, TokensOutside DEF Join
<1>5. ASSUME NEW t \in Tasks, Leave(t) PROVE TokensOK'
  BY <1>5, TokensOutside DEF Leave
<1>6. ASSUME NEW t \in Tasks, Released(t) PROVE TokensOK'
  BY <1>6, TokensOutside DEF Released
<1>7. ASSUME NEW t \in Tasks, NEW g \in Gates, Refuse(g, t) PROVE TokensOK'
  <2>1. pc[t] = g /\ pc' = [pc EXCEPT ![t] = Refused(g)] /\ UNCHANGED cur
    BY <1>7 DEF Refuse, AtGate, Fail
  <2>2. \A h \in Gates : pc[t] \in Holding(h) <=> Refused(g) \in Holding(h)
    BY <2>1 DEF Holding, Refused, Gates
  <2>3. QED
    BY <2>1, <2>2, TokensFrame DEF Refused
<1>8. ASSUME NEW t \in Tasks, NEW g \in Gates, Take(g, t) PROVE TokensOK'
  <2> DEFINE l == IF g = "worker" THEN "mem" ELSE "fn"
  <2>1. /\ pc[t] = g /\ (g = "mem" => HasMem) /\ Fits(g, t)
        /\ pc' = [pc EXCEPT ![t] = l]
        /\ cur' = [cur EXCEPT ![g] = @ + Amount(g, t)]
    BY <1>8 DEF Take, AtGate
  <2>2. /\ Active(g) /\ pc[t] \notin Holding(g) /\ l \in Holding(g)
        /\ \A h \in Gates \ {g} : pc[t] \in Holding(h) <=> l \in Holding(h)
        /\ l \notin {"memQ", "memGot", "releaseMem"}
    BY <2>1 DEF Holding, Active, Gates
  <2> HIDE DEF l
  <2>3. QED
    BY <2>1, <2>2, TokensTaken
<1>9. ASSUME NEW t \in Tasks, NEW g \in Gates, Enqueue(g, t) PROVE TokensOK'
  <2>1. /\ pc[t] = g /\ (g = "mem" => HasMem)
        /\ pc' = [pc EXCEPT ![t] = Queued(g)] /\ UNCHANGED cur
    BY <1>9 DEF Enqueue, AtGate
  <2>2. \A h \in Gates : pc[t] \in Holding(h) <=> Queued(g) \in Holding(h)
    BY <2>1 DEF Holding, Queued, Gates
  <2>3. QED
    BY <2>1, <2>2, TokensFrame DEF Queued, Gates
<1>10. ASSUME NEW g \in Gates, Grant(g) PROVE TokensOK'
  <2> DEFINE t == Head(queue[g])
  <2>1. /\ queue[g] # <<>> /\ t \in Tasks /\ Fits(g, t)
        /\ pc' = [pc EXCEPT ![t] = Granted(g)]
        /\ cur' = [cur EXCEPT ![g] = @ + Amount(g, t)]
    BY <1>10 DEF Grant, Shape
  <2>2. pc[t] = Queued(g)
    <3>1. 1 \in 1..Len(queue[g]) /\ t = queue[g][1]
      BY <2>1, LenProperties DEF Shape
    <3>2. QED
      BY <3>1 DEF QueueOK
  <2>3. Active(g)
    BY <2>1, <2>2 DEF TokensOK, At, Active, Queued, Gates
  <2>4. /\ pc[t] \notin Holding(g) /\ Granted(g) \in Holding(g)
        /\ \A h \in Gates \ {g} : pc[t] \in Holding(h) <=> Granted(g) \in Holding(h)
        /\ ~HasMem => Granted(g) \notin {"memQ", "memGot", "releaseMem"}
    BY <2>2, <2>3 DEF Holding, Queued, Granted, Active, Gates
  <2> HIDE DEF t
  <2>5. QED
    BY <2>1, <2>3, <2>4, TokensTaken
<1>11. ASSUME NEW t \in Tasks, NEW g \in Gates, Wake(g, t) PROVE TokensOK'
  <2>1. pc[t] = Granted(g)
    BY <1>11 DEF Wake
  <2>2. Active(g)
    BY <2>1 DEF TokensOK, At, Active, Granted, Gates
  <2>3. CASE Cancelled
    <3>1. /\ pc' = [pc EXCEPT ![t] = Refused(g)]
          /\ cur' = [cur EXCEPT ![g] = @ - Amount(g, t)]
      BY <1>11, <2>3 DEF Wake, Fail
    <3>2. /\ pc[t] \in Holding(g) /\ Refused(g) \notin Holding(g)
          /\ \A h \in Gates \ {g} : pc[t] \in Holding(h) <=> Refused(g) \in Holding(h)
          /\ Refused(g) \notin {"memQ", "memGot", "releaseMem"}
      BY <2>1 DEF Holding, Granted, Refused, Gates
    <3>3. QED
      BY <2>2, <3>1, <3>2, TokensReturned
  <2>4. CASE ~Cancelled
    <3> DEFINE l == IF g = "worker" THEN "mem" ELSE "fn"
    <3>1. pc' = [pc EXCEPT ![t] = l] /\ UNCHANGED cur
      BY <1>11, <2>4 DEF Wake
    <3>2. /\ \A h \in Gates : pc[t] \in Holding(h) <=> l \in Holding(h)
          /\ l \notin {"memQ", "memGot", "releaseMem"}
      BY <2>1 DEF Holding, Granted, Gates
    <3> HIDE DEF l
    <3>3. QED
      BY <3>1, <3>2, TokensFrame
  <2>5. QED
    BY <2>3, <2>4
<1>12. ASSUME NEW t \in Tasks, NEW g \in Gates, GiveUp(g, t) PROVE TokensOK'
  <2>1. pc' = [pc EXCEPT ![t] = Refused(g)] /\ pc[t] = Queued(g) /\ UNCHANGED cur
    BY <1>12 DEF GiveUp, Fail, QueueOK
  <2>2. /\ \A h \in Gates : pc[t] \in Holding(h) <=> Refused(g) \in Holding(h)
        /\ Refused(g) \notin {"memQ", "memGot", "releaseMem"}
    BY <2>1 DEF Holding, Queued, Refused, Gates
  <2>3. QED
    BY <2>1, <2>2, TokensFrame
<1>13. ASSUME NEW t \in Tasks, SkipMemGate(t) PROVE TokensOK'
  BY <1>13, TokensFrame DEF SkipMemGate, Holding, Active
<1>14. ASSUME NEW t \in Tasks, Run(t) PROVE TokensOK'
  <2> DEFINE l == IF HasMem THEN "releaseMem" ELSE "releaseWorker"
  <2>1. pc[t] = "fn" /\ pc' = [pc EXCEPT ![t] = l] /\ UNCHANGED cur
    BY <1>14 DEF Run
  <2>2. /\ \A h \in Gates : Active(h) => (pc[t] \in Holding(h) <=> l \in Holding(h))
        /\ ~HasMem => l \notin {"memQ", "memGot", "releaseMem"}
    BY <2>1 DEF Holding, Active, Gates
  <2> HIDE DEF l
  <2>3. QED
    BY <2>1, <2>2, TokensFrame
<1>15. ASSUME NEW t \in Tasks, NEW g \in Gates, Release(g, t) PROVE TokensOK'
  <2> DEFINE l == IF g = "worker" THEN "leave" ELSE "releaseWorker"
  <2>1. /\ pc[t] = IF g = "worker" THEN "releaseWorker" ELSE "releaseMem"
        /\ pc' = [pc EXCEPT ![t] = l]
        /\ cur' = [cur EXCEPT ![g] = @ - Amount(g, t)]
    BY <1>15 DEF Release
  <2>2. Active(g)
    BY <2>1 DEF TokensOK, At, Active, Gates
  <2>3. /\ pc[t] \in Holding(g) /\ l \notin Holding(g)
        /\ \A h \in Gates \ {g} : pc[t] \in Holding(h) <=> l \in Holding(h)
        /\ l \notin {"memQ", "memGot", "releaseMem"}
    BY <2>1 DEF Holding, Gates
  <2> HIDE DEF l
  <2>4. QED
    BY <2>1, <2>2, <2>3, TokensReturned
<1>16. ASSUME NEW t \in Tasks, Return(t) PROVE TokensOK'
  BY <1>16, TokensOutside DEF Return
<1>17. QED
  BY <1>1, <1>2, <1>3, <1>4, <1>5, <1>6, <1>7, <1>8, <1>9, <1>10, <1>11, <1>12,
     <1>13, <1>14, <1>15, <1>16
     DEF Next, Goroutine, Acquire, Pass, CallWait, WaitReturns, ParentCancels, vars

THEOREM TokensHold == Spec => []TokensOK
BY ShapeHolds, QueueHolds, TokensInit, TokensStep, PTL DEF Spec
-----------------------------------------------------------------------------
(* What the gates promise.                                                 *)

\* The state of the pool is always well formed; no release takes a counter
\* below zero.
THEOREM TypeCorrect == Spec => []TypeOK
<1>1. Shape /\ TokensOK => TypeOK
  <2> SUFFICES ASSUME Shape, TokensOK, NEW g \in Gates PROVE cur[g] >= 0
    BY DEF Shape, TypeOK
  <2>1. CASE Active(g)
    <3>1. Used(g, At(Holding(g))) \in Nat
      BY <2>1, UsedType DEF At
    <3>2. QED
      BY <2>1, <3>1 DEF TokensOK
  <2>2. CASE ~Active(g)
    BY <2>2 DEF TokensOK, Active, Gates
  <2>3. QED
    BY <2>1, <2>2
<1>2. QED
  BY <1>1, ShapeHolds, TokensHold, PTL

\* Never more than Workers tasks at a time, for any number of tasks.
THEOREM WorkersAreBounded == Spec => []WorkersBounded
<1>1. Shape /\ TokensOK => WorkersBounded
  <2> SUFFICES ASSUME Shape, TokensOK PROVE WorkersBounded
    OBVIOUS
  <2>1. At({"fn"}) \subseteq At(Holding("worker")) /\ At(Holding("worker")) \subseteq Tasks
    BY DEF At, Holding
  <2>2. Used("worker", At({"fn"})) <= Used("worker", At(Holding("worker")))
    BY <2>1, UsedMonotonic DEF Gates, Active
  <2>3. Used("worker", At(Holding("worker"))) = cur["worker"] /\ cur["worker"] <= Workers
    BY DEF TokensOK, Active, Gates, Size
  <2>4. Used("worker", At({"fn"})) \in Nat /\ cur["worker"] \in Int /\ Workers \in Nat
    BY <2>1, UsedType, NeedType DEF Gates, Active, Shape
  <2>5. QED
    BY <2>2, <2>3, <2>4 DEF WorkersBounded, Used
<1>2. QED
  BY <1>1, ShapeHolds, TokensHold, PTL

\* Never more memory than the budget, for any estimates.
THEOREM MemoryIsBounded == Spec => []MemoryBounded
<1>1. Shape /\ TokensOK => MemoryBounded
  <2> SUFFICES ASSUME Shape, TokensOK, HasMem
               PROVE  Cardinality(Units(At({"fn"}))) <= MemBudget
    BY DEF MemoryBounded
  <2>1. At({"fn"}) \subseteq At(Holding("mem")) /\ At(Holding("mem")) \subseteq Tasks
    BY DEF At, Holding
  <2>2. Used("mem", At({"fn"})) <= Used("mem", At(Holding("mem")))
    BY <2>1, UsedMonotonic DEF Gates, Active
  <2>3. Used("mem", At(Holding("mem"))) = cur["mem"] /\ cur["mem"] <= MemBudget
    BY DEF TokensOK, Active, Gates, Size
  <2>4. Used("mem", At({"fn"})) \in Nat /\ cur["mem"] \in Int /\ MemBudget \in Nat
    BY <2>1, UsedType, NeedType DEF Gates, Active, Shape
  <2>5. QED
    BY <2>2, <2>3, <2>4 DEF Used
<1>2. QED
  BY <1>1, ShapeHolds, TokensHold, PTL

\* Both limits, for any number of workers, any budget and any estimates.
THEOREM BoundsHold == Spec => []WithinBounds
<1>1. WorkersBounded /\ MemoryBounded => WithinBounds
  BY DEF WithinBounds
<1>2. QED
  BY <1>1, WorkersAreBounded, MemoryIsBounded, PTL
-----------------------------------------------------------------------------
(* The singleflight calls.                                                 *)

InFlight == {"worker", "workerQ", "workerGot", "mem", "memQ", "memGot", "fn",
             "releaseMem", "releaseWorker", "leave"}

FlightOK ==
  /\ flight = At(InFlight)
  /\ \A t, u \in flight : KeyOf[t] = KeyOf[u] => t = u

\* A move inside a call or outside of every call.
LEMMA FlightFrame ==
  ASSUME Shape, FlightOK, UNCHANGED flight, NEW t \in Tasks, NEW l,
         pc' = [pc EXCEPT ![t] = l], pc[t] \in InFlight <=> l \in InFlight
  PROVE  FlightOK'
<1>1. At(InFlight)' = At(InFlight)
  BY AtMove DEF At
<1>2. QED
  BY <1>1 DEF FlightOK

LEMMA FlightInit == Init => FlightOK
BY DEF Init, FlightOK, At, InFlight

LEMMA FlightStep == Shape /\ QueueOK /\ FlightOK /\ [Next]_vars => FlightOK'
<1> SUFFICES ASSUME Shape, QueueOK, FlightOK, [Next]_vars PROVE FlightOK'
  OBVIOUS
<1>1. ASSUME UNCHANGED <<pc, flight>> PROVE FlightOK'
  BY <1>1 DEF FlightOK, At
<1>2. ASSUME NEW t \in Tasks, Submit(t) PROVE FlightOK'
  BY <1>2, FlightFrame DEF Submit, InFlight
<1>3. ASSUME NEW t \in Tasks, Lead(t) PROVE FlightOK'
  <2>1. At(InFlight)' = At(InFlight) \cup {t}
    <3>1. pc' = [pc EXCEPT ![t] = "worker"] /\ "worker" \in InFlight
      BY <1>3 DEF Lead, InFlight
    <3>2. QED
      BY <3>1, AtMove
  <2>2. QED
    BY <1>3, <2>1 DEF Lead, FlightOK
<1>4. ASSUME NEW t \in Tasks, Join(t) PROVE FlightOK'
  BY <1>4, FlightFrame DEF Join, InFlight
<1>5. ASSUME NEW t \in Tasks, Leave(t) PROVE FlightOK'
  <2>1. At(InFlight)' = At(InFlight) \ {t}
    <3>1. pc' = [pc EXCEPT ![t] = "return"] /\ "return" \notin InFlight
      BY <1>5 DEF Leave, InFlight
    <3>2. QED
      BY <3>1, AtMove
  <2>2. QED
    BY <1>5, <2>1 DEF Leave, FlightOK
<1>6. ASSUME NEW t \in Tasks, Released(t) PROVE FlightOK'
  BY <1>6, FlightFrame DEF Released, InFlight
<1>7. ASSUME NEW t \in Tasks, NEW g \in Gates, Refuse(g, t) PROVE FlightOK'
  BY <1>7, FlightFrame DEF Refuse, AtGate, Fail, Refused, InFlight, Gates
<1>8. ASSUME NEW t \in Tasks, NEW g \in Gates, Take(g, t) PROVE FlightOK'
  BY <1>8, FlightFrame DEF Take, AtGate, InFlight, Gates
<1>9. ASSUME NEW t \in Tasks, NEW g \in Gates, Enqueue(g, t) PROVE FlightOK'
  BY <1>9, FlightFrame DEF Enqueue, AtGate, Queued, InFlight, Gates
<1>10. ASSUME NEW g \in Gates, Grant(g) PROVE FlightOK'
  <2> DEFINE t == Head(queue[g])
  <2>1. t \in Tasks /\ pc' = [pc EXCEPT ![t] = Granted(g)] /\ UNCHANGED flight
    BY <1>10 DEF Grant, Shape
  <2>2. 1 \in 1..Len(queue[g]) /\ t = queue[g][1]
    BY <1>10, LenProperties DEF Grant, Shape
  <2>3. pc[t] \in InFlight /\ Granted(g) \in InFlight
    BY <2>2 DEF QueueOK, Queued, Granted, InFlight
  <2> HIDE DEF t
  <2>4. QED
    BY <2>1, <2>3, FlightFrame
<1>11. ASSUME NEW t \in Tasks, NEW g \in Gates, Wake(g, t) PROVE FlightOK'
  <2>1. pc[t] \in InFlight /\ UNCHANGED flight
    BY <1>11 DEF Wake, Granted, InFlight
  <2>2. PICK l \in InFlight : pc' = [pc EXCEPT ![t] = l]
    BY <1>11 DEF Wake, Fail, Refused, InFlight
  <2>3. QED
    BY <2>1, <2>2, FlightFrame
<1>12. ASSUME NEW t \in Tasks, NEW g \in Gates, GiveUp(g, t) PROVE FlightOK'
  <2>1. pc[t] = Queued(g) /\ pc' = [pc EXCEPT ![t] = Refused(g)] /\ UNCHANGED flight
    BY <1>12 DEF GiveUp, Fail, QueueOK
  <2>2. pc[t] \in InFlight /\ Refused(g) \in InFlight
    BY <2>1 DEF Queued, Refused, InFlight
  <2>3. QED
    BY <2>1, <2>2, FlightFrame
<1>13. ASSUME NEW t \in Tasks, SkipMemGate(t) PROVE FlightOK'
  BY <1>13, FlightFrame DEF SkipMemGate, InFlight
<1>14. ASSUME NEW t \in Tasks, Run(t) PROVE FlightOK'
  BY <1>14, FlightFrame DEF Run, InFlight
<1>15. ASSUME NEW t \in Tasks, NEW g \in Gates, Release(g, t) PROVE FlightOK'
  BY <1>15, FlightFrame DEF Release, InFlight
<1>16. ASSUME NEW t \in Tasks, Return(t) PROVE FlightOK'
  BY <1>16, FlightFrame DEF Return, InFlight
<1>17. QED
  BY <1>1, <1>2, <1>3, <1>4, <1>5, <1>6, <1>7, <1>8, <1>9, <1>10, <1>11, <1>12,
     <1>13, <1>14, <1>15, <1>16
     DEF Next, Goroutine, Acquire, Pass, CallWait, WaitReturns, ParentCancels, vars

THEOREM FlightHolds == Spec => []FlightOK
BY ShapeHolds, QueueHolds, FlightInit, FlightStep, PTL DEF Spec

\* Two submissions of one key are never between the gates together.
THEOREM SameKeyIsExclusive == Spec => []SameKeyExclusive
<1>1. FlightOK => SameKeyExclusive
  BY DEF FlightOK, SameKeyExclusive, At, InFlight
<1>2. QED
  BY <1>1, FlightHolds, PTL

\* When Wait is back every token is back, every queue empty, every key free.
THEOREM NothingIsLeftBehind == Spec => []NothingLeftBehind
<1> DEFINE AllOut == phase = "returned" => \A t \in Tasks : pc[t] \in {"new", "done"}
<1>1. Init => AllOut
  BY DEF Init
<1>2. Shape /\ QueueOK /\ AllOut /\ [Next]_vars => AllOut'
  <2> SUFFICES ASSUME Shape, QueueOK, AllOut, [Next]_vars, phase' = "returned"
               PROVE  \A t \in Tasks : pc'[t] \in {"new", "done"}
    OBVIOUS
  <2>1. CASE WaitReturns
    BY <2>1 DEF WaitReturns
  <2>2. CASE UNCHANGED <<pc, phase>>
    BY <2>2
  <2>3. ASSUME phase = "returned", NEW t \in Tasks, Goroutine(t) PROVE FALSE
    <3>1. pc[t] \in {"new", "done"}
      BY <2>3
    <3>2. \A g \in Gates : ~GiveUp(g, t)
      BY <3>1 DEF GiveUp, QueueOK, Queued
    <3>3. \A g \in Gates : ~Refuse(g, t) /\ ~Take(g, t) /\ ~Enqueue(g, t)
      BY <3>1 DEF Refuse, Take, Enqueue, AtGate, Gates
    <3>4. \A g \in Gates : ~Wake(g, t) /\ ~Release(g, t)
      BY <3>1 DEF Wake, Granted, Release
    <3>5. QED
      BY <2>3, <3>1, <3>2, <3>3, <3>4
         DEF Goroutine, Acquire, Pass, Lead, Join, SkipMemGate, Run, Leave, Released, Return
  <2>4. ASSUME phase = "returned", NEW g \in Gates, Grant(g) PROVE FALSE
    <3>1. 1 \in 1..Len(queue[g]) /\ queue[g][1] \in Tasks
      BY <2>4, LenProperties, ElementOfSeq DEF Grant, Shape
    <3>2. pc[queue[g][1]] = Queued(g)
      BY <3>1 DEF QueueOK
    <3>3. QED
      BY <2>4, <3>1, <3>2 DEF Queued
  <2>5. phase = "returned" \/ WaitReturns \/ UNCHANGED vars
    BY DEF Next, Goroutine, Acquire, Pass, Submit, CallWait, ParentCancels, Grant, Lead, Join,
           Leave, Released, Refuse, Take, Enqueue, Wake, GiveUp, SkipMemGate, Run,
           Release, Return, vars
  <2>6. QED
    BY <2>1, <2>2, <2>3, <2>4, <2>5 DEF Next, Submit, CallWait, ParentCancels, vars
<1>3. Shape /\ QueueOK /\ TokensOK /\ FlightOK /\ AllOut => NothingLeftBehind
  <2> SUFFICES ASSUME Shape, QueueOK, TokensOK, FlightOK,
                      \A t \in Tasks : pc[t] \in {"new", "done"}
               PROVE  /\ \A g \in Gates : cur[g] = 0 /\ queue[g] = <<>>
                      /\ flight = {}
    BY DEF NothingLeftBehind
  <2>1. flight = {}
    BY DEF FlightOK, At, InFlight
  <2>2. ASSUME NEW g \in Gates PROVE queue[g] = <<>>
    <3> SUFFICES ASSUME queue[g] # <<>> PROVE FALSE
      OBVIOUS
    <3>1. 1 \in 1..Len(queue[g]) /\ queue[g][1] \in Tasks
      BY LenProperties, ElementOfSeq, EmptySeq DEF Shape
    <3>2. pc[queue[g][1]] = Queued(g)
      BY <3>1 DEF QueueOK
    <3>3. QED
      BY <3>1, <3>2 DEF Queued
  <2>3. \A g \in Gates : At(Holding(g)) = {}
    BY DEF At, Holding
  <2>4. Units({}) = {} /\ Cardinality({}) = 0
    BY FS_EmptySet DEF Units
  <2>5. ASSUME NEW g \in Gates PROVE cur[g] = 0
    <3>1. CASE Active(g)
      BY <2>3, <2>4, <3>1 DEF TokensOK, Used
    <3>2. CASE ~Active(g)
      BY <3>2 DEF TokensOK, Active, Gates
    <3>3. QED
      BY <3>1, <3>2
  <2>6. QED
    BY <2>1, <2>2, <2>5
<1>4. QED
  BY <1>1, <1>2, <1>3, ShapeHolds, QueueHolds, TokensHold, FlightHolds, PTL DEF Spec
-----------------------------------------------------------------------------
(* The outcomes and the error Wait reports.                                *)

\* Where a goroutine's call has its result.
Answered == {"releaseMem", "releaseWorker", "leave", "return", "done"}

Failed(t) == outcome[t] \in {"err", "ctx"}

OutcomeOK ==
  /\ \A t \in Tasks :
       /\ pc[t] \in Answered <=> outcome[t] # "none"
       /\ pc[t] = "joined" => /\ pc[leader[t]] \notin {"new", "go", "joined"}
                              /\ KeyOf[leader[t]] = KeyOf[t]
       /\ outcome[t] = "ctx" => Cancelled
       /\ pc[t] = "done" /\ Failed(t) => err # "none"
  /\ err # "none" => \E t \in Tasks : pc[t] = "done" /\ Failed(t)
  /\ cause = "task" => err # "none"
  /\ cause = "wait" => phase = "returned"
  /\ phase = "returned" => \A t \in Tasks : pc[t] \in {"new", "done"}
  /\ err = "ctx" => cause = "caller"

LEMMA OutcomeInit == Init => OutcomeOK
BY DEF Init, OutcomeOK, Failed, Answered

\* A move of a goroutine that has not yet returned and that neither cancels
\* nor records an error.
LEMMA OutcomeFrame ==
  ASSUME Shape, OutcomeOK, UNCHANGED <<cause, err, phase>>, phase # "returned",
         NEW t \in Tasks, pc[t] # "done",
         NEW l, pc' = [pc EXCEPT ![t] = l], l \notin {"new", "joined", "done"},
         l = "go" => pc[t] = "new",
         NEW o, outcome' = [outcome EXCEPT ![t] = o],
         l \in Answered <=> o # "none",
         o = "ctx" => Cancelled,
         UNCHANGED leader
  PROVE  OutcomeOK'
<1>1. ASSUME NEW u \in Tasks
      PROVE  /\ pc'[u] \in Answered <=> outcome'[u] # "none"
             /\ outcome'[u] = "ctx" => Cancelled'
             /\ pc'[u] = "done" /\ Failed(u)' => err' # "none"
  BY DEF OutcomeOK, Shape, Cancelled, Failed
<1>2. ASSUME NEW u \in Tasks, pc'[u] = "joined"
      PROVE  pc'[leader'[u]] \notin {"new", "go", "joined"} /\ KeyOf[leader'[u]] = KeyOf[u]
  <2>1. pc[u] = "joined" /\ leader[u] \in Tasks
    BY <1>2 DEF Shape
  <2>2. pc[leader[u]] \notin {"new", "go", "joined"} /\ KeyOf[leader[u]] = KeyOf[u]
    BY <2>1 DEF OutcomeOK
  <2>3. QED
    BY <2>1, <2>2 DEF Shape
<1>3. err' # "none" => \E u \in Tasks : pc'[u] = "done" /\ Failed(u)'
  <2> SUFFICES ASSUME err # "none"
               PROVE  \E u \in Tasks : pc'[u] = "done" /\ Failed(u)'
    OBVIOUS
  <2>1. PICK u \in Tasks : pc[u] = "done" /\ Failed(u)
    BY DEF OutcomeOK
  <2>2. pc'[u] = "done" /\ Failed(u)'
    BY <2>1 DEF Shape, Failed
  <2>3. QED
    BY <2>2
<1>4. QED
  BY <1>1, <1>2, <1>3 DEF OutcomeOK

LEMMA OutcomeSame ==
  ASSUME Shape, OutcomeOK, UNCHANGED <<leader, outcome, cause, err, phase>>,
         phase # "returned", NEW t \in Tasks, pc[t] # "done",
         NEW l, pc' = [pc EXCEPT ![t] = l], l \notin {"new", "joined", "done"},
         l = "go" => pc[t] = "new",
         l \in Answered <=> pc[t] \in Answered
  PROVE  OutcomeOK'
<1>1. outcome' = [outcome EXCEPT ![t] = outcome[t]]
  BY DEF Shape
<1>2. outcome[t] = "ctx" => Cancelled
  BY DEF OutcomeOK
<1>3. QED
  BY <1>1, <1>2, OutcomeFrame DEF OutcomeOK

LEMMA OutcomeStep == Shape /\ QueueOK /\ FlightOK /\ OutcomeOK /\ [Next]_vars => OutcomeOK'
<1> SUFFICES ASSUME Shape, QueueOK, FlightOK, OutcomeOK, [Next]_vars PROVE OutcomeOK'
  OBVIOUS
<1>3. ASSUME NEW t \in Tasks, pc[t] \notin {"new", "done"} PROVE phase # "returned"
  BY <1>3 DEF OutcomeOK
<1>4. ASSUME NEW t \in Tasks, Submit(t) PROVE OutcomeOK'
  BY <1>4, OutcomeSame DEF Submit, Answered
<1>5. CASE CallWait
  BY <1>5 DEF CallWait, OutcomeOK, Failed, Cancelled
<1>6. CASE WaitReturns
  BY <1>6 DEF WaitReturns, Cancel, Cancelled, OutcomeOK, Failed, Shape
<1>7. CASE ParentCancels
  BY <1>7 DEF ParentCancels, Cancel, Cancelled, OutcomeOK, Failed, Shape
<1>8. ASSUME NEW t \in Tasks, Lead(t) PROVE OutcomeOK'
  BY <1>3, <1>8, OutcomeSame DEF Lead, Answered
<1>9. ASSUME NEW t \in Tasks, Join(t) PROVE OutcomeOK'
  <2>1. PICK u \in flight : KeyOf[u] = KeyOf[t] /\ leader' = [leader EXCEPT ![t] = u]
    BY <1>9 DEF Join
  <2>2. u \in Tasks /\ pc[u] \in InFlight
    BY <2>1 DEF FlightOK, At, Shape
  <2>3. /\ pc[t] = "go" /\ pc' = [pc EXCEPT ![t] = "joined"]
        /\ UNCHANGED <<outcome, cause, err, phase>>
    BY <1>9 DEF Join
  <2>4. ASSUME NEW v \in Tasks, pc'[v] = "joined"
        PROVE  pc'[leader'[v]] \notin {"new", "go", "joined"} /\ KeyOf[leader'[v]] = KeyOf[v]
    <3>1. CASE v = t
      BY <2>1, <2>2, <2>3, <3>1 DEF Shape, InFlight
    <3>2. CASE v # t
      <4>1. pc[v] = "joined" /\ leader'[v] = leader[v] /\ leader[v] \in Tasks
        BY <2>1, <2>3, <2>4, <3>2 DEF Shape
      <4>2. pc[leader[v]] \notin {"new", "go", "joined"} /\ KeyOf[leader[v]] = KeyOf[v]
        BY <4>1 DEF OutcomeOK
      <4>3. QED
        BY <2>3, <4>1, <4>2 DEF Shape
    <3>3. QED
      BY <3>1, <3>2
  <2>5. ASSUME NEW v \in Tasks
        PROVE  /\ pc'[v] \in Answered <=> outcome'[v] # "none"
               /\ outcome'[v] = "ctx" => Cancelled'
               /\ pc'[v] = "done" /\ Failed(v)' => err' # "none"
    BY <2>3 DEF OutcomeOK, Shape, Cancelled, Failed, Answered
  <2>6. err' # "none" => \E v \in Tasks : pc'[v] = "done" /\ Failed(v)'
    BY <2>3 DEF OutcomeOK, Shape, Failed
  <2>7. phase # "returned"
    BY <1>3, <2>3
  <2>8. QED
    BY <2>3, <2>4, <2>5, <2>6, <2>7 DEF OutcomeOK
<1>10. ASSUME NEW t \in Tasks, Leave(t) PROVE OutcomeOK'
  <2>1. outcome[t] # "none"
    BY <1>10 DEF Leave, OutcomeOK, Answered
  <2>2. QED
    BY <1>3, <1>10, <2>1, OutcomeSame DEF Leave, Answered
<1>11. ASSUME NEW t \in Tasks, Released(t) PROVE OutcomeOK'
  <2>1. pc[t] = "joined" /\ leader[t] \in Tasks /\ leader[t] \notin flight
    BY <1>11 DEF Released, Shape
  <2>2. pc[leader[t]] \in {"return", "done"}
    <3>1. pc[leader[t]] \notin {"new", "go", "joined"} /\ pc[leader[t]] \notin InFlight
      BY <2>1 DEF OutcomeOK, FlightOK, At
    <3>2. QED
      BY <2>1, <3>1 DEF InFlight, Shape, Location
  <2>3. outcome[leader[t]] # "none" /\ (outcome[leader[t]] = "ctx" => Cancelled)
    BY <2>1, <2>2 DEF OutcomeOK, Answered
  <2>4. phase # "returned"
    BY <1>3, <2>1
  <2>5. QED
    BY <1>11, <2>3, <2>4, OutcomeFrame DEF Released, Answered
<1>12. ASSUME NEW t \in Tasks, NEW g \in Gates, Refuse(g, t) PROVE OutcomeOK'
  <2>1. pc[t] = g /\ Cancelled /\ phase # "returned" /\ pc[t] # "done"
    BY <1>3, <1>12 DEF Refuse, AtGate, Gates
  <2>2. QED
    <3>1. PICK l \in {"leave", "releaseWorker"} : pc' = [pc EXCEPT ![t] = l]
      BY <1>12 DEF Refuse, Fail, Refused
    <3>2. QED
      BY <1>12, <2>1, <3>1, OutcomeFrame DEF Refuse, Fail, Answered
<1>13. ASSUME NEW t \in Tasks, NEW g \in Gates, Take(g, t) PROVE OutcomeOK'
  <2>1. pc[t] = g /\ phase # "returned" /\ pc[t] # "done"
    BY <1>3, <1>13 DEF Take, AtGate, Gates
  <2>2. QED
    <3>1. PICK l \in {"mem", "fn"} : pc' = [pc EXCEPT ![t] = l]
      BY <1>13 DEF Take
    <3>2. pc[t] \notin Answered
      BY <2>1 DEF Gates, Answered
    <3>3. UNCHANGED <<leader, outcome, cause, err, phase>>
      BY <1>13 DEF Take
    <3>4. QED
      BY <2>1, <3>1, <3>2, <3>3, OutcomeSame DEF Answered
<1>14. ASSUME NEW t \in Tasks, NEW g \in Gates, Enqueue(g, t) PROVE OutcomeOK'
  <2>1. pc[t] = g /\ phase # "returned" /\ pc[t] # "done"
    BY <1>3, <1>14 DEF Enqueue, AtGate, Gates
  <2>2. QED
    <3>1. PICK l \in {"workerQ", "memQ"} : pc' = [pc EXCEPT ![t] = l]
      BY <1>14 DEF Enqueue, Queued
    <3>2. pc[t] \notin Answered
      BY <2>1 DEF Gates, Answered
    <3>3. UNCHANGED <<leader, outcome, cause, err, phase>>
      BY <1>14 DEF Enqueue
    <3>4. QED
      BY <2>1, <3>1, <3>2, <3>3, OutcomeSame DEF Answered
<1>15. ASSUME NEW g \in Gates, Grant(g) PROVE OutcomeOK'
  <2> DEFINE t == Head(queue[g])
  <2>1. /\ t \in Tasks /\ pc' = [pc EXCEPT ![t] = Granted(g)]
        /\ UNCHANGED <<leader, outcome, cause, err, phase>>
    BY <1>15 DEF Grant, Shape
  <2>2. 1 \in 1..Len(queue[g]) /\ t = queue[g][1]
    BY <1>15, LenProperties DEF Grant, Shape
  <2>3. pc[t] = Queued(g)
    BY <2>2 DEF QueueOK
  <2> HIDE DEF t
  <2>4. phase # "returned" /\ pc[t] # "done"
    BY <1>3, <2>1, <2>3 DEF Queued
  <2>5. QED
    <3>1. PICK l \in {"workerGot", "memGot"} : pc' = [pc EXCEPT ![t] = l]
      BY <2>1 DEF Granted
    <3>2. pc[t] \notin Answered
      BY <2>3 DEF Queued, Answered
    <3>3. QED
      BY <2>1, <2>4, <3>1, <3>2, OutcomeSame DEF Answered
<1>16. ASSUME NEW t \in Tasks, NEW g \in Gates, Wake(g, t) PROVE OutcomeOK'
  <2>1. phase # "returned" /\ pc[t] # "done"
    BY <1>3, <1>16 DEF Wake, Granted
  <2>2. CASE Cancelled
    <3>1. PICK l \in {"leave", "releaseWorker"} : pc' = [pc EXCEPT ![t] = l]
      BY <1>16, <2>2 DEF Wake, Fail, Refused
    <3>2. QED
      BY <1>16, <2>1, <2>2, <3>1, OutcomeFrame DEF Wake, Fail, Answered
  <2>3. CASE ~Cancelled
    <3>1. PICK l \in {"mem", "fn"} : pc' = [pc EXCEPT ![t] = l]
      BY <1>16, <2>3 DEF Wake
    <3>2. pc[t] \notin Answered
      BY <1>16 DEF Wake, Granted, Answered
    <3>3. UNCHANGED <<leader, outcome, cause, err, phase>>
      BY <1>16, <2>3 DEF Wake
    <3>4. QED
      BY <2>1, <3>1, <3>2, <3>3, OutcomeSame DEF Answered
  <2>4. QED
    BY <2>2, <2>3
<1>17. ASSUME NEW t \in Tasks, NEW g \in Gates, GiveUp(g, t) PROVE OutcomeOK'
  <2>1. pc[t] = Queued(g) /\ Cancelled
    BY <1>17 DEF GiveUp, QueueOK
  <2>2. phase # "returned" /\ pc[t] # "done"
    BY <1>3, <2>1 DEF Queued
  <2>3. QED
    <3>1. PICK l \in {"leave", "releaseWorker"} : pc' = [pc EXCEPT ![t] = l]
      BY <1>17 DEF GiveUp, Fail, Refused
    <3>2. QED
      BY <1>17, <2>1, <2>2, <3>1, OutcomeFrame DEF GiveUp, Fail, Answered
<1>18. ASSUME NEW t \in Tasks, SkipMemGate(t) PROVE OutcomeOK'
  BY <1>3, <1>18, OutcomeSame DEF SkipMemGate, Answered
<1>19. ASSUME NEW t \in Tasks, Run(t) PROVE OutcomeOK'
  <2>1. PICK r \in {"ok", "err"} : outcome' = [outcome EXCEPT ![t] = r]
    BY <1>19 DEF Run
  <2>2. phase # "returned"
    BY <1>3, <1>19 DEF Run
  <2>3. QED
    <3>1. PICK l \in {"releaseMem", "releaseWorker"} : pc' = [pc EXCEPT ![t] = l]
      BY <1>19 DEF Run
    <3>2. QED
      BY <1>19, <2>1, <2>2, <3>1, OutcomeFrame DEF Run, Answered
<1>20. ASSUME NEW t \in Tasks, NEW g \in Gates, Release(g, t) PROVE OutcomeOK'
  <2>1. /\ pc[t] \in Answered /\ phase # "returned" /\ pc[t] # "done"
    BY <1>3, <1>20 DEF Release, Answered
  <2>2. PICK l \in {"leave", "releaseWorker"} : pc' = [pc EXCEPT ![t] = l]
    BY <1>20 DEF Release
  <2>3. UNCHANGED <<leader, outcome, cause, err, phase>>
    BY <1>20 DEF Release
  <2>4. QED
    BY <2>1, <2>2, <2>3, OutcomeFrame, OutcomeSame DEF Answered, OutcomeOK
<1>21. ASSUME NEW t \in Tasks, Return(t) PROVE OutcomeOK'
  <2>1. /\ pc[t] = "return" /\ pc' = [pc EXCEPT ![t] = "done"]
        /\ UNCHANGED <<leader, outcome, phase>> /\ outcome[t] # "none"
        /\ phase # "returned"
    BY <1>3, <1>21 DEF Return, OutcomeOK, Answered
  <2>2. err' # "none" => \E u \in Tasks : pc'[u] = "done" /\ Failed(u)'
    <3>1. CASE outcome[t] # "ok" /\ err = "none"
      BY <2>1, <3>1 DEF Failed, Shape, Outcome
    <3>2. CASE ~(outcome[t] # "ok" /\ err = "none")
      BY <1>21, <2>1, <3>2 DEF Return, OutcomeOK, Failed, Shape
    <3>3. QED
      BY <3>1, <3>2
  <2>3. ASSUME NEW u \in Tasks, pc'[u] = "done", Failed(u)' PROVE err' # "none"
    BY <1>21, <2>1, <2>3 DEF Return, OutcomeOK, Failed, Shape
  <2>4. (err' = "ctx" => cause' = "caller") /\ (cause' = "task" => err' # "none")
        /\ (cause' = "wait" => phase' = "returned") /\ (Cancelled => Cancelled')
    BY <1>21, <2>1 DEF Return, Cancel, Cancelled, OutcomeOK, Shape, Outcome
  <2>5. ASSUME NEW u \in Tasks, pc'[u] = "joined"
        PROVE  pc'[leader'[u]] \notin {"new", "go", "joined"} /\ KeyOf[leader'[u]] = KeyOf[u]
    <3>1. pc[u] = "joined" /\ leader[u] \in Tasks
      BY <2>1, <2>5 DEF Shape
    <3>2. pc[leader[u]] \notin {"new", "go", "joined"} /\ KeyOf[leader[u]] = KeyOf[u]
      BY <3>1 DEF OutcomeOK
    <3>3. QED
      BY <2>1, <3>1, <3>2 DEF Shape
  <2>6. ASSUME NEW u \in Tasks
        PROVE  /\ pc'[u] \in Answered <=> outcome'[u] # "none"
               /\ outcome'[u] = "ctx" => Cancelled'
    BY <2>1, <2>4 DEF OutcomeOK, Shape, Answered
  <2>7. QED
    BY <2>1, <2>2, <2>3, <2>4, <2>5, <2>6 DEF OutcomeOK
<1>22. CASE UNCHANGED vars
  BY <1>22 DEF vars, OutcomeOK, Failed, Cancelled
<1>23. QED
  BY <1>4, <1>5, <1>6, <1>7, <1>8, <1>9, <1>10, <1>11, <1>12, <1>13, <1>14, <1>15,
     <1>16, <1>17, <1>18, <1>19, <1>20, <1>21, <1>22
     DEF Next, Goroutine, Acquire, Pass

THEOREM OutcomeHolds == Spec => []OutcomeOK
BY ShapeHolds, QueueHolds, FlightHolds, OutcomeInit, OutcomeStep, PTL DEF Spec

\* Wait's error tells whether a submitted task failed.
THEOREM FailuresAreReported == Spec => []FailureReported
<1>1. Shape /\ OutcomeOK => FailureReported
  <2> SUFFICES ASSUME Shape, OutcomeOK, phase = "returned"
               PROVE  err = "none" <=> \A t \in Tasks : outcome[t] \in {"none", "ok"}
    BY DEF FailureReported
  <2>1. ASSUME NEW t \in Tasks, err = "none" PROVE outcome[t] \in {"none", "ok"}
    BY <2>1 DEF Shape, OutcomeOK, Failed, Outcome, Answered
  <2>2. ASSUME err # "none" PROVE \E t \in Tasks : outcome[t] \notin {"none", "ok"}
    BY <2>2 DEF OutcomeOK, Failed
  <2>3. QED
    BY <2>1, <2>2
<1>2. QED
  BY <1>1, ShapeHolds, OutcomeHolds, PTL

\* A failure is never reported as the cancellation it caused.
THEOREM RootCausesAreReported == Spec => []RootCauseReported
<1>1. OutcomeOK => RootCauseReported
  BY DEF OutcomeOK, RootCauseReported
<1>2. QED
  BY <1>1, OutcomeHolds, PTL

\* What Wait returns is the truth, and the cause rather than its consequences.
THEOREM OutcomesAreReported == Spec => []OutcomeReported
<1>1. FailureReported /\ RootCauseReported => OutcomeReported
  BY DEF OutcomeReported
<1>2. QED
  BY <1>1, FailuresAreReported, RootCausesAreReported, PTL
-----------------------------------------------------------------------------
(* The refinement: every step of a goroutine is a step of GatedRun, or one  *)
(* that the pool's caller cannot see.                                       *)

\* What the steps below know of the states on both sides.
Known == /\ Shape /\ QueueOK /\ FlightOK /\ OutcomeOK
         /\ WorkersBounded /\ MemoryBounded /\ SameKeyExclusive

\* Both sides count with the same operator.
LEMMA SameCardinality == \A S : Promise!Cardinality(S) = Cardinality(S)
BY DEF Promise!Cardinality, Cardinality

LEMMA StatusMove ==
  ASSUME Shape, NEW t \in Tasks,
         NEW l, pc' = [pc EXCEPT ![t] = l], NEW o, outcome' = [outcome EXCEPT ![t] = o]
  PROVE  Status' = [Status EXCEPT ![t] = IF l = "fn" THEN "running"
                                         ELSE IF o = "none" THEN "idle" ELSE o]
BY DEF Status, Shape

\* A move that neither enters nor leaves the task and answers nothing.
LEMMA QuietMove ==
  ASSUME Shape, NEW t \in Tasks, pc[t] # "fn",
         NEW l, l # "fn", pc' = [pc EXCEPT ![t] = l], UNCHANGED <<outcome, cause>>
  PROVE  UNCHANGED Promise!vars
<1>1. Status' = Status
  BY DEF Status, Shape
<1>2. Cancelled' = Cancelled
  BY DEF Cancelled
<1>3. QED
  BY <1>1, <1>2 DEF Promise!vars

\* A goroutine that enters its task does so within the gates' limits.
LEMMA StartMove ==
  ASSUME Known, Known', NEW t \in Tasks, pc[t] # "fn", pc[t] \notin Answered,
         pc' = [pc EXCEPT ![t] = "fn"], UNCHANGED <<outcome, cause>>
  PROVE  Promise!Start(t)
<1> USE DEF Known
<1>1. Status[t] = "idle" /\ outcome' = [outcome EXCEPT ![t] = outcome[t]]
  BY DEF Status, OutcomeOK, Shape
<1>2. Status' = [Status EXCEPT ![t] = "running"]
  BY <1>1, StatusMove
<1>3. Promise!Running = At({"fn"}) /\ t \notin At({"fn"})
  <2>1. ASSUME NEW u \in Tasks PROVE Status[u] = "running" <=> pc[u] = "fn"
    BY DEF Status, Shape, Outcome
  <2>2. QED
    BY <2>1 DEF Promise!Running, At
<1>4. At({"fn"})' = At({"fn"}) \cup {t}
  BY DEF At, Shape
<1>5. WorkersBounded' /\ MemoryBounded' /\ SameKeyExclusive'
  OBVIOUS
<1>6. Cardinality(Promise!Running) < Workers
  <2>1. IsFiniteSet(At({"fn"}))
    BY TasksAssumption, FS_Subset DEF At
  <2>2. Cardinality(At({"fn"}) \cup {t}) = Cardinality(At({"fn"})) + 1
    BY <1>3, <2>1, FS_AddElement
  <2>3. Cardinality(At({"fn"}) \cup {t}) <= Workers
    BY <1>4, <1>5 DEF WorkersBounded
  <2>4. Cardinality(At({"fn"})) \in Nat /\ Workers \in Nat
    BY <2>1, NeedType, FS_CardinalityType
  <2>5. QED
    BY <1>3, <2>2, <2>3, <2>4
<1>7. MemBudget > 0 => Cardinality(Promise!Units(Promise!Running \cup {t})) <= MemBudget
  BY <1>3, <1>4, <1>5 DEF MemoryBounded, HasMem, Units, Promise!Units
<1>8. \A u \in Promise!Running : KeyOf[u] # KeyOf[t]
  <2> SUFFICES ASSUME NEW u \in At({"fn"}) PROVE KeyOf[u] # KeyOf[t]
    BY <1>3
  <2>1. u \in Tasks /\ u # t /\ pc'[u] = "fn" /\ pc'[t] = "fn"
    BY <1>3, <1>4 DEF At, Shape
  <2>2. QED
    BY <1>5, <2>1 DEF SameKeyExclusive, At
<1>9. QED
  BY <1>1, <1>2, <1>6, <1>7, <1>8, SameCardinality DEF Promise!Start, Cancelled

\* A goroutine that a gate refuses gives up because the pool was stopped.
LEMMA SkipMove ==
  ASSUME Shape, OutcomeOK, NEW g \in Gates, NEW t \in Tasks, Cancelled,
         pc[t] # "fn", pc[t] \notin Answered, Fail(g, t), UNCHANGED cause
  PROVE  Promise!Skip(t)
<1>1. Status[t] = "idle"
  BY DEF Status, OutcomeOK
<1>2. PICK l \in {"leave", "releaseWorker"} : pc' = [pc EXCEPT ![t] = l]
  BY DEF Fail, Refused
<1>3. Status' = [Status EXCEPT ![t] = "ctx"]
  BY <1>2, StatusMove DEF Fail
<1>4. QED
  BY <1>1, <1>3 DEF Promise!Skip, Cancelled

LEMMA StepKept == Known /\ Known' /\ [Next]_vars => [Promise!Next]_(Promise!vars)
<1> SUFFICES ASSUME Known, Known', [Next]_vars PROVE [Promise!Next]_(Promise!vars)
  OBVIOUS
<1>1. Shape /\ QueueOK /\ OutcomeOK /\ FlightOK
  BY DEF Known
<1>2. ASSUME NEW t \in Tasks, Promise!Start(t) \/ Promise!Skip(t) \/ Promise!Finish(t)
      PROVE  Promise!Next
  BY <1>2 DEF Promise!Next
<1>3. ASSUME NEW t \in Tasks, Submit(t) PROVE UNCHANGED Promise!vars
  BY <1>1, <1>3, QuietMove DEF Submit
<1>4. CASE CallWait
  BY <1>4 DEF CallWait, Promise!vars, Status, Cancelled
<1>5. ASSUME WaitReturns \/ ParentCancels PROVE Promise!Stop
  BY <1>5 DEF WaitReturns, ParentCancels, Cancel, Cancelled, Promise!Stop, Status
<1>6. ASSUME NEW t \in Tasks, Lead(t) PROVE UNCHANGED Promise!vars
  BY <1>1, <1>6, QuietMove DEF Lead
<1>7. ASSUME NEW t \in Tasks, Join(t) PROVE UNCHANGED Promise!vars
  BY <1>1, <1>7, QuietMove DEF Join
<1>8. ASSUME NEW t \in Tasks, Leave(t) PROVE UNCHANGED Promise!vars
  BY <1>1, <1>8, QuietMove DEF Leave
<1>9. ASSUME NEW t \in Tasks, Released(t) PROVE Promise!Share(t, leader[t])
  <2> DEFINE u == leader[t]
  <2>1. pc[t] = "joined" /\ u \in Tasks /\ u \notin flight
    BY <1>1, <1>9 DEF Released, Shape
  <2>2. KeyOf[u] = KeyOf[t] /\ pc[u] \in {"return", "done"}
    <3>1. pc[u] \notin {"new", "go", "joined"} /\ pc[u] \notin InFlight /\ KeyOf[u] = KeyOf[t]
      BY <1>1, <2>1 DEF OutcomeOK, FlightOK, At
    <3>2. QED
      BY <1>1, <2>1, <3>1 DEF InFlight, Shape, Location
  <2>3. outcome[u] \in {"ok", "err", "ctx"}
    BY <1>1, <2>1, <2>2 DEF OutcomeOK, Answered, Shape, Outcome
  <2>4. Status[t] = "idle" /\ Status[u] = outcome[u]
    BY <1>1, <2>1, <2>2, <2>3 DEF Status, OutcomeOK, Answered
  <2>5. /\ pc' = [pc EXCEPT ![t] = "return"] /\ outcome' = [outcome EXCEPT ![t] = outcome[u]]
        /\ UNCHANGED cause
    BY <1>9 DEF Released
  <2>6. Status' = [Status EXCEPT ![t] = outcome[u]]
    BY <1>1, <2>3, <2>5 DEF Status, Shape
  <2>7. QED
    BY <2>2, <2>3, <2>4, <2>5, <2>6 DEF Promise!Share, Promise!Final, Cancelled
<1>10. ASSUME NEW t \in Tasks, NEW g \in Gates, Refuse(g, t) PROVE Promise!Skip(t)
  <2>1. pc[t] # "fn" /\ pc[t] \notin Answered
    BY <1>10 DEF Refuse, AtGate, Gates, Answered
  <2>2. QED
    BY <1>1, <1>10, <2>1, SkipMove DEF Refuse
<1>11. ASSUME NEW t \in Tasks, NEW g \in Gates, Take(g, t)
       PROVE  UNCHANGED Promise!vars \/ Promise!Start(t)
  <2>1. /\ pc[t] # "fn" /\ pc[t] \notin Answered /\ UNCHANGED <<outcome, cause>>
        /\ pc' = [pc EXCEPT ![t] = IF g = "worker" THEN "mem" ELSE "fn"]
    BY <1>11 DEF Take, AtGate, Gates, Answered
  <2>2. CASE g = "worker"
    <3>1. pc' = [pc EXCEPT ![t] = "mem"]
      BY <2>1, <2>2
    <3>2. QED
      BY <1>1, <2>1, <3>1, QuietMove
  <2>3. CASE g # "worker"
    <3>1. pc' = [pc EXCEPT ![t] = "fn"]
      BY <2>1, <2>3
    <3>2. QED
      BY <2>1, <3>1, StartMove
  <2>4. QED
    BY <2>2, <2>3
<1>12. ASSUME NEW t \in Tasks, NEW g \in Gates, Enqueue(g, t) PROVE UNCHANGED Promise!vars
  <2>1. pc[t] # "fn"
    BY <1>12 DEF Enqueue, AtGate, Gates
  <2>2. PICK l \in {"workerQ", "memQ"} : pc' = [pc EXCEPT ![t] = l]
    BY <1>12 DEF Enqueue, Queued
  <2>3. QED
    BY <1>1, <1>12, <2>1, <2>2, QuietMove DEF Enqueue
<1>13. ASSUME NEW g \in Gates, Grant(g) PROVE UNCHANGED Promise!vars
  <2> DEFINE t == Head(queue[g])
  <2>1. t \in Tasks /\ UNCHANGED <<outcome, cause>>
    BY <1>1, <1>13 DEF Grant, Shape
  <2>2. 1 \in 1..Len(queue[g]) /\ t = queue[g][1]
    BY <1>1, <1>13, LenProperties DEF Grant, Shape
  <2>3. pc[t] # "fn"
    BY <1>1, <2>2 DEF QueueOK, Queued
  <2>4. PICK l \in {"workerGot", "memGot"} : pc' = [pc EXCEPT ![t] = l]
    BY <1>13 DEF Grant, Granted
  <2>5. QED
    BY <1>1, <2>1, <2>3, <2>4, QuietMove
<1>14. ASSUME NEW t \in Tasks, NEW g \in Gates, Wake(g, t)
       PROVE  UNCHANGED Promise!vars \/ Promise!Start(t) \/ Promise!Skip(t)
  <2>1. pc[t] # "fn" /\ pc[t] \notin Answered /\ UNCHANGED cause
    BY <1>14 DEF Wake, Granted, Answered
  <2>2. CASE Cancelled
    BY <1>1, <1>14, <2>1, <2>2, SkipMove DEF Wake
  <2>3. CASE ~Cancelled
    <3>1. /\ pc' = [pc EXCEPT ![t] = IF g = "worker" THEN "mem" ELSE "fn"]
          /\ UNCHANGED outcome
      BY <1>14, <2>3 DEF Wake
    <3>2. CASE g = "worker"
      <4>1. pc' = [pc EXCEPT ![t] = "mem"]
        BY <3>1, <3>2
      <4>2. QED
        BY <1>1, <2>1, <3>1, <4>1, QuietMove
    <3>3. CASE g # "worker"
      <4>1. pc' = [pc EXCEPT ![t] = "fn"]
        BY <3>1, <3>3
      <4>2. QED
        BY <2>1, <3>1, <4>1, StartMove
    <3>4. QED
      BY <3>2, <3>3
  <2>4. QED
    BY <2>2, <2>3
<1>15. ASSUME NEW t \in Tasks, NEW g \in Gates, GiveUp(g, t) PROVE Promise!Skip(t)
  <2>1. pc[t] = Queued(g)
    BY <1>1, <1>15 DEF GiveUp, QueueOK
  <2>2. pc[t] # "fn" /\ pc[t] \notin Answered
    BY <2>1 DEF Queued, Answered
  <2>3. QED
    BY <1>1, <1>15, <2>2, SkipMove DEF GiveUp
<1>16. ASSUME NEW t \in Tasks, SkipMemGate(t) PROVE Promise!Start(t)
  BY <1>16, StartMove DEF SkipMemGate, Answered
<1>17. ASSUME NEW t \in Tasks, Run(t) PROVE Promise!Finish(t)
  <2>1. PICK r \in {"ok", "err"} : outcome' = [outcome EXCEPT ![t] = r]
    BY <1>17 DEF Run
  <2>2. PICK l \in {"releaseMem", "releaseWorker"} : pc' = [pc EXCEPT ![t] = l]
    BY <1>17 DEF Run
  <2>3. Status' = [Status EXCEPT ![t] = r]
    BY <1>1, <2>1, <2>2, StatusMove
  <2>4. Status[t] = "running" /\ UNCHANGED cause
    BY <1>17 DEF Run, Status
  <2>5. QED
    BY <2>3, <2>4 DEF Promise!Finish, Cancelled
<1>18. ASSUME NEW t \in Tasks, NEW g \in Gates, Release(g, t) PROVE UNCHANGED Promise!vars
  <2>1. pc[t] # "fn"
    BY <1>18 DEF Release
  <2>2. PICK l \in {"leave", "releaseWorker"} : pc' = [pc EXCEPT ![t] = l]
    BY <1>18 DEF Release
  <2>3. QED
    BY <1>1, <1>18, <2>1, <2>2, QuietMove DEF Release
<1>19. ASSUME NEW t \in Tasks, Return(t) PROVE UNCHANGED Promise!vars \/ Promise!Stop
  <2>1. Status' = Status
    BY <1>1, <1>19 DEF Return, Status, Shape
  <2>2. Cancelled' = Cancelled \/ Cancelled' = TRUE
    BY <1>19 DEF Return, Cancel, Cancelled
  <2>3. QED
    BY <2>1, <2>2 DEF Promise!vars, Promise!Stop
<1>20. CASE UNCHANGED vars
  BY <1>20 DEF vars, Promise!vars, Status, Cancelled
<1>21. QED
  <2>1. ASSUME NEW t \in Tasks PROVE Promise!Share(t, leader[t]) => Promise!Next
    BY <1>1 DEF Promise!Next, Shape
  <2>2. Promise!Stop => Promise!Next
    BY DEF Promise!Next
  <2>3. QED
    BY <1>2, <1>3, <1>4, <1>5, <1>6, <1>7, <1>8, <1>9, <1>10, <1>11, <1>12, <1>13,
       <1>14, <1>15, <1>16, <1>17, <1>18, <1>19, <1>20, <2>1, <2>2
       DEF Next, Goroutine, Acquire, Pass

\* Whatever the gates, queues and cancellations do, a caller of the pool sees
\* a run of GatedRun.
THEOREM PoolKeepsItsPromise == Spec => PromiseKept
<1>1. Init => Promise!Init
  BY DEF Init, Promise!Init, Status, Cancelled
<1>2. Spec => []Known
  BY ShapeHolds, QueueHolds, FlightHolds, OutcomeHolds, WorkersAreBounded,
     MemoryIsBounded, SameKeyIsExclusive, PTL DEF Known
<1>3. QED
  BY <1>1, <1>2, StepKept, PTL DEF Spec, PromiseKept, Promise!Spec
=============================================================================
