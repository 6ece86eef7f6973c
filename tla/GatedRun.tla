------------------------------ MODULE GatedRun ------------------------------
(***************************************************************************)
(* What an admission pool promises to the exporter and to the importer,    *)
(* with no semaphore, queue or goroutine in sight: tasks run at most       *)
(* Workers at a time, together they never use more than Budget units of    *)
(* memory, two tasks of one key never run together, and a task ends        *)
(* without having run only because a task of its key answered for it or    *)
(* because the pool was stopped.                                           *)
(***************************************************************************)
EXTENDS Integers, FiniteSets

CONSTANTS
  Tasks,    \* the submitted tasks
  KeyOf,    \* [Tasks -> keys]: the deduplication key of each task
  Need,     \* [Tasks -> Nat]: the memory a task uses while it runs
  Workers,  \* the number of tasks that may run at once
  Budget    \* the memory budget; 0 or less when memory is not limited

VARIABLES
  status,   \* [Tasks -> {"idle", "running", "ok", "err", "ctx"}]
  stopped   \* a task failed, or the caller cancelled

vars == <<status, stopped>>

Running  == {t \in Tasks : status[t] = "running"}
Final    == {"ok", "err", "ctx"}

\* The memory units used by a set of tasks: one element per unit.
Units(S) == UNION {{t} \X (1..Need[t]) : t \in S}

Init ==
  /\ status = [t \in Tasks |-> "idle"]
  /\ stopped = FALSE

Start(t) ==
  /\ status[t] = "idle"
  /\ Cardinality(Running) < Workers
  /\ Budget > 0 => Cardinality(Units(Running \cup {t})) <= Budget
  /\ \A u \in Running : KeyOf[u] # KeyOf[t]
  /\ status' = [status EXCEPT ![t] = "running"]
  /\ UNCHANGED stopped

Finish(t) ==
  /\ status[t] = "running"
  /\ \E r \in {"ok", "err"} : status' = [status EXCEPT ![t] = r]
  /\ UNCHANGED stopped

\* A task of the same key answers for t.
Share(t, u) ==
  /\ status[t] = "idle"
  /\ KeyOf[u] = KeyOf[t]
  /\ status[u] \in Final
  /\ status' = [status EXCEPT ![t] = status[u]]
  /\ UNCHANGED stopped

\* The pool has been stopped: t gives up before it runs.
Skip(t) ==
  /\ stopped
  /\ status[t] = "idle"
  /\ status' = [status EXCEPT ![t] = "ctx"]
  /\ UNCHANGED stopped

\* A failure stops the pool, and so may the caller.
Stop ==
  /\ stopped' = TRUE
  /\ UNCHANGED status

Next ==
  \/ \E t \in Tasks : Start(t) \/ Finish(t) \/ Skip(t)
  \/ \E t, u \in Tasks : Share(t, u)
  \/ Stop

Spec == Init /\ [][Next]_vars
=============================================================================
