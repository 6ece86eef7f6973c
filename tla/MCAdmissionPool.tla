--------------------------- MODULE MCAdmissionPool ---------------------------
(* A small pool for TLC: four tasks, two of which share a key; one estimate  *)
(* is above the budget and one below 1, so that both clamps matter.          *)
EXTENDS AdmissionPool

CONSTANTS t1, t2, t3, t4, ka, kb, kc

MCTasks      == {t1, t2, t3, t4}
MCKeyOf      == [t \in Tasks |->
                   IF t \in {t1, t2} THEN ka ELSE IF t = t3 THEN kb ELSE kc]
MCEstimate   == [t \in Tasks |->
                   IF t = t1 THEN 5 ELSE IF t = t3 THEN 0 ELSE 2]
=============================================================================
