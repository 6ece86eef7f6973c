-------------------------- MODULE MCResolveBaselines --------------------------
(***************************************************************************)
(* Two images, four retries. A delay has five bits and its unit is three:  *)
(* the delay before the fourth retry no longer fits, as 2^37 times 100 ms  *)
(* does not fit the 64 bits of nanoseconds before the 38th. A delay that   *)
(* is given may be longer than the limit of the computed, or negative.     *)
(***************************************************************************)
EXTENDS ResolveBaselines

MCN      == 2
MCTimes  == 4
MCDelays == {0, 12, -2}
MCUnit   == 3
MCCap    == 10
MCHalf   == 2^4
===============================================================================
