--------------------------- MODULE MCBaselineSpool ---------------------------
(* Four calls for x, from images whose baselines serve it whole, wrong,     *)
(* whole again or not at all; one cut off and one whole call for y.         *)
EXTENDS Integers, BaselineSpool

CONSTANTS x, y

MCCalls    == 1..6
MCDigestOf == [c \in MCCalls |-> IF c <= 4 THEN x ELSE y]
MCSource   == <<"whole", "wrong", "whole", "gone", "cut", "whole">>
=============================================================================
