------------------------------ MODULE BlobCache ------------------------------
(***************************************************************************)
(* What the importer's baseline spool promises the images that share it,   *)
(* with no file, lock or flight in sight: a blob enters the cache once, on *)
(* the word of a source that serves it whole; a call is answered with a    *)
(* path only when the blob is there, and with an error only together with  *)
(* a call, of the same blob, whose own source failed.                      *)
(***************************************************************************)
CONSTANTS
  Calls,     \* the calls of GetOrSpool in one run
  Digests,   \* the baseline blobs
  DigestOf,  \* [Calls -> Digests]: the blob a call asks for
  Source     \* [Calls -> {"whole", "wrong", "cut", "gone"}]: what its fetch gives

VARIABLES
  cached,    \* the blobs in the cache
  answer     \* [Calls -> {"none", "path", "err"}]

vars == <<cached, answer>>

Open(S) == \A c \in S : answer[c] = "none"

Answer(S, a) == answer' = [c \in Calls |-> IF c \in S THEN a ELSE answer[c]]

Init == cached = {} /\ answer = [c \in Calls |-> "none"]

Keep(d) ==
  /\ d \notin cached
  /\ \E c \in Calls : DigestOf[c] = d /\ Source[c] = "whole"
  /\ cached' = cached \cup {d}
  /\ UNCHANGED answer

Give(d, S) ==
  /\ d \in cached
  /\ Open(S) /\ \A c \in S : DigestOf[c] = d
  /\ Answer(S, "path")
  /\ UNCHANGED cached

Deny(d, S) ==
  /\ Open(S) /\ \A c \in S : DigestOf[c] = d
  /\ \E c \in S : Source[c] # "whole"
  /\ Answer(S, "err")
  /\ UNCHANGED cached

Next ==
  \E d \in Digests :
    Keep(d) \/ \E S \in SUBSET Calls : Give(d, S) \/ Deny(d, S)

Spec == Init /\ [][Next]_vars
=============================================================================
