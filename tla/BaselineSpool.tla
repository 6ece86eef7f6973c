---------------------------- MODULE BaselineSpool ----------------------------
(***************************************************************************)
(* The importer's baseline spool (pkg/importer/baselinespool.go): the      *)
(* images of one run ask it for baseline blobs, each call with a fetch of  *)
(* its own; the blob is streamed to a temporary file, verified, renamed    *)
(* and remembered, by one call at a time for every digest.                 *)
(*                                                                         *)
(* singleflight.Group is modelled by who leads the flight of a digest and  *)
(* who waits for it. The bytes of a blob are told apart only by whether    *)
(* they are all there and are the right ones.                              *)
(*                                                                         *)
(* An operator whose name ends in Faulty is no part of the model: it is    *)
(* the definition after it with a plausible mistake, kept to show which    *)
(* property notices that mistake.                                          *)
(***************************************************************************)
CONSTANTS
  Calls,     \* the calls of GetOrSpool in one run
  Digests,   \* the baseline blobs they ask for
  DigestOf,  \* [Calls -> Digests]
  Source,    \* [Calls -> SourceKind]: what the fetch of a call gives
  NoCall     \* stands for no call where a call could be

\* The right bytes, other bytes, a stream that breaks off, an error.
SourceKind == {"whole", "wrong", "cut", "gone"}

ASSUME CallAssumption == /\ DigestOf \in [Calls -> Digests]
                         /\ Source \in [Calls -> SourceKind]
                         /\ NoCall \notin Calls

VARIABLES
  pc,       \* [Calls -> Location]
  leader,   \* [Digests -> Calls \cup {NoCall}]: who leads the digest's flight
  boss,     \* [Calls -> Calls \cup {NoCall}]: the leader of the flight a call is in
  outcome,  \* [Calls -> {"none", "path", "err"}]: how the flight it leads ends
  answer,   \* [Calls -> {"none", "path", "err"}]: what the call returns
  tmp,      \* [Calls -> Content]: its temporary file
  spool,    \* [Digests -> Content]: the files under their final names
  entries   \* the digests the spool remembers

vars == <<pc, leader, boss, outcome, answer, tmp, spool, entries>>

Location == {"lookup", "join", "wait", "recheck", "fetch", "copy", "verify",
             "rename", "register", "deliver", "done"}
Content  == {"none", "part", "right", "wrong"}
Answers  == {"none", "path", "err"}

Init ==
  /\ pc = [c \in Calls |-> "lookup"]
  /\ leader = [d \in Digests |-> NoCall]
  /\ boss = [c \in Calls |-> NoCall]
  /\ outcome = [c \in Calls |-> "none"]
  /\ answer = [c \in Calls |-> "none"]
  /\ tmp = [c \in Calls |-> "none"]
  /\ spool = [d \in Digests |-> "none"]
  /\ entries = {}

Goto(c, l) == pc' = [pc EXCEPT ![c] = l]

\* The fast path, under the read lock.
Lookup(c) ==
  /\ pc[c] = "lookup"
  /\ IF DigestOf[c] \in entries
       THEN Goto(c, "done") /\ answer' = [answer EXCEPT ![c] = "path"]
       ELSE Goto(c, "join") /\ UNCHANGED answer
  /\ UNCHANGED <<leader, boss, outcome, tmp, spool, entries>>

\* singleflight's Do: lead a flight of the digest, or wait for the one there is.
Join(c) ==
  LET d == DigestOf[c]
  IN  /\ pc[c] = "join"
      /\ IF leader[d] = NoCall
           THEN /\ leader' = [leader EXCEPT ![d] = c]
                /\ boss' = [boss EXCEPT ![c] = c]
                /\ Goto(c, "recheck")
           ELSE /\ boss' = [boss EXCEPT ![c] = leader[d]]
                /\ Goto(c, "wait")
                /\ UNCHANGED leader
      /\ UNCHANGED <<outcome, answer, tmp, spool, entries>>

\* The flight c leads is over but for the news.
End(c, a) == Goto(c, "deliver") /\ outcome' = [outcome EXCEPT ![c] = a]

RecheckFaulty(c) ==
  /\ pc[c] = "recheck"
  /\ Goto(c, "fetch")
  /\ UNCHANGED <<leader, boss, outcome, answer, tmp, spool, entries>>

\* An earlier flight may have committed since the lookup.
Recheck(c) ==
  /\ pc[c] = "recheck"
  /\ IF DigestOf[c] \in entries
       THEN End(c, "path")
       ELSE Goto(c, "fetch") /\ UNCHANGED outcome
  /\ UNCHANGED <<leader, boss, answer, tmp, spool, entries>>

\* spoolOnce: ask the baseline of the call's image; create the temporary file.
Fetch(c) ==
  /\ pc[c] = "fetch"
  /\ IF Source[c] = "gone"
       THEN End(c, "err") /\ UNCHANGED tmp
       ELSE /\ tmp' = [tmp EXCEPT ![c] = "part"]
            /\ Goto(c, "copy")
            /\ UNCHANGED outcome
  /\ UNCHANGED <<leader, boss, answer, spool, entries>>

CopyFaulty(c) ==
  /\ pc[c] = "copy"
  /\ IF Source[c] = "cut"
       THEN End(c, "err") /\ UNCHANGED tmp
       ELSE /\ tmp' = [tmp EXCEPT ![c] =
                         IF Source[c] = "whole" THEN "right" ELSE "wrong"]
            /\ Goto(c, "verify")
            /\ UNCHANGED outcome
  /\ UNCHANGED <<leader, boss, answer, spool, entries>>

\* Stream the bytes to the file and through the hasher; on an error the
\* deferred function removes the file.
Copy(c) ==
  /\ pc[c] = "copy"
  /\ IF Source[c] = "cut"
       THEN End(c, "err") /\ tmp' = [tmp EXCEPT ![c] = "none"]
       ELSE /\ tmp' = [tmp EXCEPT ![c] =
                         IF Source[c] = "whole" THEN "right" ELSE "wrong"]
            /\ Goto(c, "verify")
            /\ UNCHANGED outcome
  /\ UNCHANGED <<leader, boss, answer, spool, entries>>

VerifyFaulty(c) ==
  /\ pc[c] = "verify"
  /\ Goto(c, "rename")
  /\ UNCHANGED <<leader, boss, outcome, answer, tmp, spool, entries>>

\* The digest of what was streamed has to be the one that was asked for.
Verify(c) ==
  /\ pc[c] = "verify"
  /\ IF tmp[c] = "right"
       THEN Goto(c, "rename") /\ UNCHANGED <<outcome, tmp>>
       ELSE End(c, "err") /\ tmp' = [tmp EXCEPT ![c] = "none"]
  /\ UNCHANGED <<leader, boss, answer, spool, entries>>

Rename(c) ==
  /\ pc[c] = "rename"
  /\ spool' = [spool EXCEPT ![DigestOf[c]] = tmp[c]]
  /\ tmp' = [tmp EXCEPT ![c] = "none"]
  /\ Goto(c, "register")
  /\ UNCHANGED <<leader, boss, outcome, answer, entries>>

RegisterFaulty(c) ==
  /\ pc[c] = "register"
  /\ End(c, "path")
  /\ UNCHANGED <<leader, boss, answer, tmp, spool, entries>>

Register(c) ==
  /\ pc[c] = "register"
  /\ entries' = entries \cup {DigestOf[c]}
  /\ End(c, "path")
  /\ UNCHANGED <<leader, boss, answer, tmp, spool>>

\* Those whose flight c leads, c included.
Flight(c) == {b \in Calls : boss[b] = c /\ answer[b] = "none"}

DeliverFaulty(c) ==
  /\ pc[c] = "deliver"
  /\ leader' = [leader EXCEPT ![DigestOf[c]] = NoCall]
  /\ answer' = [answer EXCEPT ![c] = outcome[c]]
  /\ pc' = [pc EXCEPT ![c] = "done"]
  /\ UNCHANGED <<boss, outcome, tmp, spool, entries>>

\* The flight ends: its key is forgotten and everyone in it has the outcome.
Deliver(c) ==
  /\ pc[c] = "deliver"
  /\ leader' = [leader EXCEPT ![DigestOf[c]] = NoCall]
  /\ answer' = [b \in Calls |-> IF b \in Flight(c) THEN outcome[c] ELSE answer[b]]
  /\ pc' = [b \in Calls |-> IF b \in Flight(c) THEN "done" ELSE pc[b]]
  /\ UNCHANGED <<boss, outcome, tmp, spool, entries>>

Step(c) ==
  \/ Lookup(c) \/ Join(c) \/ Recheck(c) \/ Fetch(c) \/ Copy(c)
  \/ Verify(c) \/ Rename(c) \/ Register(c) \/ Deliver(c)

Next == \E c \in Calls : Step(c)

\* Every image's goroutine keeps running; a fetch ends, well or not.
Spec == Init /\ [][Next]_vars /\ \A c \in Calls : WF_vars(Step(c))
-----------------------------------------------------------------------------
(* Properties.                                                             *)

TypeOK ==
  /\ pc \in [Calls -> Location]
  /\ leader \in [Digests -> Calls \cup {NoCall}]
  /\ boss \in [Calls -> Calls \cup {NoCall}]
  /\ outcome \in [Calls -> Answers]
  /\ answer \in [Calls -> Answers]
  /\ tmp \in [Calls -> Content]
  /\ spool \in [Digests -> Content]
  /\ entries \in SUBSET Digests
  /\ \A c \in Calls : pc[c] = "done" <=> answer[c] # "none"

\* A path is handed out for a verified file only, and a reader who looks a
\* final name up at any time finds the whole verified blob or nothing.
PathIsVerified ==
  /\ \A d \in Digests : spool[d] \in {"none", "right"}
  /\ \A d \in entries : spool[d] = "right"
  /\ \A c \in Calls : answer[c] = "path" => spool[DigestOf[c]] = "right"

Fetching == {"fetch", "copy", "verify", "rename", "register"}

\* A blob is fetched by one call at a time, and never again once it is spooled.
FetchedOnce ==
  \A c \in Calls : pc[c] \in Fetching =>
    /\ DigestOf[c] \notin entries
    /\ \A b \in Calls : DigestOf[b] = DigestOf[c] /\ pc[b] \in Fetching => b = c

\* Errors are not kept: a call fails only with the flight it was in, because
\* the fetch of that flight's leader failed.
FailureNotCached ==
  \A c \in Calls : answer[c] = "err" =>
    boss[c] \in Calls /\ Source[boss[c]] # "whole"

\* Whatever fails leaves no temporary file behind.
NoLeftovers ==
  \A c \in Calls : tmp[c] # "none" => pc[c] \in {"copy", "verify", "rename"}

Cache == INSTANCE BlobCache WITH cached <- entries

\* The spool keeps the promise stated in BlobCache.
CachePromise == Cache!Spec

\* Every call returns.
CallsReturn == <>(\A c \in Calls : pc[c] = "done")
=============================================================================
