-------------------------- MODULE BaselineSpoolProofs --------------------------
(***************************************************************************)
(* Safety of the baseline spool for any calls, any blobs and any sources,  *)
(* and the proof that it implements BlobCache.                             *)
(*                                                                         *)
(* The invariant says who leads a flight and who is in it, what the files  *)
(* hold at each place of a leader's way, and what an answer rests on.      *)
(***************************************************************************)
EXTENDS BaselineSpool, TLAPS

\* The places of a call that leads a flight.
Leading == Fetching \cup {"recheck", "deliver"}

\* The key of a digest is taken by the one call that leads its flight, and
\* those who wait for a digest are in the flight under way.
FlightOK ==
  /\ \A d \in Digests : leader[d] # NoCall =>
       DigestOf[leader[d]] = d /\ pc[leader[d]] \in Leading
  /\ \A c \in Calls : pc[c] \in Leading => leader[DigestOf[c]] = c /\ boss[c] = c
  /\ \A c \in Calls : pc[c] = "wait" =>
       boss[c] = leader[DigestOf[c]] /\ boss[c] # NoCall
  /\ \A c \in Calls : pc[c] \in {"lookup", "join"} => boss[c] = NoCall
  /\ \A c \in Calls : boss[c] # NoCall => DigestOf[boss[c]] = DigestOf[c]

\* What is in the files and in the map while a call is on its way.
FileOK ==
  /\ \A c \in Calls : tmp[c] # "none" => pc[c] \in {"copy", "verify", "rename"}
  /\ \A c \in Calls : pc[c] \in {"verify", "rename"} =>
       (tmp[c] = "right" <=> Source[c] = "whole")
  /\ \A c \in Calls : pc[c] = "rename" => tmp[c] = "right"
  /\ \A c \in Calls : pc[c] = "register" =>
       spool[DigestOf[c]] = "right" /\ Source[c] = "whole"
  /\ \A c \in Calls : pc[c] \in Fetching => DigestOf[c] \notin entries
  /\ \A d \in Digests : spool[d] \in {"none", "right"}
  /\ \A d \in entries : spool[d] = "right"

\* A path rests on the map, an error on a leader whose source failed.
AnswerOK ==
  /\ \A c \in Calls : pc[c] = "deliver" => outcome[c] # "none"
  /\ \A c \in Calls : outcome[c] = "path" => DigestOf[c] \in entries
  /\ \A c \in Calls : outcome[c] = "err" => Source[c] # "whole"
  /\ \A c \in Calls : answer[c] = "path" => DigestOf[c] \in entries
  /\ \A c \in Calls : answer[c] = "err" =>
       boss[c] \in Calls /\ Source[boss[c]] # "whole"

Inv == TypeOK /\ FlightOK /\ FileOK /\ AnswerOK

\* Every initial state satisfies the invariant.
LEMMA InitInv == Init => Inv
BY CallAssumption DEF Init, Inv, TypeOK, FlightOK, FileOK, AnswerOK, Location,
  Content, Answers, Leading, Fetching

\* The members of the flight that ends are its leader and those who wait.
LEMMA FlightMembers ==
  ASSUME Inv, NEW c \in Calls, pc[c] = "deliver"
  PROVE  /\ c \in Flight(c)
         /\ \A b \in Flight(c) : /\ DigestOf[b] = DigestOf[c]
                                 /\ b = c \/ pc[b] = "wait"
         /\ \A b \in Calls : pc[b] = "wait" /\ DigestOf[b] = DigestOf[c] =>
              b \in Flight(c)
         /\ \A b \in Calls \ Flight(c) : boss[b] # c \/ pc[b] = "done"
BY CallAssumption DEF Inv, TypeOK, FlightOK, Flight, Leading, Fetching, Location

\* Every step of a call keeps the invariant, Deliver by what a flight is made of.
LEMMA NextInv == ASSUME Inv, [Next]_vars PROVE Inv'
<1> USE CallAssumption DEF Inv
<1>1. CASE UNCHANGED vars
  BY <1>1 DEF vars, TypeOK, FlightOK, FileOK, AnswerOK
<1>2. ASSUME NEW c \in Calls, Step(c) PROVE Inv'
  <2> USE DEF Location, Content, Answers, Leading, Fetching, Goto, End, SourceKind
  <2>1. CASE Lookup(c)
    <3>1. TypeOK'
      BY <2>1 DEF Lookup, TypeOK
    <3>2. FlightOK'
      BY <2>1 DEF Lookup, TypeOK, FlightOK
    <3>3. FileOK'
      BY <2>1 DEF Lookup, TypeOK, FileOK
    <3>4. AnswerOK'
      BY <2>1 DEF Lookup, TypeOK, AnswerOK
    <3>5. QED
      BY <3>1, <3>2, <3>3, <3>4
  <2>2. CASE Join(c)
    <3>1. TypeOK'
      BY <2>2 DEF Join, TypeOK
    <3>2. FlightOK'
      BY <2>2 DEF Join, TypeOK, FlightOK
    <3>3. FileOK'
      BY <2>2 DEF Join, TypeOK, FileOK
    <3>4. AnswerOK'
      BY <2>2 DEF Join, TypeOK, AnswerOK
    <3>5. QED
      BY <3>1, <3>2, <3>3, <3>4
  <2>3. CASE Recheck(c)
    <3>1. TypeOK'
      BY <2>3 DEF Recheck, TypeOK
    <3>2. FlightOK'
      BY <2>3 DEF Recheck, TypeOK, FlightOK
    <3>3. FileOK'
      BY <2>3 DEF Recheck, TypeOK, FileOK
    <3>4. AnswerOK'
      BY <2>3 DEF Recheck, TypeOK, AnswerOK
    <3>5. QED
      BY <3>1, <3>2, <3>3, <3>4
  <2>4. CASE Fetch(c)
    <3>1. TypeOK'
      BY <2>4 DEF Fetch, TypeOK
    <3>2. FlightOK'
      BY <2>4 DEF Fetch, TypeOK, FlightOK
    <3>3. FileOK'
      BY <2>4 DEF Fetch, TypeOK, FileOK
    <3>4. AnswerOK'
      BY <2>4 DEF Fetch, TypeOK, AnswerOK
    <3>5. QED
      BY <3>1, <3>2, <3>3, <3>4
  <2>5. CASE Copy(c)
    <3>1. TypeOK'
      BY <2>5 DEF Copy, TypeOK
    <3>2. FlightOK'
      BY <2>5 DEF Copy, TypeOK, FlightOK
    <3>3. FileOK'
      BY <2>5 DEF Copy, TypeOK, FileOK
    <3>4. AnswerOK'
      BY <2>5 DEF Copy, TypeOK, AnswerOK
    <3>5. QED
      BY <3>1, <3>2, <3>3, <3>4
  <2>6. CASE Verify(c)
    <3>1. TypeOK'
      BY <2>6 DEF Verify, TypeOK
    <3>2. FlightOK'
      BY <2>6 DEF Verify, TypeOK, FlightOK
    <3>3. FileOK'
      BY <2>6 DEF Verify, TypeOK, FileOK
    <3>4. AnswerOK'
      BY <2>6 DEF Verify, TypeOK, AnswerOK, FileOK
    <3>5. QED
      BY <3>1, <3>2, <3>3, <3>4
  <2>7. CASE Rename(c)
    <3>1. TypeOK'
      BY <2>7 DEF Rename, TypeOK
    <3>2. FlightOK'
      BY <2>7 DEF Rename, TypeOK, FlightOK
    <3>3. FileOK'
      BY <2>7 DEF Rename, TypeOK, FileOK
    <3>4. AnswerOK'
      BY <2>7 DEF Rename, TypeOK, AnswerOK
    <3>5. QED
      BY <3>1, <3>2, <3>3, <3>4
  <2>8. CASE Register(c)
    <3>1. TypeOK'
      BY <2>8 DEF Register, TypeOK
    <3>2. FlightOK'
      BY <2>8 DEF Register, TypeOK, FlightOK
    <3>3. FileOK'
      \* No other call of the digest is fetching: the key is taken.
      BY <2>8 DEF Register, TypeOK, FlightOK, FileOK
    <3>4. AnswerOK'
      BY <2>8 DEF Register, TypeOK, AnswerOK
    <3>5. QED
      BY <3>1, <3>2, <3>3, <3>4
  <2>9. CASE Deliver(c)
    <3>0. /\ c \in Flight(c) /\ Flight(c) \subseteq Calls
          /\ outcome[c] # "none"
          /\ \A b \in Flight(c) : DigestOf[b] = DigestOf[c] /\ boss[b] = c
          /\ \A b \in Calls : pc[b] = "wait" /\ DigestOf[b] = DigestOf[c] =>
               b \in Flight(c)
      BY <2>9, FlightMembers DEF Deliver, AnswerOK, Flight
    <3>1. TypeOK'
      BY <2>9, <3>0 DEF Deliver, TypeOK
    <3>2. FlightOK'
      BY <2>9, <3>0 DEF Deliver, TypeOK, FlightOK
    <3>3. FileOK'
      BY <2>9, <3>0, FlightMembers DEF Deliver, TypeOK, FileOK
    <3>4. AnswerOK'
      BY <2>9, <3>0 DEF Deliver, TypeOK, AnswerOK
    <3>5. QED
      BY <3>1, <3>2, <3>3, <3>4
  <2>10. QED
    BY <1>2, <2>1, <2>2, <2>3, <2>4, <2>5, <2>6, <2>7, <2>8, <2>9 DEF Step
<1>3. QED
  BY <1>1, <1>2 DEF Next

\* The invariant holds whatever the calls do.
THEOREM SpoolInvariant == Spec => []Inv
BY InitInv, NextInv, PTL DEF Spec

\* The state of the spool always has its type, and a call is done exactly when
\* it has its answer.
THEOREM SpoolTypeCorrect == Spec => []TypeOK
<1>1. Inv => TypeOK
  BY DEF Inv
<1>2. QED
  BY <1>1, SpoolInvariant, PTL

\* GetOrSpool hands out verified files only, and a final name never shows
\* anything but a whole, verified blob.
THEOREM PathsAreVerified == Spec => []PathIsVerified
<1>1. Inv => PathIsVerified
  BY CallAssumption DEF Inv, TypeOK, FileOK, AnswerOK, PathIsVerified
<1>2. QED
  BY <1>1, SpoolInvariant, PTL

\* spoolOnce runs for one call of a digest at a time, and never again after it
\* has succeeded.
THEOREM BlobsAreFetchedOnce == Spec => []FetchedOnce
<1>1. Inv => FetchedOnce
  BY CallAssumption DEF Inv, FlightOK, FileOK, FetchedOnce, Leading
<1>2. QED
  BY <1>1, SpoolInvariant, PTL

\* A call fails only because the fetch of its own flight failed.
THEOREM FailuresAreNotCached == Spec => []FailureNotCached
<1>1. Inv => FailureNotCached
  BY DEF Inv, AnswerOK, FailureNotCached
<1>2. QED
  BY <1>1, SpoolInvariant, PTL

\* A failed fetch leaves no temporary file.
THEOREM NothingIsLeftOver == Spec => []NoLeftovers
<1>1. Inv => NoLeftovers
  BY DEF Inv, FileOK, NoLeftovers
<1>2. QED
  BY <1>1, SpoolInvariant, PTL
-----------------------------------------------------------------------------
(* The spool implements BlobCache.                                         *)

\* Register keeps a blob, Lookup and Deliver answer, nothing else shows.
LEMMA StepImplements ==
  ASSUME Inv, NEW c \in Calls, Step(c)
  PROVE  Cache!Next \/ UNCHANGED Cache!vars
<1> USE CallAssumption DEF Inv
<1> DEFINE d == DigestOf[c]
<1>0. d \in Digests
  OBVIOUS
<1>1. CASE Lookup(c)
  <2>1. CASE d \in entries
    <3>1. Cache!Give(d, {c})
      BY <1>1, <2>1 DEF Lookup, Cache!Give, Cache!Open, Cache!Answer, TypeOK, Goto
    <3>2. QED
      BY <1>0, <3>1 DEF Cache!Next
  <2>2. CASE d \notin entries
    BY <1>1, <2>2 DEF Lookup, Cache!vars
  <2>3. QED
    BY <2>1, <2>2
<1>2. CASE Register(c)
  <2>1. Cache!Keep(d)
    BY <1>2 DEF Register, Cache!Keep, FileOK, Fetching
  <2>2. QED
    BY <1>0, <2>1 DEF Cache!Next
<1>3. CASE Deliver(c)
  <2>1. /\ Flight(c) \in SUBSET Calls /\ c \in Flight(c) /\ Cache!Open(Flight(c))
        /\ \A b \in Flight(c) : DigestOf[b] = d
        /\ Cache!Answer(Flight(c), outcome[c])
        /\ UNCHANGED entries
    BY <1>3, FlightMembers DEF Deliver, Flight, Cache!Open, Cache!Answer
  <2>2. CASE outcome[c] = "path"
    <3>1. Cache!Give(d, Flight(c))
      BY <2>1, <2>2 DEF Cache!Give, AnswerOK
    <3>2. QED
      BY <1>0, <2>1, <3>1 DEF Cache!Next
  <2>3. CASE outcome[c] = "err"
    <3>1. Cache!Deny(d, Flight(c))
      BY <2>1, <2>3 DEF Cache!Deny, AnswerOK
    <3>2. QED
      BY <1>0, <2>1, <3>1 DEF Cache!Next
  <2>4. QED
    BY <1>3, <2>2, <2>3 DEF Deliver, AnswerOK, TypeOK, Answers
<1>4. CASE Join(c) \/ Recheck(c) \/ Fetch(c) \/ Copy(c) \/ Verify(c) \/ Rename(c)
  BY <1>4 DEF Join, Recheck, Fetch, Copy, Verify, Rename, Cache!vars
<1>5. QED
  BY <1>1, <1>2, <1>3, <1>4 DEF Step

\* The spool keeps the promise of BlobCache: locks, flights and files included,
\* nothing but its three steps is visible to the images.
THEOREM SpoolKeepsItsPromise == Spec => CachePromise
<1>1. Init => Cache!Init
  BY DEF Init, Cache!Init
<1>2. Inv /\ [Next]_vars => [Cache!Next]_(Cache!vars)
  <2>1. ASSUME Inv, UNCHANGED vars PROVE UNCHANGED Cache!vars
    BY <2>1 DEF vars, Cache!vars
  <2>2. QED
    BY <2>1, StepImplements DEF Next
<1>3. QED
  BY <1>1, <1>2, SpoolInvariant, PTL DEF Spec, CachePromise, Cache!Spec
=============================================================================
