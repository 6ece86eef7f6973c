------------------------ MODULE ResolveBaselinesProofs ------------------------
(***************************************************************************)
(* What resolveBaselines keeps whatever the number of images, of retries   *)
(* and the delays: every source that is open belongs to an image resolved  *)
(* so far or to the one being resolved, and none stays open.               *)
(***************************************************************************)
EXTENDS ResolveBaselines, TLAPS

\* The images in result come before the one being looked at, which is an image
\* while its source is at work; a run that is done has let go of all of them; a
\* pause is one between two calls.
Before ==
  /\ count \in 1..N
  /\ image \in 1..(count + 1)
  /\ at \in Place
  /\ handles \in [1..N -> Int]
  /\ resolved \subseteq 1..(image - 1)
  /\ at \in {"open", "manifest", "digest"} => image <= count
  /\ at = "done" => resolved = {}
  /\ pause # -1 => at \in {"open", "manifest"}

IInv == Before /\ SourcesAccounted

\* Closing the sources in result, once what else is open is closed, leaves none.
LEMMA FailClosesAll ==
  ASSUME Before, NEW h \in [1..N -> Int], NEW e,
         \A i \in 1..N : h[i] = IF i \in resolved THEN 1 ELSE 0,
         Fail(e, h), UNCHANGED <<count, image>>, pause' = -1
  PROVE  IInv'
  BY ResolveAssumption DEF Before, Fail, Closed, IInv, SourcesAccounted, Place

LEMMA InitIInv == Init => IInv
  BY ResolveAssumption DEF Init, IInv, Before, SourcesAccounted, Place

\* Every step keeps the sources accounted for.
LEMMA StepIInv == IInv /\ [Next]_vars => IInv'
<1> SUFFICES ASSUME IInv, [Next]_vars PROVE IInv'
  OBVIOUS
<1> USE ResolveAssumption DEF IInv, Before, Place
<1>1. CASE NextImage
  <2>1. CASE given[image] = "unparsable" /\ image <= count /\ given[image] # "none"
    <3>1. Fail(Plain, handles)
      BY <1>1, <2>1 DEF NextImage
    <3>2. at = "image" /\ UNCHANGED <<count, image>> /\ pause' = -1
      BY <1>1, <2>1 DEF NextImage, inputs
    <3>3. \A i \in 1..N : handles[i] = IF i \in resolved THEN 1 ELSE 0
      BY <3>2 DEF SourcesAccounted
    <3> QED
      BY <3>1, <3>2, <3>3, FailClosesAll
  <2>2. CASE ~(given[image] = "unparsable" /\ image <= count /\ given[image] # "none")
    <3>1. at = "image" /\ pause = -1
      BY <1>1 DEF NextImage
    <3>2. UNCHANGED <<count, pause, resolved, handles>>
      BY <1>1, <2>2 DEF NextImage, Stay, inputs
    <3>3. \/ image > count /\ at' = "checks" /\ image' = image
          \/ image <= count /\ at' = at /\ image' = image + 1
          \/ image <= count /\ at' = "open" /\ image' = image
      BY <1>1, <2>2 DEF NextImage
    <3>4. Before'
      BY <3>1, <3>2, <3>3
    <3>5. SourcesAccounted'
      BY <3>1, <3>2, <3>3 DEF SourcesAccounted
    <3> QED
      BY <3>4, <3>5
  <2> QED
    BY <2>1, <2>2
<1>2. CASE Succeed
  BY <1>2 DEF Succeed, SourcesAccounted, inputs
<1>3. ASSUME at \in {"open", "manifest"}
      PROVE  /\ Opened \in [1..N -> Int]
             /\ \A i \in 1..N : Opened[i] = IF i \in resolved THEN 1 ELSE 0
  BY <1>3 DEF Opened, Closed, SourcesAccounted
<1>4. ASSUME NEW e \in Faults(given[image]), Break(e) PROVE IInv'
  <2>1. CASE GivesUp(e)
    <3>1. Fail(ClassifyRegistryErr(e), Opened) /\ at \in {"open", "manifest"}
      BY <1>4, <2>1 DEF Break
    <3>2. UNCHANGED <<count, image>> /\ pause' = -1
      BY <1>4, <2>1 DEF Break, inputs
    <3> QED
      BY <1>3, <3>1, <3>2, FailClosesAll
  <2>2. CASE ~GivesUp(e)
    BY <1>4, <2>2 DEF Break, Stay, SourcesAccounted, inputs
  <2> QED
    BY <2>1, <2>2
<1>5. CASE Resume
  BY <1>5 DEF Resume, SourcesAccounted, inputs
<1>6. CASE GiveUp
  <2>1. Fail(Canceled, Opened) /\ UNCHANGED <<count, image>> /\ pause' = -1
    BY <1>6 DEF GiveUp, inputs
  <2>2. at \in {"open", "manifest"}
    BY <1>6 DEF GiveUp
  <2> QED
    BY <1>3, <2>1, <2>2, FailClosesAll
<1>7. CASE Compare
  <2>1. CASE given[image] = "other"
    <3> DEFINE h == Closed(handles, {image})
    <3>1. Fail(Typed("ErrBaselineMismatch"), h) /\ UNCHANGED <<count, image>> /\ pause' = -1
      BY <1>7, <2>1 DEF Compare, inputs
    <3>2. h \in [1..N -> Int] /\ \A i \in 1..N : h[i] = IF i \in resolved THEN 1 ELSE 0
      BY <1>7 DEF Compare, Closed, SourcesAccounted
    <3> HIDE DEF h
    <3> QED
      BY <3>1, <3>2, FailClosesAll
  <2>2. CASE given[image] # "other"
    <3>1. /\ at = "digest" /\ at' = "image" /\ pause = -1
          /\ image' = image + 1 /\ resolved' = resolved \cup {image}
          /\ UNCHANGED <<count, pause, handles>>
      BY <1>7, <2>2 DEF Compare, inputs
    <3>2. Before'
      BY <3>1
    <3>3. SourcesAccounted'
      BY <3>1 DEF SourcesAccounted
    <3> QED
      BY <3>2, <3>3
  <2> QED
    BY <2>1, <2>2
<1>8. CASE Checks
  <2>1. at = "checks" /\ UNCHANGED <<count, image, pause>> /\ pause' = -1
    BY <1>8 DEF Checks, inputs
  <2>2. \A i \in 1..N : handles[i] = IF i \in resolved THEN 1 ELSE 0
    BY <2>1 DEF SourcesAccounted
  <2>3. CASE \E e \in {Typed("ErrBaselineMissing"), Typed("ErrBaselineNameUnknown")} :
               Fail(e, handles)
    BY <2>1, <2>2, <2>3, FailClosesAll
  <2>4. CASE at' = "apply" /\ Stay
    BY <2>1, <2>2, <2>4 DEF Stay, SourcesAccounted
  <2> QED
    BY <1>8, <2>3, <2>4 DEF Checks
<1>9. CASE Release
  BY <1>9 DEF Release, Closed, SourcesAccounted, inputs
<1>10. CASE Cancel
  BY <1>10 DEF Cancel, SourcesAccounted, inputs
<1>11. CASE Guard
  <2>1. at = "guard" /\ UNCHANGED <<count, image>> /\ pause' = -1
    BY <1>11 DEF Guard, inputs
  <2>2. \A i \in 1..N : handles[i] = IF i \in resolved THEN 1 ELSE 0
    BY <2>1 DEF SourcesAccounted
  <2>3. CASE Fail(Typed("ErrMultiImageNeedsNamedBaselines"), handles)
    BY <2>1, <2>2, <2>3, FailClosesAll
  <2>4. CASE at' = "image" /\ Stay
    BY <2>1, <2>2, <2>4 DEF Stay, SourcesAccounted
  <2> QED
    BY <1>11, <2>3, <2>4 DEF Guard
<1>12. CASE UNCHANGED vars
  BY <1>12 DEF vars, SourcesAccounted, inputs
<1> QED
  BY <1>1, <1>2, <1>4, <1>5, <1>6, <1>7, <1>8, <1>9, <1>10, <1>11, <1>12 DEF Next, Main, Call

-----------------------------------------------------------------------------
(* What was resolved, and why it was given up.                             *)

\* What is given is a baseline for some of the names, as Import rewrote them.
GivenOK ==
  /\ given \in [Keys -> Ref \cup {"none"}]
  /\ given[Stranger] \in {"none", "local"}
  /\ \A k \in 1..N : k > count => given[k] = "none"

\* The images in result are those with a baseline among the ones looked at.
Progress ==
  /\ at = "guard" => image = 1 /\ resolved = {}
  /\ at \in {"open", "manifest", "digest"} => given[image] \in {"registry", "local", "other"}
  /\ at \notin {"guard", "done"} =>
       ~Unnamed /\ resolved = {i \in 1..(image - 1) : given[i] # "none"}
  /\ \A i \in resolved : given[i] \in {"registry", "local"}
  /\ at \in {"checks", "apply"} => image = count + 1
  /\ at = "apply" => /\ strict => resolved = Images
                     /\ \A k \in Keys : given[k] # "none" => k \in Images

Failures == RegistryFaults \cup LocalFaults \cup {CutRequest}

\* A pause follows a failure that may pass, while a retry is left. Outside the
\* calls no failure is pending.
Calls ==
  /\ attempt \in 0..Times
  /\ failure \in {NoError, Canceled} \cup Failures
  /\ at \notin {"open", "manifest", "done"} => failure = NoError
  /\ pause # -1 => /\ attempt < Times /\ IsRetryable(failure)
                   /\ pause = Delay(attempt)
  /\ failure \in Transient /\ at = "done" => attempt = Times

\* The error returned is that of the last call, or of a check when none failed.
Told ==
  \/ failure \in Failures /\ ret = ClassifyRegistryErr(failure)
  \/ failure = Canceled /\ ret = Canceled
  \/ /\ failure = NoError
     /\ IF given[image] = "unparsable" /\ ~Unnamed THEN ret = Plain
        ELSE ret \in {Typed("ErrMultiImageNeedsNamedBaselines"), Typed("ErrBaselineMismatch"),
                      Typed("ErrBaselineMissing"), Typed("ErrBaselineNameUnknown")}

Returned ==
  /\ at # "done" => ret = NoError
  /\ at = "done" => ret = NoError \/ Told

JInv == IInv /\ GivenOK /\ Progress /\ Calls /\ Returned
-----------------------------------------------------------------------------
(* The errors of the transports.                                           *)

\* The errors are told apart by what they wrap and say.
LEMMA ErrorsDiffer ==
  /\ NoError \notin Failures /\ Canceled \notin Failures /\ NoError # Canceled
  /\ Transient \subseteq Failures /\ Permanent \subseteq Failures
<1> DEFINE Causes == {{}, {"url", "netop"}, {"url"}, {"url", "canceled"}, {"path", "notexist"},
                      {"path", "permission"}}
<1>1. \A e \in Failures : e.cat = "none" /\ e.wraps \in Causes
  BY DEF Failures, RegistryFaults, LocalFaults, Raw, Plain, Busy, Refused, BadCert, Unauthorized,
         NoManifest, BadManifest, CutRequest, NoFile, DeniedFile, CutFile
<1>2. NoError.cat = "nil" /\ Canceled.cat = "none" /\ Canceled.wraps = {"canceled"}
  BY DEF NoError, Canceled, Raw, Plain
<1>3. {"canceled"} \notin Causes
  OBVIOUS
<1>4. Transient \subseteq Failures /\ Permanent \subseteq Failures
  BY DEF Failures, RegistryFaults, LocalFaults, Transient, Permanent
<1> HIDE DEF Causes
<1> QED
  BY <1>1, <1>2, <1>3, <1>4

\* Retried are the errors that may pass.
LEMMA RetryableErrors ==
  /\ \A e \in Permanent : ~IsRetryable(e)
  /\ \A e \in Transient : IsRetryable(e)
BY DEF Permanent, Transient, IsRetryable, Raw, Plain, Busy, Refused, Unauthorized, NoManifest,
       BadManifest, NoFile, DeniedFile

\* Where the exit code sees the fault of a call.
LEMMA ExitOfFailure ==
  /\ \A e \in {Refused, BadCert, CutRequest, NoFile} : Exit(ClassifyRegistryErr(e)) = 3
  /\ \A e \in {NoManifest, BadManifest} : Exit(ClassifyRegistryErr(e)) = 4
  /\ \A e \in {Unauthorized, DeniedFile} : Exit(ClassifyRegistryErr(e)) = 2
  /\ \A e \in {Busy, CutFile} : Exit(ClassifyRegistryErr(e)) = 1
  /\ Exit(Canceled) = 3 /\ Exit(Plain) = 1
<1> USE DEF ClassifyRegistryErr, RegistryNetwork, Wrap, Typed, Exit, Classify, ExitCode, NoError,
            Raw, Plain
<1>1. Exit(ClassifyRegistryErr(Refused)) = 3
  BY DEF Refused
<1>2. Exit(ClassifyRegistryErr(BadCert)) = 3
  BY DEF BadCert
<1>3. Exit(ClassifyRegistryErr(CutRequest)) = 3
  BY DEF CutRequest
<1>4. Exit(ClassifyRegistryErr(NoFile)) = 3
  BY DEF NoFile
<1>5. Exit(ClassifyRegistryErr(NoManifest)) = 4
  BY DEF NoManifest, UserErrors, KeyErrors
<1>6. Exit(ClassifyRegistryErr(BadManifest)) = 4
  BY DEF BadManifest, UserErrors, KeyErrors
<1>7. Exit(ClassifyRegistryErr(Unauthorized)) = 2
  BY DEF Unauthorized, UserErrors, KeyErrors
<1>8. Exit(ClassifyRegistryErr(DeniedFile)) = 2
  BY DEF DeniedFile, UserErrors, KeyErrors
<1>9. Exit(ClassifyRegistryErr(Busy)) = 1
  BY DEF Busy
<1>10. Exit(ClassifyRegistryErr(CutFile)) = 1
  BY DEF CutFile
<1>11. Exit(Canceled) = 3 /\ Exit(Plain) = 1
  BY DEF Canceled
<1> HIDE DEF ClassifyRegistryErr, RegistryNetwork, Wrap, Typed, Exit, Classify, ExitCode, NoError,
             Raw, Plain
<1> QED
  BY <1>1, <1>2, <1>3, <1>4, <1>5, <1>6, <1>7, <1>8, <1>9, <1>10, <1>11

\* The errors whose exit codes differ are different.
OfEnvironment == {Refused, BadCert, CutRequest, NoFile, Canceled}
OfContent     == {NoManifest, BadManifest}
OfUser        == {Unauthorized, DeniedFile}
OfNobody      == {Busy, CutFile}

LEMMA FaultsDiffer ==
  /\ \A e \in OfEnvironment : e \notin OfContent /\ e \notin OfUser /\ e \notin OfNobody
  /\ \A e \in OfContent : e \notin OfUser /\ e \notin OfNobody
  /\ \A e \in OfUser : e \notin OfNobody
  /\ \A e \in OfEnvironment \cup OfContent \cup OfUser \cup OfNobody : e # NoError
  /\ Failures \subseteq OfEnvironment \cup OfContent \cup OfUser \cup OfNobody
<1>1. \A w, t : Raw(w, t).cat = "none" /\ Raw(w, t).wraps = w /\ Raw(w, t).says = t
  BY DEF Raw, Plain
<1>2. \A e \in OfEnvironment : e.cat = "none" /\ e.wraps # {} /\ e.says \in {{}, {"transient"}}
  BY <1>1 DEF OfEnvironment, Refused, BadCert, CutRequest, NoFile, Canceled
<1>3. \A e \in OfContent : e.cat = "none" /\ e.says \in {{"missing"}, {"invalid"}}
  BY <1>1 DEF OfContent, NoManifest, BadManifest
<1>4. \A e \in OfUser : e.cat = "none" /\ e.says = {"auth"}
  BY <1>1 DEF OfUser, Unauthorized, DeniedFile
<1>5. \A e \in OfNobody : e.cat = "none" /\ e.says = {"transient"} /\ e.wraps = {}
  BY <1>1 DEF OfNobody, Busy, CutFile
<1>6. Failures \subseteq OfEnvironment \cup OfContent \cup OfUser \cup OfNobody
  BY DEF Failures, RegistryFaults, LocalFaults, OfEnvironment, OfContent, OfUser, OfNobody
<1>7. NoError.cat # "none"
  BY DEF NoError
<1>8. {"missing"} \notin {{}, {"transient"}, {"auth"}} /\ {"invalid"} \notin {{}, {"transient"}, {"auth"}}
      /\ {"auth"} \notin {{}, {"transient"}}
  OBVIOUS
<1> QED
  BY <1>2, <1>3, <1>4, <1>5, <1>6, <1>7, <1>8

\* The exit code of each of them as ActualExit has it.
LEMMA ActualExits ==
  /\ \A e \in OfEnvironment : ActualExit(e) = 3
  /\ \A e \in OfContent : ActualExit(e) = 4
  /\ \A e \in OfUser : ActualExit(e) = 2
  /\ \A e \in OfNobody : ActualExit(e) = 1
  /\ ActualExit(NoError) = IF given[image] = "unparsable" /\ ~Unnamed THEN 1 ELSE 2
<1>1. /\ \A e \in {DeniedFile, Unauthorized} : e \notin {Busy, CutFile}
      /\ Unauthorized # DeniedFile
  <2>1. DeniedFile.wraps # Unauthorized.wraps
    BY DEF DeniedFile, Unauthorized, Raw, Plain
  <2> QED
    BY <2>1, FaultsDiffer DEF OfUser, OfNobody
<1>2. NoError \notin OfEnvironment \cup OfContent \cup OfUser \cup OfNobody
  BY FaultsDiffer
<1>3. ASSUME NEW e \in OfEnvironment PROVE ActualExit(e) = 3
  BY <1>2, FaultsDiffer DEF OfEnvironment, OfContent, OfUser, OfNobody, ActualExit, DocumentedExit
<1>4. ASSUME NEW e \in OfContent PROVE ActualExit(e) = 4
  BY <1>2, FaultsDiffer DEF OfEnvironment, OfContent, OfUser, OfNobody, ActualExit, DocumentedExit
<1>5. ASSUME NEW e \in OfUser PROVE ActualExit(e) = 2
  BY <1>1, <1>2, FaultsDiffer DEF OfEnvironment, OfContent, OfUser, OfNobody, ActualExit, DocumentedExit
<1>6. ASSUME NEW e \in OfNobody PROVE ActualExit(e) = 1
  BY <1>1, <1>2, FaultsDiffer DEF OfUser, OfNobody, ActualExit
<1>7. ActualExit(NoError) = IF given[image] = "unparsable" /\ ~Unnamed THEN 1 ELSE 2
  BY <1>2 DEF OfEnvironment, OfContent, OfUser, OfNobody, ActualExit, DocumentedExit
<1> QED
  BY <1>3, <1>4, <1>5, <1>6, <1>7

LEMMA ExitOfCheck ==
  \A t \in {"ErrMultiImageNeedsNamedBaselines", "ErrBaselineMismatch", "ErrBaselineMissing",
            "ErrBaselineNameUnknown"} : Exit(Typed(t)) = 2
BY DEF Typed, Exit, Classify, ExitCode, NoError, UserErrors, KeyErrors

\* The pause is the delay given, or the computed one within its limit.
LEMMA DelayBounded ==
  \A a \in Nat :
    /\ delay # 0 => Delay(a) = AtLeastNone(delay)
    /\ delay = 0 => /\ Delay(a) <= Cap
                    /\ ~Overflows(a) =>
                         Delay(a) = IF 2^a * Unit > Cap THEN Cap ELSE 2^a * Unit
<1> SUFFICES ASSUME NEW a \in Nat
             PROVE  /\ delay # 0 => Delay(a) = AtLeastNone(delay)
                    /\ delay = 0 => /\ Delay(a) <= Cap
                                    /\ ~Overflows(a) =>
                                         Delay(a) = IF 2^a * Unit > Cap THEN Cap ELSE 2^a * Unit
  OBVIOUS
<1>1. PICK x \in Int : x = 2^a * Unit
  BY ResolveAssumption
<1>2. Cap \in Nat /\ Half \in Nat \ {0}
  BY ResolveAssumption
<1>3. x % (2 * Half) \in 0..(2 * Half - 1)
  BY <1>2
<1>4. Wrapped(x) \in Int
  BY <1>2, <1>3 DEF Wrapped
<1>5. x \in 0..(Half - 1) => Wrapped(x) = x
  <2>1. x \in 0..(Half - 1) => x % (2 * Half) = x
    BY <1>2
  <2> QED
    BY <1>2, <2>1 DEF Wrapped
<1>6. Backoff(a) = IF Wrapped(x) > Cap THEN Cap ELSE Wrapped(x)
  BY <1>1 DEF Backoff
<1> QED
  BY <1>1, <1>2, <1>4, <1>5, <1>6 DEF Delay, AtLeastNone, Overflows
-----------------------------------------------------------------------------
(* The steps.                                                              *)

LEMMA InitJInv == Init => JInv
<1> SUFFICES ASSUME Init PROVE JInv
  OBVIOUS
<1>1. N \in Nat \ {0} /\ Times \in Nat
  BY ResolveAssumption
<1>2. GivenOK
  <2>1. PICK m \in [Keys -> Ref \cup {"none"}] :
          /\ m[DefaultKey] \in {"none", "registry", "other"}
          /\ m[Stranger] \in {"none", "local"}
          /\ \A k \in 1..N : k > count => m[k] = "none"
          /\ given \in Rewritten(m, count)
    BY DEF Init
  <2>2. count \in 1..N /\ DefaultKey = 0 /\ Stranger = N + 1 /\ Keys = 0..(N + 1)
    BY DEF Init, DefaultKey, Stranger, Keys
  <2>3. CASE given = m
    BY <2>1, <2>2, <2>3 DEF GivenOK
  <2>4. CASE given # m
    <3>1. PICK r \in {m[DefaultKey], m[1]} : count = 1 /\ given = [m EXCEPT ![DefaultKey] = "none", ![1] = r]
      BY <2>1, <2>4 DEF Rewritten
    <3>2. r \in Ref \cup {"none"}
      BY <1>1, <2>1, <2>2, <3>1
    <3>3. /\ given \in [Keys -> Ref \cup {"none"}]
          /\ \A k \in Keys : k # 0 /\ k # 1 => given[k] = m[k]
      BY <1>1, <2>1, <2>2, <3>1, <3>2
    <3> QED
      BY <1>1, <2>1, <2>2, <3>1, <3>3 DEF GivenOK
  <2> QED
    BY <2>3, <2>4
<1>3. Progress /\ Calls /\ Returned
  BY <1>1 DEF Init, Progress, Calls, Returned, Transient, ErrorsDiffer
<1> QED
  BY <1>2, <1>3, InitIInv DEF JInv

\* Nothing was called, or the last call went well: a check gives the run up.
LEMMA CheckFails ==
  ASSUME JInv, IInv', NEW e, NEW h, Fail(e, h), at # "done", failure = NoError, failure' = NoError,
         attempt' \in 0..Times, pause' = -1, UNCHANGED <<inputs, image>>,
         IF given[image] = "unparsable" /\ ~Unnamed THEN e = Plain
         ELSE e \in {Typed("ErrMultiImageNeedsNamedBaselines"), Typed("ErrBaselineMismatch"),
                     Typed("ErrBaselineMissing"), Typed("ErrBaselineNameUnknown")}
  PROVE  JInv'
<1>1. UNCHANGED <<count, given, strict, delay, image>> /\ at' = "done" /\ ret' = e /\ resolved' = {}
  BY DEF inputs, Fail
<1>2. GivenOK'
  BY <1>1 DEF JInv, GivenOK
<1>3. Progress'
  BY <1>1 DEF Progress
<1>4. Calls'
  BY <1>1, ErrorsDiffer DEF Calls
<1>5. Unnamed' <=> Unnamed
  BY <1>1 DEF Unnamed
<1>6. Returned'
  BY <1>1, <1>5 DEF Returned, Told
<1> QED
  BY <1>2, <1>3, <1>4, <1>6 DEF JInv

\* A call that failed gives the run up.
LEMMA CallFails ==
  ASSUME JInv, IInv', NEW e, NEW h, Fail(e, h), failure' \in Failures \cup {Canceled},
         failure' \in Transient => attempt = Times,
         e = IF failure' = Canceled THEN Canceled ELSE ClassifyRegistryErr(failure'),
         pause' = -1, UNCHANGED <<inputs, image, attempt>>
  PROVE  JInv'
<1>1. /\ UNCHANGED <<count, given, strict, delay, image, attempt>>
      /\ at' = "done" /\ ret' = e /\ resolved' = {}
  BY DEF inputs, Fail
<1>2. GivenOK'
  BY <1>1 DEF JInv, GivenOK
<1>3. Progress'
  BY <1>1 DEF Progress
<1>4. Calls'
  BY <1>1 DEF JInv, Calls
<1>5. Returned'
  BY <1>1 DEF Returned, Told
<1> QED
  BY <1>2, <1>3, <1>4, <1>5 DEF JInv

LEMMA StepNextImage == ASSUME JInv, IInv', NextImage PROVE JInv'
<1>1. /\ IInv /\ GivenOK /\ Progress /\ Calls /\ Returned
      /\ at = "image" /\ attempt' = 0 /\ failure' = NoError /\ UNCHANGED <<inputs, cancelled, pause>>
      /\ pause = -1 /\ image \in 1..(count + 1) /\ count \in 1..N /\ failure = NoError /\ ~Unnamed
  BY DEF JInv, IInv, Before, NextImage, Calls, Progress
<1>2. UNCHANGED <<count, given, strict, delay>> /\ 0 \in 0..Times
  BY <1>1, ResolveAssumption DEF inputs
<1>3. CASE image > count
  <2>1. at' = "checks" /\ Stay /\ UNCHANGED image
    BY <1>3 DEF NextImage
  <2> QED
    BY <1>1, <1>2, <1>3, <2>1 DEF JInv, GivenOK, Progress, Calls, Returned, Stay, Unnamed, Transient
<1>4. CASE image <= count /\ given[image] = "none"
  <2>1. at' = at /\ Stay /\ image' = image + 1
    BY <1>1, <1>4, ResolveAssumption DEF NextImage
  <2>2. {i \in 1..(image' - 1) : given[i] # "none"} = {i \in 1..(image - 1) : given[i] # "none"}
    BY <1>1, <1>4, <2>1
  <2>3. Progress'
    BY <1>1, <1>2, <2>1, <2>2 DEF Progress, Stay, Unnamed
  <2> QED
    BY <1>1, <1>2, <2>1, <2>3 DEF JInv, GivenOK, Calls, Returned, Stay
<1>5. CASE image <= count /\ given[image] = "unparsable"
  <2>1. Fail(Plain, handles) /\ UNCHANGED image
    BY <1>1, <1>5 DEF NextImage
  <2> QED
    BY <1>1, <1>2, <1>5, <2>1, CheckFails
<1>6. CASE image <= count /\ given[image] \notin {"none", "unparsable"}
  <2>1. at' = "open" /\ Stay /\ UNCHANGED image
    BY <1>1, <1>6 DEF NextImage
  <2>2. given[image] \in {"registry", "local", "other"}
    BY <1>1, <1>6, ResolveAssumption DEF GivenOK, Keys, Ref
  <2> QED
    BY <1>1, <1>2, <2>1, <2>2 DEF JInv, GivenOK, Progress, Calls, Returned, Stay, Unnamed
<1> QED
  BY <1>1, <1>3, <1>4, <1>5, <1>6

LEMMA StepBreak ==
  ASSUME JInv, IInv', NEW e \in Faults(given[image]), Break(e)
  PROVE  JInv'
<1>1. /\ IInv /\ GivenOK /\ Progress /\ Calls /\ Returned
      /\ at \in {"open", "manifest"} /\ pause = -1 /\ failure' = e
      /\ UNCHANGED <<inputs, cancelled, image, attempt>>
  BY DEF JInv, Break
<1>2. e \in Failures /\ UNCHANGED <<count, given, strict, delay>>
  BY <1>1 DEF inputs, Faults, Failures
<1>3. CASE GivesUp(e)
  <2>1. Fail(ClassifyRegistryErr(e), Opened) /\ UNCHANGED pause
    BY <1>3 DEF Break
  <2>2. e \in Transient => attempt = Times
    BY <1>1, <1>3, RetryableErrors, ResolveAssumption DEF Calls, GivesUp
  <2> QED
    BY <1>1, <1>2, <2>1, <2>2, ErrorsDiffer, CallFails
<1>4. CASE ~GivesUp(e)
  <2>1. pause' = Delay(attempt) /\ Stay /\ UNCHANGED at
    BY <1>4 DEF Break
  <2>2. attempt < Times /\ IsRetryable(e)
    BY <1>1, <1>4, ResolveAssumption DEF GivesUp, Calls
  <2>3. Delay(attempt)' = Delay(attempt)
    BY <1>1, <1>2 DEF Delay
  <2>4. Calls'
    BY <1>1, <1>2, <2>1, <2>2, <2>3 DEF Calls
  <2> QED
    BY <1>1, <1>2, <2>1, <2>4 DEF JInv, GivenOK, Progress, Returned, Stay, Unnamed
<1> QED
  BY <1>3, <1>4

LEMMA StepCompare == ASSUME JInv, IInv', Compare PROVE JInv'
<1>1. /\ IInv /\ GivenOK /\ Progress /\ Calls /\ Returned
      /\ at = "digest" /\ UNCHANGED <<inputs, cancelled, attempt, failure, pause>>
      /\ pause = -1 /\ failure = NoError /\ image \in 1..count /\ count \in 1..N /\ ~Unnamed
      /\ given[image] \in {"registry", "local", "other"}
  BY ResolveAssumption DEF JInv, IInv, Before, Compare, Calls, Progress
<1>2. UNCHANGED <<count, given, strict, delay>> /\ attempt \in 0..Times
  BY <1>1 DEF inputs, Calls
<1>3. CASE given[image] = "other"
  <2>1. Fail(Typed("ErrBaselineMismatch"), Closed(handles, {image})) /\ UNCHANGED image
    BY <1>3 DEF Compare
  <2> QED
    BY <1>1, <1>2, <1>3, <2>1, CheckFails
<1>4. CASE given[image] # "other"
  <2>1. /\ resolved' = resolved \cup {image} /\ image' = image + 1 /\ at' = "image"
        /\ UNCHANGED ret
    BY <1>4 DEF Compare
  <2>2. {i \in 1..(image' - 1) : given[i] # "none"}
          = {i \in 1..(image - 1) : given[i] # "none"} \cup {image}
    BY <1>1, <2>1
  <2>3. Progress'
    BY <1>1, <1>2, <1>4, <2>1, <2>2 DEF Progress, Unnamed
  <2> QED
    BY <1>1, <1>2, <2>1, <2>3 DEF JInv, GivenOK, Calls, Returned
<1> QED
  BY <1>3, <1>4

LEMMA StepChecks == ASSUME JInv, IInv', Checks PROVE JInv'
<1>1. /\ IInv /\ GivenOK /\ Progress /\ Calls /\ Returned
      /\ at = "checks" /\ UNCHANGED <<inputs, cancelled, image, attempt, failure, pause>>
      /\ pause = -1 /\ failure = NoError /\ image = count + 1 /\ count \in 1..N
  BY DEF JInv, IInv, Before, Checks, Calls, Progress
<1>2. UNCHANGED <<count, given, strict, delay>> /\ attempt \in 0..Times
  BY <1>1 DEF inputs, Calls
<1>3. given[image] # "unparsable"
  BY <1>1, ResolveAssumption DEF GivenOK, Stranger
<1>4. CASE \E e \in {Typed("ErrBaselineMissing"), Typed("ErrBaselineNameUnknown")} :
             Fail(e, handles)
  BY <1>1, <1>2, <1>3, <1>4, CheckFails
<1>5. CASE /\ at' = "apply" /\ Stay
           /\ strict => resolved = Images
           /\ \A k \in Keys : given[k] # "none" => k \in Images
  BY <1>1, <1>2, <1>5 DEF JInv, GivenOK, Progress, Calls, Returned, Stay, Unnamed, Images
<1> QED
  BY <1>4, <1>5 DEF Checks, Known

LEMMA StepGuard == ASSUME JInv, IInv', Guard PROVE JInv'
<1>1. /\ IInv /\ GivenOK /\ Progress /\ Calls /\ Returned
      /\ at = "guard" /\ UNCHANGED <<inputs, cancelled, image, attempt, failure, pause>>
      /\ pause = -1 /\ failure = NoError /\ image = 1 /\ resolved = {}
  BY DEF JInv, IInv, Before, Guard, Calls, Progress
<1>2. UNCHANGED <<count, given, strict, delay>> /\ attempt \in 0..Times
  BY <1>1 DEF inputs, Calls
<1>3. CASE Unnamed
  <2>1. Fail(Typed("ErrMultiImageNeedsNamedBaselines"), handles)
    BY <1>3 DEF Guard
  <2> QED
    BY <1>1, <1>2, <1>3, <2>1, CheckFails
<1>4. CASE ~Unnamed
  <2>1. at' = "image" /\ Stay
    BY <1>4 DEF Guard
  <2>2. {i \in 1..(image - 1) : given[i] # "none"} = {}
    BY <1>1
  <2> QED
    BY <1>1, <1>2, <1>4, <2>1, <2>2 DEF JInv, GivenOK, Progress, Calls, Returned, Stay, Unnamed
<1> QED
  BY <1>3, <1>4

LEMMA StepJInv == JInv /\ [Next]_vars => JInv'
<1> SUFFICES ASSUME JInv, [Next]_vars PROVE JInv'
  OBVIOUS
<1>1. IInv' /\ IInv /\ GivenOK /\ Progress /\ Calls /\ Returned
  BY StepIInv DEF JInv
<1>2. CASE Succeed
  <2>1. UNCHANGED <<count, given, strict, delay>> /\ 0 \in 0..Times
    BY <1>2, ResolveAssumption DEF Succeed, inputs
  <2> QED
    BY <1>1, <1>2, <2>1 DEF Succeed, JInv, GivenOK, Progress, Calls, Returned, Unnamed, IInv, Before
<1>3. CASE Resume
  <2>1. UNCHANGED <<count, given, strict, delay>> /\ attempt' \in 0..Times
    BY <1>1, <1>3, ResolveAssumption DEF Resume, inputs, Calls
  <2>2. at \in {"open", "manifest"}
    BY <1>1, <1>3 DEF Resume, IInv, Before
  <2> QED
    BY <1>1, <1>3, <2>1, <2>2 DEF Resume, JInv, GivenOK, Progress, Calls, Returned, Unnamed
<1>4. CASE GiveUp
  <2>1. Canceled \notin Transient
    BY ErrorsDiffer
  <2> QED
    BY <1>1, <1>4, <2>1, CallFails DEF GiveUp, inputs
<1>5. CASE Release
  <2>1. UNCHANGED <<count, given, strict, delay>> /\ NoError \notin Transient
    BY <1>5, ErrorsDiffer DEF Release, inputs
  <2> QED
    BY <1>1, <1>5, <2>1 DEF Release, JInv, GivenOK, Progress, Calls, Returned, IInv, Before
<1>6. CASE Cancel
  BY <1>1, <1>6 DEF Cancel, inputs, JInv, GivenOK, Progress, Calls, Returned, Told, Unnamed, Delay,
                    Images
<1>7. CASE UNCHANGED vars
  BY <1>1, <1>7 DEF vars, inputs, JInv, GivenOK, Progress, Calls, Returned, Told, Unnamed, Delay,
                    Images
<1> QED
  BY <1>1, <1>2, <1>3, <1>4, <1>5, <1>6, <1>7, StepNextImage, StepBreak, StepCompare, StepChecks,
     StepGuard DEF Next, Main, Call
-----------------------------------------------------------------------------
(* The theorems.                                                           *)

\* For any bundle, any baselines, any failures and any cancellation: the sources
\* that are open are those the code still answers for, and none outlives it.
THEOREM SourcesAccountedFor == Spec => []SourcesAccounted
<1>1. IInv => SourcesAccounted
  BY DEF IInv
<1> QED
  BY InitIInv, StepIInv, <1>1, PTL DEF Spec

\* In every behaviour of resolveBaselines what is pending, resolved and returned
\* is as JInv says.
THEOREM ResolveInvariant == Spec => []JInv
  BY InitJInv, StepJInv, PTL DEF Spec

\* ResolvedAsGiven: the import is given a source for an image only when its
\* baseline compared equal with the sidecar, for each image a baseline is given
\* for, and nothing given is left unused.
THEOREM ResolvedIsGiven == Spec => []ResolvedAsGiven
<1>1. ASSUME JInv PROVE ResolvedAsGiven
  <2> SUFFICES ASSUME at = "apply" PROVE ResolvedAsGiven
    BY DEF ResolvedAsGiven
  <2>1. /\ count \in 1..N /\ image = count + 1
        /\ strict => resolved = Images
        /\ resolved = {i \in 1..(image - 1) : given[i] # "none"}
        /\ \A i \in resolved : given[i] \in {"registry", "local"}
        /\ \A k \in Keys : given[k] # "none" => k \in Images
    BY <1>1 DEF JInv, IInv, Before, Progress
  <2>2. resolved = {i \in 1..count : given[i] # "none"}
    <3>1. image - 1 = count
      BY <2>1, ResolveAssumption
    <3> QED
      BY <2>1, <3>1
  <2>3. \A k \in Keys : given[k] # "none" => k \in resolved
    BY <2>1, <2>2 DEF Images
  <2> QED
    BY <2>1, <2>2, <2>3 DEF ResolvedAsGiven, Images
<1> QED
  BY <1>1, ResolveInvariant, PTL

\* RetriedInMeasure: withRetry ends a call at a permanent error, keeps at a
\* transient one to the last retry, and waits in between as long as it was told,
\* or twice as long each time up to its limit.
THEOREM RetriesMeasured == Spec => []RetriedInMeasure
<1>1. ASSUME JInv PROVE RetriedInMeasure
  <2>1. IInv /\ Calls
    BY <1>1 DEF JInv
  <2>2. failure \in Permanent => pause = -1
    BY <2>1, RetryableErrors DEF Calls
  <2>3. attempt \in Nat
    BY <2>1, ResolveAssumption DEF Calls
  <2>4. pause # -1 => pause = Delay(attempt)
    BY <2>1 DEF Calls
  <2> QED
    BY <2>1, <2>2, <2>3, <2>4, DelayBounded DEF RetriedInMeasure, Calls
<1> QED
  BY <1>1, ResolveInvariant, PTL

\* ExitTellsCause: the exit code of an import that could not open its baselines is
\* the documented one of the last call's error, or of the check that failed, but
\* for the departures that ActualExit names.
THEOREM ExitIsOfCause == Spec => []ExitTellsCause
<1>1. ASSUME JInv PROVE ExitTellsCause
  <2> SUFFICES ASSUME at = "done", ret # NoError PROVE Exit(ret) = ActualExit(failure)
    BY DEF ExitTellsCause
  <2>1. Told
    BY <1>1 DEF JInv, Returned
  <2>2. ASSUME failure \in Failures, ret = ClassifyRegistryErr(failure)
        PROVE  Exit(ret) = ActualExit(failure)
    <3>1. failure \in Failures \cup {Canceled}
      BY <2>2
    <3> QED
      BY <2>2, <3>1, ErrorsDiffer, ExitOfFailure, ActualExits
         DEF Failures, RegistryFaults, LocalFaults, OfEnvironment, OfContent, OfUser, OfNobody
  <2>3. ASSUME failure = Canceled, ret = Canceled PROVE Exit(ret) = ActualExit(failure)
    BY <2>3, ExitOfFailure, ActualExits DEF OfEnvironment
  <2>4. ASSUME failure = NoError,
               Exit(ret) = IF given[image] = "unparsable" /\ ~Unnamed THEN 1 ELSE 2
        PROVE  Exit(ret) = ActualExit(failure)
    BY <2>4, ActualExits
  <2>5. failure = NoError /\ Told =>
          Exit(ret) = IF given[image] = "unparsable" /\ ~Unnamed THEN 1 ELSE 2
    BY ErrorsDiffer, ExitOfCheck, ExitOfFailure DEF Told
  <2> QED
    BY <2>1, <2>2, <2>3, <2>4, <2>5 DEF Told
<1> QED
  BY <1>1, ResolveInvariant, PTL
=============================================================================
