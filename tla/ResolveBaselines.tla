-------------------------- MODULE ResolveBaselines --------------------------
(***************************************************************************)
(* The baselines of an import (pkg/importer resolve.go, retry.go): the     *)
(* sources are opened one image after the other, each call to a source is  *)
(* tried again while its error looks transient, the manifest's digest is   *)
(* compared with the sidecar's, and every source opened so far is closed   *)
(* when the import cannot go on, or when it is over.                       *)
(*                                                                         *)
(* A source may fail on any call with any of the errors of its transport,  *)
(* and may recover; the caller's context may end at any time.              *)
(*                                                                         *)
(* An operator whose name ends in Faulty is no part of the model: it is    *)
(* the definition after it with a plausible mistake, kept to show which    *)
(* property notices that mistake.                                          *)
(***************************************************************************)
EXTENDS Integers, Errors

CONSTANTS
  N,          \* bound: the images of a bundle
  Times,      \* RetryTimes
  Delays,     \* RetryDelay: what may be given, 0 for the exponential backoff
  Unit, Cap,  \* the first delay of that backoff, and its greatest
  Half        \* a duration is a number from -Half to Half - 1

ASSUME ResolveAssumption ==
  /\ N \in Nat \ {0} /\ Times \in Nat /\ Half \in Nat \ {0}
  /\ Unit \in Nat \ {0} /\ Cap \in Nat /\ Unit <= Cap
  /\ Delays \subseteq -Half..(Half - 1)

\* An image's name is its place in the sidecar. DefaultKey stands for the image
\* of a bundle of one, Stranger is the name of no image.
DefaultKey == 0
Stranger   == N + 1
Keys       == 0..(N + 1)

\* What is given for a name: a registry's image, a local one, an image that is
\* not the baseline, a reference that does not parse.
Ref == {"registry", "local", "other", "unparsable"}

VARIABLES
  count,      \* the number of images in the sidecar
  given,      \* [Keys -> Ref \cup {"none"}]: the baselines, the default key rewritten
  strict,     \* opts.Strict
  delay,      \* opts.RetryDelay
  cancelled,  \* the caller's context is done
  at,         \* where resolveBaselines is
  image,      \* the image it is at
  attempt,    \* the tries of this call that failed and were followed by a pause
  failure,    \* what the last call came to, NoError if it went well
  pause,      \* the delay being waited for, -1 if there is none
  resolved,   \* the images in result
  handles,    \* [1..N -> Nat]: the sources open for an image
  ret         \* what was returned: NoError, or the error

inputs == <<count, given, strict, delay>>
vars   == <<inputs, cancelled, at, image, attempt, failure, pause, resolved, handles, ret>>

Images == 1..count
Place  == {"guard", "image", "open", "manifest", "digest", "checks", "apply", "done"}

\* rewriteDefaultKey, for a bundle of one image: a Go map is ranged over in any
\* order, so of two entries for the image either may be the last.
Rewritten(m, n) ==
  IF n = 1 /\ m[DefaultKey] # "none"
    THEN {[m EXCEPT ![DefaultKey] = "none", ![1] = r] :
            r \in {m[DefaultKey], m[1]} \ {"none"}}
    ELSE {m}

Init ==
  /\ count \in 1..N
  /\ \E m \in [Keys -> Ref \cup {"none"}] :
       /\ m[DefaultKey] \in {"none", "registry", "other"}
       /\ m[Stranger] \in {"none", "local"}
       /\ \A k \in 1..N : k > count => m[k] = "none"
       /\ given \in Rewritten(m, count)
  /\ strict \in BOOLEAN
  /\ delay \in Delays
  /\ cancelled = FALSE
  /\ at = "guard"
  /\ image = 1
  /\ attempt = 0
  /\ failure = NoError
  /\ pause = -1
  /\ resolved = {}
  /\ handles = [i \in 1..N |-> 0]
  /\ ret = NoError

Cancel ==
  /\ at # "done"
  /\ ~cancelled
  /\ cancelled' = TRUE
  /\ UNCHANGED <<inputs, at, image, attempt, failure, pause, resolved, handles, ret>>
-----------------------------------------------------------------------------
(* The errors of the transports.                                           *)

Busy          == Raw({}, {"transient"})                 \* 429, 5xx
Refused       == Raw({"url", "netop"}, {"transient"})
BadCert       == Raw({"url"}, {})                       \* TLS, DNS
Unauthorized  == Raw({}, {"auth"})                      \* 401, 403
NoManifest    == Raw({}, {"missing"})                   \* 404
BadManifest   == Raw({}, {"invalid"})
CutRequest    == Raw({"url", "canceled"}, {})
NoFile        == Raw({"path", "notexist"}, {})
DeniedFile    == Raw({"path", "permission"}, {"auth"})  \* "permission denied"
CutFile       == Raw({}, {"transient"})                 \* "unexpected EOF"

RegistryFaults == {Busy, Refused, BadCert, Unauthorized, NoManifest, BadManifest}
LocalFaults    == {NoFile, DeniedFile, CutFile}

Faults(r) ==
  IF r = "local" THEN LocalFaults
  ELSE RegistryFaults \cup IF cancelled THEN {CutRequest} ELSE {}

-----------------------------------------------------------------------------
(* withRetry.                                                              *)

\* What is left of a number in the bits of a duration, the highest its sign.
Wrapped(x) ==
  LET m == x % (2 * Half) IN IF m >= Half THEN m - 2 * Half ELSE m

\* The delay after a failed attempt that is computed when none is given.
Backoff(a) == LET d == Wrapped(2^a * Unit) IN IF d > Cap THEN Cap ELSE d

AtLeastNone(d) == IF d < 0 THEN 0 ELSE d

\* A delay that is given is taken as it is, only the computed one is capped. A
\* timer that is given no time, or less, fires at once.
Delay(a) == AtLeastNone(IF delay = 0 THEN Backoff(a) ELSE delay)

GivesUpFaulty(e) == attempt >= Times

GivesUp(e) == attempt >= Times \/ ~IsRetryable(e)

\* The pause is over, at the earliest after its time.
Resume ==
  /\ pause # -1
  /\ pause' = -1
  /\ attempt' = attempt + 1
  /\ UNCHANGED <<inputs, cancelled, at, image, failure, resolved, handles, ret>>
-----------------------------------------------------------------------------
(* resolveBaselines and openOneBaseline.                                   *)

Closed(h, s) == [i \in DOMAIN h |-> IF i \in s THEN h[i] - 1 ELSE h[i]]

\* resolveBaselines returns this error: what is in result is closed.
Fail(e, h) ==
  /\ at' = "done"
  /\ ret' = e
  /\ handles' = Closed(h, resolved)
  /\ resolved' = {}

Stay == UNCHANGED <<resolved, handles, ret>>

\* validatePositionalBaseline: with several images every baseline has a name.
Unnamed == count > 1 /\ given[DefaultKey] # "none"

Guard ==
  /\ at = "guard"
  /\ IF Unnamed
       THEN Fail(Typed("ErrMultiImageNeedsNamedBaselines"), handles)
       ELSE at' = "image" /\ Stay
  /\ UNCHANGED <<inputs, cancelled, image, attempt, failure, pause>>

\* An image for which nothing is given is passed over.
NextImage ==
  /\ at = "image"
  /\ attempt' = 0
  /\ failure' = NoError
  /\ IF image > count
       THEN at' = "checks" /\ Stay /\ UNCHANGED image
     ELSE IF given[image] = "none"
       THEN image' = image + 1 /\ Stay /\ UNCHANGED at
     ELSE IF given[image] = "unparsable"
       THEN Fail(Plain, handles) /\ UNCHANGED image
     ELSE at' = "open" /\ Stay /\ UNCHANGED image
  /\ UNCHANGED <<inputs, cancelled, pause>>

Succeed ==
  /\ at \in {"open", "manifest"}
  /\ pause = -1
  /\ IF at = "open"
       THEN at' = "manifest" /\ handles' = [handles EXCEPT ![image] = @ + 1]
       ELSE at' = "digest" /\ UNCHANGED handles
  /\ attempt' = 0
  /\ failure' = NoError
  /\ UNCHANGED <<inputs, cancelled, image, pause, resolved, ret>>

OpenedFaulty == handles

\* What is open when the call that failed is left: the source it belongs to is
\* closed first.
Opened == IF at = "manifest" THEN Closed(handles, {image}) ELSE handles

Break(e) ==
  /\ at \in {"open", "manifest"}
  /\ pause = -1
  /\ failure' = e
  /\ IF GivesUp(e)
       THEN Fail(ClassifyRegistryErr(e), Opened) /\ UNCHANGED pause
       ELSE pause' = Delay(attempt) /\ Stay /\ UNCHANGED at
  /\ UNCHANGED <<inputs, cancelled, image, attempt>>

\* The select: the context is done while the pause lasts, or with its end.
GiveUp ==
  /\ pause # -1
  /\ cancelled
  /\ failure' = Canceled
  /\ pause' = -1
  /\ Fail(Canceled, Opened)
  /\ UNCHANGED <<inputs, cancelled, image, attempt>>

\* The manifest's digest against the one in the sidecar.
Compare ==
  /\ at = "digest"
  /\ IF given[image] = "other"
       THEN Fail(Typed("ErrBaselineMismatch"), Closed(handles, {image})) /\ UNCHANGED image
       ELSE /\ resolved' = resolved \cup {image}
            /\ image' = image + 1
            /\ at' = "image"
            /\ UNCHANGED <<handles, ret>>
  /\ UNCHANGED <<inputs, cancelled, attempt, failure, pause>>

Known(k) == k \in Images

ChecksFaulty ==
  /\ at = "checks"
  /\ IF strict /\ resolved # Images
       THEN Fail(Typed("ErrBaselineMissing"), handles)
     ELSE at' = "apply" /\ Stay
  /\ UNCHANGED <<inputs, cancelled, image, attempt, failure, pause>>

\* A baseline for every image in strict mode; none for an image there is not.
Checks ==
  /\ at = "checks"
  /\ IF strict /\ resolved # Images
       THEN Fail(Typed("ErrBaselineMissing"), handles)
     ELSE IF \E k \in Keys : given[k] # "none" /\ ~Known(k)
       THEN Fail(Typed("ErrBaselineNameUnknown"), handles)
     ELSE at' = "apply" /\ Stay
  /\ UNCHANGED <<inputs, cancelled, image, attempt, failure, pause>>

\* Import or DryRun is over; the sources it was given are closed.
Release ==
  /\ at = "apply"
  /\ at' = "done"
  /\ handles' = Closed(handles, resolved)
  /\ resolved' = {}
  /\ UNCHANGED <<inputs, cancelled, image, attempt, failure, pause, ret>>
-----------------------------------------------------------------------------
Call == Succeed \/ \E e \in Faults(given[image]) : Break(e)

Main == Guard \/ NextImage \/ Call \/ Resume \/ GiveUp \/ Compare \/ Checks \/ Release

Next == Main \/ Cancel

\* The calls return, the timers fire, nobody has to cancel.
Spec == Init /\ [][Next]_vars /\ WF_vars(Main)
-----------------------------------------------------------------------------
(* Properties.                                                             *)

TypeOK ==
  /\ count \in 1..N
  /\ given \in [Keys -> Ref \cup {"none"}]
  /\ {strict, cancelled} \subseteq BOOLEAN
  /\ delay \in Delays
  /\ at \in Place
  /\ image \in 1..(count + 1)
  /\ attempt \in 0..Times
  /\ pause \in -1..(Half - 1)
  /\ resolved \subseteq Images
  /\ handles \in [1..N -> {0, 1}]

\* Whatever fails and whenever: the sources that are open are those of the images
\* resolved so far and the one being resolved, each once, and none is left open
\* when resolveBaselines has failed or the import is over.
SourcesAccounted ==
  \A i \in 1..N :
    handles[i] = IF i \in resolved \/ (i = image /\ at \in {"manifest", "digest"})
                   THEN 1 ELSE 0

Permanent == {Unauthorized, NoManifest, BadManifest, NoFile, DeniedFile}

Transient == {Busy, Refused}

Overflows(a) == 2^a * Unit \notin 0..(Half - 1)

\* withRetry keeps at a call while its errors are transient and no longer: a
\* permanent one ends it at once, a transient one only after the last retry. A
\* pause is the delay that was given, however long; or the pauses grow twofold up
\* to their limit, until the delay no longer fits its width: from there on one
\* may be none at all.
RetriedInMeasure ==
  /\ failure \in Permanent => pause = -1
  /\ failure \in Transient /\ at = "done" => attempt = Times
  /\ pause # -1 /\ delay # 0 => pause = AtLeastNone(delay)
  /\ pause # -1 /\ delay = 0 =>
       /\ pause <= Cap
       /\ ~Overflows(attempt) =>
            pause = (IF 2^attempt * Unit > Cap THEN Cap ELSE 2^attempt * Unit)

\* The exit code that docs/compat.md:12-14 and README.md:489-491 give an error:
\* 3 to the network and to what the file system does not permit, 4 to a manifest
\* that is missing or invalid, 2 to failed authentication and to baselines that
\* are wrong or named in a wrong way. (Of a file that is not there, a cancellation
\* or a file that is cut short they say nothing; a category of the environment is
\* the nearest.)
DocumentedExit(e) ==
  CASE e \in {Refused, BadCert, Busy, CutRequest}      -> 3
    [] e \in {NoFile, DeniedFile, CutFile, Canceled}   -> 3
    [] e \in {NoManifest, BadManifest}                 -> 4
    [] OTHER                                           -> 2

\* Where the code departs from it. "permission denied" reads like a registry's
\* refusal, also of a local file (classify_registry.go:16): 2. A 429 or 5xx and a
\* stream that ends too soon are known as worth a retry, but to no category, and
\* a reference that does not parse is an error without a type: 1.
ActualExit(e) ==
  CASE e = DeniedFile                                               -> 2
    [] e \in {Busy, CutFile}                                        -> 1
    [] e = NoError /\ given[image] = "unparsable" /\ ~Unnamed       -> 1
    [] OTHER                                                        -> DocumentedExit(e)

\* The exit code tells where the fault is: after whichever number of retries,
\* images and cancellations it is that of the last call's error, or of the check
\* that failed, as documented; but for the departures above.
ExitTellsCause == at = "done" /\ ret # NoError => Exit(ret) = ActualExit(failure)

\* What the import works with: a source for an image only if the baseline given
\* for it has the digest in the sidecar, for every image in strict mode, and
\* nothing given was left unused.
ResolvedAsGiven ==
  at = "apply" =>
    /\ resolved = {i \in Images : given[i] # "none"}
    /\ \A i \in resolved : given[i] \in {"registry", "local"}
    /\ strict => resolved = Images
    /\ \A k \in Keys : given[k] # "none" => k \in resolved
=============================================================================
