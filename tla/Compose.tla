------------------------------- MODULE Compose -------------------------------
(***************************************************************************)
(* The images of a bundle written to their destinations: applyOneImage     *)
(* with composeImage (pkg/importer/compose.go) and verifyApplyInvariant    *)
(* (invariant.go), for several images at a time.                           *)
(*                                                                         *)
(* copy.Image takes an image's layers one after the other. A layer comes   *)
(* whole from the bundle, or as a patch that is decoded into a scratch     *)
(* file, or from the baseline; what a baseline serves goes through one     *)
(* spool for all images, which fetches a digest once and lets everybody    *)
(* else wait for it. (BaselineSpool has the spool's own steps; a fetch is  *)
(* two of them here.) The layers are hashed as they are read. At last the  *)
(* manifest is written, read back and compared.                            *)
(*                                                                         *)
(* An operator whose name ends in Faulty is no part of the model: it is    *)
(* the definition after it with a plausible mistake, kept to show which    *)
(* property notices that mistake.                                          *)
(***************************************************************************)
EXTENDS Naturals, Sequences, FiniteSets, Errors

CONSTANTS
  Images,     \* the images being applied
  LayersOf,   \* [Images -> Seq(digests)]: the layers of each target
  Table,      \* shipped digest -> [encoding, from]: the sidecar's blobs
  Outputs,    \* the destinations
  MaxFaults   \* bound: the blobs that are not what they should be

Shipped == DOMAIN Table

Range1(s) == {s[k] : k \in DOMAIN s}

\* What comes from a baseline for a layer: the patch's source, or the layer.
Source(d) == IF d \in Shipped THEN Table[d].from ELSE d

Patched(d) == d \in Shipped /\ Table[d].encoding = "patch"
Whole(d)   == d \in Shipped /\ Table[d].encoding = "full"

Needed == {Source(d) : d \in {e \in UNION {Range1(LayersOf[i]) : i \in Images} : ~Whole(e)}}

None == "none"

\* A name that is neither of the two that were written at the same time.
Torn == "torn"

ASSUME ComposeAssumption ==
  /\ Images # {} /\ {None, Torn} \cap Images = {} /\ MaxFaults \in Nat
  /\ \A i \in Images : LayersOf[i] \in Seq(STRING)

VARIABLES
  serves,    \* [Images -> [Needed -> Served]]: what each image's baseline answers
  stored,    \* [Shipped -> Stored]: the files of the extracted bundle
  out,       \* [Images -> Outputs]: where each image goes
  cancelled, \* the context of the group is done
  pc,        \* [Images -> Place]
  at,        \* [Images -> Nat]: the layer copy.Image is at
  flight,    \* [Needed -> Images \cup {None}]: who is fetching a digest
  ready,     \* the digests in the spool
  led,       \* [Images -> Images \cup {None}]: whose fetch an image's error is from
  name,      \* [Images -> Images \cup {None, Torn}]: the image named in the error of a fetch
  bytes,     \* [Images -> {"right", "wrong"}]: what the reader of the layer yields
  scratch,   \* the scratch files: <<image, layer>>
  written,   \* [Images -> Seq]: the layers put to the destination
  kept,      \* [Images -> Form]: what the destination makes of the image
  dest,      \* [Outputs -> Images \cup {None}]: the manifest at a destination
  failure    \* [Images -> Failure]

inputs == <<serves, stored, out>>
spool  == <<flight, ready, led, name>>
vars   == <<inputs, cancelled, pc, at, spool, bytes, scratch, written, kept, dest, failure>>

Served == {"right", "wrong", "missing", "broken"}
Stored == {"right", "wrong", "absent"}

\* As it is, with another manifest, with its layers unpacked.
Form == {"same", "converted", "unpacked"}

Wrong(f, good) == {x \in DOMAIN f : f[x] # good}

Init ==
  /\ serves \in [Images -> [Needed -> Served]]
  /\ stored \in [Shipped -> Stored]
  /\ Cardinality(Wrong(stored, "right"))
       + Cardinality({p \in Images \X Needed : serves[p[1]][p[2]] # "right"}) <= MaxFaults
  /\ out \in [Images -> Outputs]
  /\ cancelled = FALSE
  /\ pc = [i \in Images |-> "start"]
  /\ at = [i \in Images |-> 1]
  /\ flight = [x \in Needed |-> None]
  /\ ready = {}
  /\ led = [i \in Images |-> None]
  /\ name = [i \in Images |-> None]
  /\ bytes = [i \in Images |-> "right"]
  /\ scratch = {}
  /\ written = [i \in Images |-> <<>>]
  /\ kept = [i \in Images |-> "same"]
  /\ dest = [o \in Outputs |-> None]
  /\ failure = [i \in Images |-> None]

\* The layer an image is at.
Layer(i) == LayersOf[i][at[i]]

Go(i, place) == pc' = [pc EXCEPT ![i] = place]

Fail(i, why) == Go(i, "done") /\ failure' = [failure EXCEPT ![i] = why]

\* The caller's context, or an image that failed in strict mode.
Cancel ==
  /\ ~cancelled
  /\ cancelled' = TRUE
  /\ UNCHANGED <<inputs, pc, at, spool, bytes, scratch, written, kept, dest, failure>>
-----------------------------------------------------------------------------
(* enforceOutputCompat.                                                    *)

Transport == {"dir", "oci", "docker-archive", "registry"}
Mime      == {"schema2", "oci"}

Accepts(t, m) ==
  /\ t = "docker-archive" => m = "schema2"
  /\ t = "oci" => m = "oci"

\* What copy.Image makes of the image: dir keeps its bytes; an archive or a
\* registry that does not take the manifest has it converted; an archive of
\* docker's holds its layers unpacked.
Forms(t, m) ==
  CASE t = "dir"            -> {"same"}
    [] t = "oci"            -> IF m = "oci" THEN {"same"} ELSE {"converted"}
    [] t = "docker-archive" -> {"same", "unpacked"}
    [] t = "registry"       -> {"same", "converted"}

Start(i) ==
  /\ pc[i] = "start"
  /\ \E t \in Transport, m \in Mime, allowConvert \in BOOLEAN :
       IF allowConvert \/ Accepts(t, m)
         THEN /\ Go(i, "layer")
              /\ \E f \in Forms(t, m) : kept' = [kept EXCEPT ![i] = f]
              /\ UNCHANGED failure
         ELSE Fail(i, "format") /\ UNCHANGED kept
  /\ UNCHANGED <<inputs, cancelled, at, spool, bytes, scratch, written, dest>>
-----------------------------------------------------------------------------
(* GetBlob and the spool.                                                  *)

\* A layer that is not whole waits for its source in the spool.
Fetch(i) ==
  /\ pc[i] = "layer"
  /\ at[i] <= Len(LayersOf[i])
  /\ IF Whole(Layer(i)) THEN Go(i, "open") /\ UNCHANGED flight
     ELSE LET x == Source(Layer(i)) IN
       IF x \in ready
         THEN Go(i, IF Patched(Layer(i)) THEN "patch" ELSE "reuse") /\ UNCHANGED flight
       ELSE IF flight[x] # None THEN Go(i, "joined") /\ UNCHANGED flight
       ELSE Go(i, "fetching") /\ flight' = [flight EXCEPT ![x] = i]
  /\ UNCHANGED <<inputs, cancelled, at, ready, led, name, bytes, scratch, written, kept, dest,
                 failure>>

\* Everybody in the flight gets what the first one's baseline served.
Passengers(x) ==
  {j \in Images : pc[j] = "fetching" /\ flight[x] = j}
    \cup {j \in Images : pc[j] = "joined" /\ Source(Layer(j)) = x}

Land(i) ==
  /\ pc[i] = "fetching"
  /\ LET x == Source(Layer(i)) IN
       /\ flight' = [flight EXCEPT ![x] = None]
       /\ \/ /\ serves[i][x] = "right"
             /\ ready' = ready \cup {x}
             /\ pc' = [j \in Images |-> IF j \in Passengers(x) THEN "layer" ELSE pc[j]]
             /\ UNCHANGED <<led, failure>>
          \/ /\ serves[i][x] # "right" \/ cancelled
             /\ pc' = [j \in Images |-> IF j \in Passengers(x) THEN "refused" ELSE pc[j]]
             /\ led' = [j \in Images |-> IF j \in Passengers(x) THEN i ELSE led[j]]
             /\ \E why \in (IF serves[i][x] = "right" THEN {} ELSE {serves[i][x]})
                             \cup (IF cancelled THEN {"canceled"} ELSE {}) :
                  failure' = [j \in Images |-> IF j \in Passengers(x) THEN why ELSE failure[j]]
             /\ UNCHANGED ready
  /\ UNCHANGED <<inputs, cancelled, at, name, bytes, scratch, written, kept, dest>>

RefuseFaulty(i) ==
  /\ pc[i] = "refused"
  /\ Fail(i, CASE failure[i] = "missing" -> IF Patched(Layer(i)) THEN "patchSource" ELSE "reuseLayer"
               [] failure[i] = "wrong"   -> "baselineDigest"
               [] OTHER                  -> failure[i])
  /\ UNCHANGED <<inputs, cancelled, at, spool, bytes, scratch, written, kept, dest>>

\* The error is one value for all of them: the first puts its name into a
\* mismatch. Nothing guards it: two at once may each find it without a name, and
\* the later one's may replace the earlier one's, or mix with it.
Refuse(i) ==
  /\ pc[i] = "refused"
  /\ \E n \in IF name[led[i]] = None THEN {i} ELSE {i, name[led[i]], Torn} :
       name' = IF failure[i] = "wrong" THEN [name EXCEPT ![led[i]] = n] ELSE name
  /\ Fail(i, CASE failure[i] = "missing" -> IF Patched(Layer(i)) THEN "patchSource" ELSE "reuseLayer"
               [] failure[i] = "wrong"   -> "baselineDigest"
               [] OTHER                  -> failure[i])
  /\ UNCHANGED <<inputs, cancelled, at, flight, ready, led, bytes, scratch, written, kept, dest>>

\* servePatch: a scratch file of its own for every call.
CreateTemp(i) ==
  /\ pc[i] = "patch"
  /\ scratch' = scratch \cup {<<i, at[i]>>}
  /\ Go(i, "decode")
  /\ UNCHANGED <<inputs, cancelled, at, spool, bytes, written, kept, dest, failure>>

\* What ends a decoding: a patch that is not there is missed before zstd is called;
\* one that is wrong fails in it; zstd is not started once the context is done, and
\* killed when it ends.
BadPatch(d) ==
  CASE stored[d] = "absent" -> {"noFile"}
    [] stored[d] = "wrong"  -> {"decode"} \cup (IF cancelled THEN {"canceled"} ELSE {})
    [] stored[d] = "right"  -> IF cancelled THEN {"decode", "canceled"} ELSE {}

DecodeFaulty(i) ==
  /\ pc[i] = "decode"
  /\ \/ /\ stored[Layer(i)] # "absent"
        /\ bytes' = [bytes EXCEPT ![i] = stored[Layer(i)]]
        /\ Go(i, "read")
        /\ UNCHANGED <<scratch, failure>>
     \/ /\ \E why \in BadPatch(Layer(i)) : Fail(i, why)
        /\ UNCHANGED <<bytes, scratch>>
  /\ UNCHANGED <<inputs, cancelled, at, spool, written, kept, dest>>

\* A patch that is not right may also decode to other bytes. On an error the
\* deferred Remove takes the file.
Decode(i) ==
  /\ pc[i] = "decode"
  /\ \/ /\ stored[Layer(i)] # "absent"
        /\ bytes' = [bytes EXCEPT ![i] = stored[Layer(i)]]
        /\ Go(i, "read")
        /\ UNCHANGED <<scratch, failure>>
     \/ /\ \E why \in BadPatch(Layer(i)) : Fail(i, why)
        /\ scratch' = scratch \ {<<i, at[i]>>}
        /\ UNCHANGED bytes
  /\ UNCHANGED <<inputs, cancelled, at, spool, written, kept, dest>>

\* serveFull.
OpenFull(i) ==
  /\ pc[i] = "open"
  /\ IF stored[Layer(i)] = "absent"
       THEN Fail(i, "noFile") /\ UNCHANGED bytes
       ELSE Go(i, "read") /\ UNCHANGED failure
            /\ bytes' = [bytes EXCEPT ![i] = stored[Layer(i)]]
  /\ UNCHANGED <<inputs, cancelled, at, spool, scratch, written, kept, dest>>

\* fetchVerifiedBaselineBlob: what the spool holds has been hashed before.
ReadSpool(i) ==
  /\ pc[i] = "reuse"
  /\ bytes' = [bytes EXCEPT ![i] = "right"]
  /\ Go(i, "read")
  /\ UNCHANGED <<inputs, cancelled, at, spool, scratch, written, kept, dest, failure>>

MismatchFaulty(i) == FALSE

\* verifyingReadCloser, at the end of the file; a layer of the baseline is served
\* from memory.
Mismatch(i) == bytes[i] = "wrong" /\ Layer(i) \in Shipped

\* copy.Image reads the layer to its end and puts it to the destination, which
\* may refuse it.
ReadLayer(i) ==
  /\ pc[i] = "read"
  /\ Go(i, "close")
  /\ \/ /\ ~Mismatch(i)
        /\ written' = [written EXCEPT ![i] = Append(@, <<Layer(i), bytes[i]>>)]
        /\ UNCHANGED failure
     \/ /\ Mismatch(i)
        /\ failure' = [failure EXCEPT ![i] = IF Patched(Layer(i)) THEN "assembled" ELSE "shipped"]
        /\ UNCHANGED written
     \/ /\ \E why \in {"dest", "denied"} \cup (IF cancelled THEN {"canceled"} ELSE {}) :
             failure' = [failure EXCEPT ![i] = why]
        /\ UNCHANGED written
  /\ UNCHANGED <<inputs, cancelled, at, spool, bytes, scratch, kept, dest>>

\* Close removes the scratch file, if the layer has one.
Close(i) ==
  /\ pc[i] = "close"
  /\ scratch' = scratch \ {<<i, at[i]>>}
  /\ IF failure[i] = None THEN Go(i, "layer") /\ at' = [at EXCEPT ![i] = @ + 1]
     ELSE Go(i, "done") /\ UNCHANGED at
  /\ UNCHANGED <<inputs, cancelled, spool, bytes, written, kept, dest, failure>>
-----------------------------------------------------------------------------
(* The manifest, and verifyApplyInvariant.                                 *)

Commit(i) ==
  /\ pc[i] = "layer"
  /\ at[i] > Len(LayersOf[i])
  /\ \/ /\ dest' = [dest EXCEPT ![out[i]] = i]
        /\ Go(i, "verify")
        /\ UNCHANGED failure
     \/ /\ \E why \in {"dest", "denied"} : Fail(i, why)
        /\ UNCHANGED dest
  /\ UNCHANGED <<inputs, cancelled, at, spool, bytes, scratch, written, kept>>

\* layerSetDiff, verifyPerLayerSize and the digest of the manifest, if it was
\* not converted: another image's manifest and unpacked layers do not pass.
Accepted(i) ==
  /\ kept[i] # "unpacked"
  /\ Range1(LayersOf[dest[out[i]]]) = Range1(LayersOf[i])
  /\ kept[i] = "same" => dest[out[i]] = i

Verify(i) ==
  /\ pc[i] = "verify"
  /\ IF Accepted(i) THEN Go(i, "done") /\ UNCHANGED failure ELSE Fail(i, "invariant")
  /\ UNCHANGED <<inputs, cancelled, at, spool, bytes, scratch, written, kept, dest>>
-----------------------------------------------------------------------------
Step(i) ==
  \/ Start(i) \/ Fetch(i) \/ Land(i) \/ Refuse(i) \/ CreateTemp(i) \/ Decode(i)
  \/ OpenFull(i) \/ ReadSpool(i) \/ ReadLayer(i) \/ Close(i) \/ Commit(i) \/ Verify(i)

AllDone ==
  /\ \A i \in Images : pc[i] = "done"
  /\ UNCHANGED vars

\* (Nothing but the end stops a run: TLC looks for a deadlock.)
Next == Cancel \/ (\E i \in Images : Step(i)) \/ AllDone

Spec == Init /\ [][Next]_vars
-----------------------------------------------------------------------------
(* Errors.                                                                 *)

\* The error of an image. What copy.Image returns is looked at as if it came
\* from a registry; a file that may not be written says "denied".
ErrorOf(i) ==
  LET why == failure[i]
      copied(e) == ClassifyRegistryErr(e)
  IN  CASE why = None             -> NoError
        [] why = "format"         -> Typed("ErrIncompatibleOutputFormat")
        [] why = "patchSource"    -> copied(Typed("ErrMissingPatchSource"))
        [] why = "reuseLayer"     -> copied(Typed("ErrMissingBaselineReuseLayer"))
        [] why = "baselineDigest" -> copied(Typed("ErrBaselineBlobDigestMismatch"))
        [] why = "shipped"        -> copied(Typed("ErrShippedBlobDigestMismatch"))
        [] why = "assembled"      -> copied(Typed("ErrIntraLayerAssemblyMismatch"))
        [] why = "decode"         -> copied(Plain)
        [] why = "noFile"         -> copied(Raw({"path", "notexist"}, {}))
        [] why = "dest"           -> copied(Raw({"path"}, {}))
        [] why = "denied"         -> copied(Raw({"path", "permission"}, {"auth"}))
        [] why = "broken"         -> copied(Raw({"url", "netop"}, {}))
        [] why = "canceled"       -> copied(Canceled)
        [] why = "invariant"      -> Typed("ErrApplyInvariantFailed")
-----------------------------------------------------------------------------
(* Properties.                                                             *)

Applied(i) == pc[i] = "done" /\ failure[i] = None

Alone(i) == \A j \in Images \ {i} : out[j] # out[i]

\* An image that is reported applied has been written whole and with the right
\* bytes, whatever the bundle and the baselines hold; and if no other image was
\* sent to the same destination it is the one that is there.
AppliedIsThere ==
  \A i \in Images :
    Applied(i) =>
      /\ written[i] = [k \in DOMAIN LayersOf[i] |-> <<LayersOf[i][k], "right">>]
      /\ Alone(i) => dest[out[i]] = i

\* An image has one scratch file at a time, that of the layer it is at, and none
\* when it is done, also when zstd was killed or the destination failed: the
\* estimate of an image's memory and the space of the work directory count on it.
OneScratchFile ==
  \A f \in scratch :
    /\ f[2] = at[f[1]]
    /\ pc[f[1]] \in {"decode", "read", "close"}

Tried(i) == {Source(LayersOf[i][k]) : k \in 1..at[i]} \cap Needed

\* Those that were told the error of one fetch.
Sharers(i) == {j \in Images : led[j] = led[i]}

\* The exit code that docs/compat.md:12-14 and README.md:489-491 give a failure: 3
\* to the network and to what the file system does not permit, 4 to an archive that
\* is corrupt and to what does not match, 2 to what the user has to change. (Of a
\* cancellation and of a destination that fails otherwise they say nothing; the
\* environment is the nearest.)
DocumentedExit(why) ==
  CASE why = "format"                                    -> 2
    [] why \in {"dest", "denied", "broken", "canceled"} -> 3
    [] OTHER                                             -> 4

\* Where the code departs from it. "permission denied" reads like a registry's
\* refusal, also of a local destination: 2 (classify_registry.go:16). A blob that
\* the bundle should hold and does not is an error of the file system: 3
\* (compose.go:126, stream.go:61). A decoder that fails on a corrupt patch, or is
\* killed, is an error without a type: 1 (stream.go:86).
ActualExit(why) ==
  CASE why = "denied" -> 2
    [] why = "noFile" -> 3
    [] why = "decode" -> 1
    [] OTHER          -> DocumentedExit(why)

\* An image that fails has a reason, and an exit code that tells it as documented,
\* but for the departures above: damage in the bundle or in a baseline, its own or,
\* where it waited for another's fetch, that one's. A mismatch of a baseline names
\* the image; where several shared the fetch, and so the error (compose.go:177,
\* :316), it may name another of them, or none: they write the name unguarded.
FailureHasCause ==
  \A i \in Images : pc[i] = "done" /\ failure[i] # None =>
    LET why  == failure[i]
        from == {i} \cup ({led[i]} \ {None})
        Answer(a) == \E j \in from : \E x \in Tried(i) : serves[j][x] = a
    IN  /\ Exit(ErrorOf(i)) = ActualExit(why)
        /\ why \in {"patchSource", "reuseLayer"} => Answer("missing")
        /\ why = "baselineDigest" =>
             /\ Answer("wrong")
             /\ name[led[i]] \in IF Sharers(i) = {i} THEN {i} ELSE Sharers(i) \cup {Torn}
        /\ why = "broken" => Answer("broken")
        /\ why \in {"shipped", "assembled"} => stored[Layer(i)] = "wrong"
        /\ why = "noFile" => stored[Layer(i)] = "absent"
        /\ why = "decode" => stored[Layer(i)] = "wrong" \/ cancelled
        /\ why = "canceled" => cancelled
        /\ why = "invariant" => kept[i] = "unpacked" \/ ~Alone(i)
=============================================================================
