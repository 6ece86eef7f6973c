----------------------------- MODULE ComposeProofs -----------------------------
(***************************************************************************)
(* What applying keeps for any number of images, layers, destinations and  *)
(* damaged blobs: an image reported applied was written whole and right,   *)
(* an image has one scratch file at a time, and one that fails has a       *)
(* reason and an exit code that tells it.                                  *)
(*                                                                         *)
(* Images meet in the spool only, and there a fetch touches those that     *)
(* wait for it. So the invariant is about one image: what is written of it *)
(* by the layer it is at, where its bytes come from, which file it holds.  *)
(* A step of another image is shown to leave all of that alone.            *)
(***************************************************************************)
EXTENDS Compose, SequenceTheorems, TLAPS

\* Where an image is at one of its layers.
AtALayer == {"fetching", "joined", "refused", "patch", "decode", "open", "reuse", "read", "close"}

Place == AtALayer \cup {"start", "layer", "verify", "done"}

Quality == {"right", "wrong", "absent"}

Types ==
  /\ serves \in [Images -> [Needed -> Served]]
  /\ stored \in [Shipped -> Stored]
  /\ out \in [Images -> Outputs]
  /\ pc \in [Images -> Place]
  /\ at \in [Images -> Nat]
  /\ bytes \in [Images -> Quality]
  /\ written \in [Images -> Seq(STRING \X Quality)]
  /\ dest \in [Outputs -> Images \cup {None}]
  /\ DOMAIN failure = Images
  /\ scratch \subseteq Images \X Nat

\* The layer an image is at is one of its own, and fits what is done with it.
AtIsALayer(i) ==
  /\ at[i] \in 1..(Len(LayersOf[i]) + 1)
  /\ pc[i] \in AtALayer => at[i] <= Len(LayersOf[i])
  /\ pc[i] \in {"fetching", "joined"} => ~Whole(Layer(i))
  /\ pc[i] \in {"patch", "decode", "open"} => Layer(i) \in Shipped
  /\ pc[i] = "read" => bytes[i] = "right" \/ (bytes[i] = "wrong" /\ Layer(i) \in Shipped)

\* The layers before it have been written as they should be.
Progress(i) ==
  failure[i] = None =>
    /\ pc[i] # "refused"
    /\ Len(written[i]) = IF pc[i] = "close" THEN at[i] ELSE at[i] - 1
    /\ \A k \in 1..Len(written[i]) : written[i][k] = <<LayersOf[i][k], "right">>
    /\ pc[i] \in {"verify", "done"} => at[i] = Len(LayersOf[i]) + 1
    /\ pc[i] \in {"verify", "done"} /\ Alone(i) => dest[out[i]] = i

FailureAtEnd(i) == failure[i] # None => pc[i] \in {"refused", "close", "done"}

ScratchOf(i) ==
  \A k \in Nat : <<i, k>> \in scratch => k = at[i] /\ pc[i] \in {"decode", "read", "close"}

Local(i) == AtIsALayer(i) /\ Progress(i) /\ FailureAtEnd(i) /\ ScratchOf(i)

Inv == Types /\ \A i \in Images : Local(i)

LEMMA InvInit == Init => Inv
<1> SUFFICES ASSUME Init PROVE Inv
  OBVIOUS
<1> USE ComposeAssumption
<1>1. Types
  BY DEF Init, Types, Place, AtALayer, Quality
<1>2. ASSUME NEW i \in Images PROVE Local(i)
  BY <1>2 DEF Init, Local, AtIsALayer, Progress, FailureAtEnd, ScratchOf, AtALayer
<1> QED
  BY <1>1, <1>2 DEF Inv

\* A step that leaves an image's own state alone, and its destination if it is
\* nobody else's, leaves what holds of the image alone.
LEMMA Frame ==
  ASSUME Inv, NEW i \in Images,
         UNCHANGED inputs,
         at'[i] = at[i], pc'[i] = pc[i], bytes'[i] = bytes[i], written'[i] = written[i],
         failure'[i] = failure[i],
         \A k \in Nat : <<i, k>> \in scratch' => <<i, k>> \in scratch,
         Alone(i) => dest'[out[i]] = dest[out[i]]
  PROVE  Local(i)'
<1> USE DEF Inv, Local, inputs
<1>1. AtIsALayer(i)'
  BY DEF AtIsALayer, Layer
<1>2. Progress(i)'
  BY DEF Progress, Alone
<1>3. FailureAtEnd(i)' /\ ScratchOf(i)'
  BY DEF FailureAtEnd, ScratchOf
<1> QED
  BY <1>1, <1>2, <1>3

\* An image moves on, with its other state and the files as they are.
LEMMA MoveOn ==
  ASSUME Inv, NEW i \in Images, NEW place \in Place, Go(i, place),
         UNCHANGED <<inputs, at, written, failure, scratch, dest>>,
         bytes' \in [Images -> Quality],
         \A j \in Images \ {i} : bytes'[j] = bytes[j],
         failure[i] = None,
         pc[i] \notin {"verify", "done", "close"}, place \notin {"refused", "verify", "done", "close"},
         place \in AtALayer => at[i] <= Len(LayersOf[i]),
         place \in {"fetching", "joined"} => ~Whole(Layer(i)),
         place \in {"patch", "decode", "open"} => Layer(i) \in Shipped,
         place = "read" => bytes'[i] = "right" \/ (bytes'[i] = "wrong" /\ Layer(i) \in Shipped),
         pc[i] \in {"decode", "read"} => place \in {"decode", "read"}
  PROVE  Inv'
<1>1. pc' = [pc EXCEPT ![i] = place]
  BY DEF Go
<1>2. Types'
  BY <1>1 DEF Inv, Types, inputs
<1>3. ASSUME NEW j \in Images \ {i} PROVE Local(j)'
  BY <1>1, Frame DEF Inv, Types
<1>4. pc'[i] = place
  BY <1>1 DEF Inv, Types
<1>5. Local(i)'
  <2> USE <1>4 DEF Inv, Local, inputs
  <2>1. AtIsALayer(i)'
    BY DEF AtIsALayer, Layer
  <2>2. Progress(i)'
    BY DEF Progress, Alone
  <2>3. FailureAtEnd(i)' /\ ScratchOf(i)'
    BY DEF FailureAtEnd, ScratchOf
  <2> QED
    BY <2>1, <2>2, <2>3
<1> QED
  BY <1>2, <1>3, <1>5 DEF Inv

\* An image ends with an error, and lets go of the file it holds.
LEMMA EndsFailed ==
  ASSUME Inv, NEW i \in Images, NEW why, why # None, Fail(i, why),
         UNCHANGED <<inputs, at, bytes, written, dest>>,
         scratch' \subseteq scratch,
         \A k \in Nat : <<i, k>> \notin scratch'
  PROVE  Inv'
<1>1. pc' = [pc EXCEPT ![i] = "done"] /\ failure' = [failure EXCEPT ![i] = why]
  BY DEF Fail, Go
<1>2. Types'
  BY <1>1 DEF Inv, Types, inputs, Place
<1>3. ASSUME NEW j \in Images \ {i} PROVE Local(j)'
  BY <1>1, Frame DEF Inv, Types
<1>4. pc'[i] = "done" /\ failure'[i] = why
  BY <1>1 DEF Inv, Types
<1>5. Local(i)'
  BY <1>4 DEF Inv, Local, inputs, AtIsALayer, Progress, FailureAtEnd, ScratchOf, AtALayer
<1> QED
  BY <1>2, <1>3, <1>5 DEF Inv
-----------------------------------------------------------------------------
(* Each step.                                                              *)

\* What the spool is asked for is one of the digests needed.
LEMMA SourceIsNeeded ==
  ASSUME Inv, NEW i \in Images, at[i] <= Len(LayersOf[i]), ~Whole(Layer(i))
  PROVE  Source(Layer(i)) \in Needed
<1>1. at[i] \in DOMAIN LayersOf[i]
  BY ComposeAssumption DEF Inv, Local, AtIsALayer
<1>2. Layer(i) \in UNION {Range1(LayersOf[j]) : j \in Images}
  BY <1>1 DEF Layer, Range1
<1> QED
  BY <1>2 DEF Needed

LEMMA StepStart == ASSUME Inv, NEW i \in Images, Start(i) PROVE Inv'
<1>1. pc[i] = "start" /\ failure[i] = None
  BY DEF Start, Inv, Local, FailureAtEnd
<1>2. UNCHANGED <<inputs, at, written, scratch, dest, bytes>>
  BY DEF Start
<1>3. CASE Go(i, "layer") /\ UNCHANGED failure
  BY <1>1, <1>2, <1>3, MoveOn DEF Place, AtALayer, Inv, Types
<1>4. CASE Fail(i, "format")
  <2>1. \A k \in Nat : <<i, k>> \notin scratch'
    BY <1>1, <1>2 DEF Inv, Local, ScratchOf
  <2> QED
    BY <1>2, <1>4, <2>1, EndsFailed DEF None
<1> QED
  BY <1>3, <1>4 DEF Start

LEMMA StepFetch == ASSUME Inv, NEW i \in Images, Fetch(i) PROVE Inv'
<1>1. pc[i] = "layer" /\ failure[i] = None /\ at[i] <= Len(LayersOf[i])
  BY DEF Fetch, Inv, Local, FailureAtEnd
<1>2. UNCHANGED <<inputs, at, written, scratch, dest, bytes, failure>>
  BY DEF Fetch
<1>3. \/ Go(i, "open") /\ Whole(Layer(i))
      \/ Go(i, "patch") /\ Patched(Layer(i))
      \/ Go(i, "reuse")
      \/ Go(i, "joined") /\ ~Whole(Layer(i))
      \/ Go(i, "fetching") /\ ~Whole(Layer(i))
  BY DEF Fetch
<1>4. bytes' \in [Images -> Quality]
  BY <1>2 DEF Inv, Types
<1> QED
  BY <1>1, <1>2, <1>3, <1>4, MoveOn DEF Place, AtALayer, Whole, Patched

\* A fetch that succeeds lets those waiting try again; one that fails tells them.
LEMMA StepLand == ASSUME Inv, NEW i \in Images, Land(i) PROVE Inv'
<1> DEFINE x == Source(Layer(i))
<1>1. UNCHANGED <<inputs, at, bytes, written, scratch, dest>>
  BY DEF Land
<1>2. pc[i] = "fetching"
  BY DEF Land
<1>3. x \in Needed
  BY <1>2, SourceIsNeeded DEF Inv, Local, AtIsALayer, AtALayer
<1>4. \A j \in Passengers(x) :
        /\ j \in Images /\ pc[j] \in {"fetching", "joined"}
        /\ failure[j] = None /\ at[j] <= Len(LayersOf[j])
  BY DEF Passengers, Inv, Local, FailureAtEnd, AtIsALayer, AtALayer
<1>5. CASE /\ pc' = [j \in Images |-> IF j \in Passengers(x) THEN "layer" ELSE pc[j]]
           /\ UNCHANGED failure
  <2>1. Types'
    BY <1>1, <1>5 DEF Inv, Types, inputs, Place
  <2>2. ASSUME NEW j \in Images, j \notin Passengers(x) PROVE Local(j)'
    BY <1>1, <1>5, <2>2, Frame DEF Inv, Types
  <2>3. ASSUME NEW j \in Images, j \in Passengers(x) PROVE Local(j)'
    <3>1. pc'[j] = "layer" /\ Local(j)
      BY <1>5, <2>3 DEF Inv
    <3> QED
      BY <1>1, <1>4, <1>5, <2>3, <3>1
         DEF inputs, Local, AtIsALayer, AtALayer, Progress, FailureAtEnd, ScratchOf
  <2> QED
    BY <2>1, <2>2, <2>3 DEF Inv
<1>6. CASE /\ pc' = [j \in Images |-> IF j \in Passengers(x) THEN "refused" ELSE pc[j]]
           /\ \E why \in (IF serves[i][x] = "right" THEN {} ELSE {serves[i][x]})
                            \cup (IF cancelled THEN {"canceled"} ELSE {}) :
                 failure' = [j \in Images |-> IF j \in Passengers(x) THEN why ELSE failure[j]]
  <2>1. PICK why : why # None /\
          failure' = [j \in Images |-> IF j \in Passengers(x) THEN why ELSE failure[j]]
    <3>1. serves[i][x] \in Served
      BY <1>3 DEF Inv, Types
    <3> QED
      BY <1>6, <3>1 DEF Served, None
  <2>2. Types'
    BY <1>1, <1>6, <2>1 DEF Inv, Types, inputs, Place, AtALayer
  <2>3. ASSUME NEW j \in Images, j \notin Passengers(x) PROVE Local(j)'
    BY <1>1, <1>6, <2>1, <2>3, Frame DEF Inv, Types
  <2>4. ASSUME NEW j \in Images, j \in Passengers(x) PROVE Local(j)'
    <3>1. pc'[j] = "refused" /\ failure'[j] = why /\ Local(j)
      BY <1>6, <2>1, <2>4 DEF Inv
    <3> QED
      BY <1>1, <1>4, <2>1, <2>4, <3>1
         DEF inputs, Local, AtIsALayer, AtALayer, Progress, FailureAtEnd, ScratchOf
  <2> QED
    BY <2>2, <2>3, <2>4 DEF Inv
<1> QED
  BY <1>5, <1>6 DEF Land

LEMMA StepRefuse == ASSUME Inv, NEW i \in Images, Refuse(i) PROVE Inv'
<1>1. pc[i] = "refused" /\ failure[i] # None
  BY DEF Refuse, Inv, Local, Progress
<1>2. UNCHANGED <<inputs, at, bytes, written, scratch, dest>>
  BY DEF Refuse
<1>3. PICK why : why # None /\ Fail(i, why)
  BY <1>1 DEF Refuse, None
<1>4. \A k \in Nat : <<i, k>> \notin scratch'
  BY <1>1, <1>2 DEF Inv, Local, ScratchOf
<1> QED
  BY <1>2, <1>3, <1>4, EndsFailed

LEMMA StepCreateTemp == ASSUME Inv, NEW i \in Images, CreateTemp(i) PROVE Inv'
<1>1. /\ pc[i] = "patch" /\ pc' = [pc EXCEPT ![i] = "decode"]
      /\ scratch' = scratch \cup {<<i, at[i]>>}
      /\ UNCHANGED <<inputs, at, bytes, written, dest, failure>>
  BY DEF CreateTemp, Go
<1>2. Types'
  BY <1>1 DEF Inv, Types, inputs, Place, AtALayer
<1>3. ASSUME NEW j \in Images \ {i} PROVE Local(j)'
  BY <1>1, Frame DEF Inv, Types
<1>4. Local(i)'
  <2>1. pc'[i] = "decode" /\ Local(i)
    BY <1>1 DEF Inv, Types
  <2> QED
    BY <1>1, <2>1
       DEF inputs, Local, AtIsALayer, AtALayer, Layer, Progress, FailureAtEnd, ScratchOf
<1> QED
  BY <1>2, <1>3, <1>4 DEF Inv

\* How a decoding ends, if it fails.
LEMMA BadPatches ==
  ASSUME NEW d, stored[d] \in Stored, NEW why \in BadPatch(d)
  PROVE  /\ why \in {"noFile", "decode", "canceled"} /\ why # None
         /\ why = "noFile" => stored[d] = "absent"
         /\ why = "decode" => stored[d] = "wrong" \/ cancelled
         /\ why = "canceled" => cancelled
  BY DEF BadPatch, Stored, None

LEMMA StepDecode == ASSUME Inv, NEW i \in Images, Decode(i) PROVE Inv'
<1>1. /\ pc[i] = "decode" /\ failure[i] = None
      /\ at[i] <= Len(LayersOf[i]) /\ Layer(i) \in Shipped
  BY DEF Decode, Inv, Local, FailureAtEnd, AtIsALayer, AtALayer
<1>2. UNCHANGED <<inputs, at, written, dest>>
  BY DEF Decode
<1>3. CASE /\ stored[Layer(i)] # "absent"
           /\ bytes' = [bytes EXCEPT ![i] = stored[Layer(i)]]
           /\ Go(i, "read")
           /\ UNCHANGED <<scratch, failure>>
  <2>1. stored[Layer(i)] \in {"right", "wrong"}
    BY <1>1, <1>3 DEF Inv, Types, Stored
  <2>2. bytes' \in [Images -> Quality]
    BY <1>3, <2>1 DEF Inv, Types, Quality
  <2>3. bytes'[i] = stored[Layer(i)] /\ \A j \in Images \ {i} : bytes'[j] = bytes[j]
    BY <1>3 DEF Inv, Types
  <2> QED
    BY <1>1, <1>2, <1>3, <2>1, <2>2, <2>3, MoveOn DEF Place, AtALayer
<1>4. CASE /\ \E why \in BadPatch(Layer(i)) : Fail(i, why)
           /\ scratch' = scratch \ {<<i, at[i]>>}
           /\ UNCHANGED bytes
  <2>1. \A k \in Nat : <<i, k>> \notin scratch'
    BY <1>4 DEF Inv, Local, ScratchOf
  <2>2. stored[Layer(i)] \in Stored
    BY <1>1 DEF Inv, Types
  <2>3. PICK why : why # None /\ Fail(i, why)
    BY <1>4, <2>2, BadPatches
  <2> QED
    BY <1>2, <1>4, <2>1, <2>3, EndsFailed
<1> QED
  BY <1>3, <1>4 DEF Decode

LEMMA StepOpenFull == ASSUME Inv, NEW i \in Images, OpenFull(i) PROVE Inv'
<1>1. /\ pc[i] = "open" /\ failure[i] = None
      /\ at[i] <= Len(LayersOf[i]) /\ Layer(i) \in Shipped
  BY DEF OpenFull, Inv, Local, FailureAtEnd, AtIsALayer, AtALayer
<1>2. UNCHANGED <<inputs, at, written, dest, scratch>>
  BY DEF OpenFull
<1>3. CASE stored[Layer(i)] = "absent"
  <2>1. Fail(i, "noFile") /\ UNCHANGED bytes
    BY <1>3 DEF OpenFull
  <2>2. \A k \in Nat : <<i, k>> \notin scratch'
    BY <1>1, <1>2 DEF Inv, Local, ScratchOf
  <2> QED
    BY <1>2, <2>1, <2>2, EndsFailed DEF None
<1>4. CASE stored[Layer(i)] # "absent"
  <2>1. /\ Go(i, "read") /\ UNCHANGED failure
        /\ bytes' = [bytes EXCEPT ![i] = stored[Layer(i)]]
    BY <1>4 DEF OpenFull
  <2>2. stored[Layer(i)] \in {"right", "wrong"}
    BY <1>1, <1>4 DEF Inv, Types, Stored
  <2>3. bytes' \in [Images -> Quality]
    BY <2>1, <2>2 DEF Inv, Types, Quality
  <2>4. bytes'[i] = stored[Layer(i)] /\ \A j \in Images \ {i} : bytes'[j] = bytes[j]
    BY <2>1 DEF Inv, Types
  <2> QED
    BY <1>1, <1>2, <2>1, <2>2, <2>3, <2>4, MoveOn DEF Place, AtALayer
<1> QED
  BY <1>3, <1>4

LEMMA StepReadSpool == ASSUME Inv, NEW i \in Images, ReadSpool(i) PROVE Inv'
<1>1. pc[i] = "reuse" /\ failure[i] = None /\ at[i] <= Len(LayersOf[i])
  BY DEF ReadSpool, Inv, Local, FailureAtEnd, AtIsALayer, AtALayer
<1>2. /\ bytes' = [bytes EXCEPT ![i] = "right"]
      /\ Go(i, "read")
      /\ UNCHANGED <<inputs, at, written, dest, scratch, failure>>
  BY DEF ReadSpool
<1>3. bytes' \in [Images -> Quality]
  BY <1>2 DEF Inv, Types, Quality
<1>4. bytes'[i] = "right" /\ \A j \in Images \ {i} : bytes'[j] = bytes[j]
  BY <1>2 DEF Inv, Types
<1> QED
  BY <1>1, <1>2, <1>3, <1>4, MoveOn DEF Place, AtALayer

\* Only a layer whose bytes are right is put to the destination.
LEMMA StepReadLayer == ASSUME Inv, NEW i \in Images, ReadLayer(i) PROVE Inv'
<1>1. /\ pc[i] = "read" /\ pc' = [pc EXCEPT ![i] = "close"]
      /\ UNCHANGED <<inputs, at, bytes, scratch, dest>>
  BY DEF ReadLayer, Go
<1>2. pc'[i] = "close" /\ Local(i) /\ failure[i] = None /\ at[i] \in 1..Len(LayersOf[i])
  <2>1. Len(LayersOf[i]) \in Nat
    BY ComposeAssumption
  <2>2. pc'[i] = "close" /\ Local(i)
    BY <1>1 DEF Inv, Types
  <2>3. failure[i] = None
    BY <1>1, <2>2 DEF Local, FailureAtEnd
  <2>4. at[i] \in 1..Len(LayersOf[i])
    BY <1>1, <2>1, <2>2 DEF Local, AtIsALayer, AtALayer
  <2> QED
    BY <2>2, <2>3, <2>4
<1>3. LayersOf[i][at[i]] \in STRING
  BY <1>2, ComposeAssumption
<1>4. CASE /\ ~Mismatch(i)
           /\ written' = [written EXCEPT ![i] = Append(@, <<Layer(i), bytes[i]>>)]
           /\ UNCHANGED failure
  <2>1. bytes[i] = "right"
    BY <1>1, <1>2, <1>4 DEF Local, AtIsALayer, Mismatch
  <2>2. written[i] \in Seq(STRING \X Quality) /\ Len(written[i]) = at[i] - 1
    BY <1>1, <1>2 DEF Inv, Types, Progress, Local
  <2>3. written'[i] = Append(written[i], <<LayersOf[i][at[i]], "right">>)
    BY <1>4, <2>1 DEF Inv, Types, Layer
  <2>4. /\ written'[i] \in Seq(STRING \X Quality)
        /\ Len(written'[i]) = at[i]
        /\ \A k \in 1..(at[i] - 1) : written'[i][k] = written[i][k]
        /\ written'[i][at[i]] = <<LayersOf[i][at[i]], "right">>
    <3> DEFINE one == <<LayersOf[i][at[i]], "right">>
    <3>1. one \in STRING \X Quality
      BY <1>3 DEF Quality
    <3>2. written'[i] = Append(written[i], one)
      BY <2>3
    <3> HIDE DEF one
    <3>3. /\ written'[i] \in Seq(STRING \X Quality)
          /\ Len(written'[i]) = at[i] - 1 + 1
          /\ \A k \in 1..(at[i] - 1) : written'[i][k] = written[i][k]
          /\ written'[i][at[i] - 1 + 1] = one
      BY <2>2, <3>1, <3>2, AppendProperties
    <3>4. at[i] - 1 + 1 = at[i]
      BY <1>2
    <3> QED
      BY <3>3, <3>4 DEF one
  <2>5. Types'
    BY <1>1, <1>4, <2>4 DEF Inv, Types, inputs, Place, AtALayer
  <2>6. ASSUME NEW j \in Images \ {i} PROVE Local(j)'
    BY <1>1, <1>4, Frame DEF Inv, Types
  <2>7. Progress(i)'
    BY <1>1, <1>2, <1>4, <2>2, <2>4 DEF Progress, Local
  <2>8. Local(i)'
    BY <1>1, <1>2, <1>4, <2>7 DEF inputs, Local, AtIsALayer, AtALayer, FailureAtEnd, ScratchOf
  <2> QED
    BY <2>5, <2>6, <2>8 DEF Inv
<1>5. CASE UNCHANGED written /\ \E why : why # None /\ failure' = [failure EXCEPT ![i] = why]
  <2>1. PICK why : why # None /\ failure' = [failure EXCEPT ![i] = why]
    BY <1>5
  <2>2. Types'
    BY <1>1, <1>5, <2>1 DEF Inv, Types, inputs, Place, AtALayer
  <2>3. ASSUME NEW j \in Images \ {i} PROVE Local(j)'
    BY <1>1, <1>5, <2>1, Frame DEF Inv, Types
  <2>4. failure'[i] # None
    BY <2>1 DEF Inv, Types
  <2>5. Local(i)'
    BY <1>1, <1>2, <2>4
       DEF inputs, Local, AtIsALayer, AtALayer, Progress, FailureAtEnd, ScratchOf
  <2> QED
    BY <2>2, <2>3, <2>5 DEF Inv
<1> QED
  BY <1>4, <1>5 DEF ReadLayer, None

LEMMA StepClose == ASSUME Inv, NEW i \in Images, Close(i) PROVE Inv'
<1>1. /\ pc[i] = "close"
      /\ scratch' = scratch \ {<<i, at[i]>>}
      /\ UNCHANGED <<inputs, bytes, written, dest, failure>>
  BY DEF Close
<1>2. Local(i) /\ Len(LayersOf[i]) \in Nat /\ at[i] \in 1..Len(LayersOf[i])
  <2>1. Len(LayersOf[i]) \in Nat
    BY ComposeAssumption
  <2> QED
    BY <1>1, <2>1 DEF Inv, Local, AtIsALayer, AtALayer
<1>3. \A k \in Nat : <<i, k>> \notin scratch'
  BY <1>1, <1>2 DEF Local, ScratchOf
<1>4. CASE failure[i] = None
  <2>1. /\ pc' = [pc EXCEPT ![i] = "layer"]
        /\ at' = [at EXCEPT ![i] = @ + 1]
    BY <1>4 DEF Close, Go
  <2>2. Types'
    BY <1>1, <2>1 DEF Inv, Types, inputs, Place
  <2>3. ASSUME NEW j \in Images \ {i} PROVE Local(j)'
    BY <1>1, <2>1, Frame DEF Inv, Types
  <2>4. pc'[i] = "layer" /\ at'[i] = at[i] + 1
    BY <2>1 DEF Inv, Types
  <2>5. AtIsALayer(i)'
    BY <1>2, <2>4 DEF AtIsALayer, AtALayer
  <2>6. Progress(i)'
    BY <1>1, <1>2, <1>4, <2>4 DEF Local, Progress
  <2>7. Local(i)'
    BY <1>1, <1>2, <1>3, <1>4, <2>4, <2>5, <2>6 DEF Local, FailureAtEnd, ScratchOf
  <2> QED
    BY <2>2, <2>3, <2>7 DEF Inv
<1>5. CASE failure[i] # None
  <2>1. pc' = [pc EXCEPT ![i] = "done"] /\ UNCHANGED at
    BY <1>5 DEF Close, Go
  <2>2. Types'
    BY <1>1, <2>1 DEF Inv, Types, inputs, Place
  <2>3. ASSUME NEW j \in Images \ {i} PROVE Local(j)'
    BY <1>1, <2>1, Frame DEF Inv, Types
  <2>4. pc'[i] = "done"
    BY <2>1 DEF Inv, Types
  <2>5. Local(i)'
    BY <1>1, <1>2, <1>3, <1>5, <2>1, <2>4
       DEF Local, AtIsALayer, AtALayer, Progress, FailureAtEnd, ScratchOf
  <2> QED
    BY <2>2, <2>3, <2>5 DEF Inv
<1> QED
  BY <1>4, <1>5

\* Another image's manifest may be replaced, but only where both go.
LEMMA StepCommit == ASSUME Inv, NEW i \in Images, Commit(i) PROVE Inv'
<1>1. /\ pc[i] = "layer" /\ at[i] > Len(LayersOf[i])
      /\ UNCHANGED <<inputs, at, bytes, scratch, written>>
  BY DEF Commit
<1>2. Local(i) /\ Len(LayersOf[i]) \in Nat /\ at[i] = Len(LayersOf[i]) + 1
  <2>1. Len(LayersOf[i]) \in Nat
    BY ComposeAssumption
  <2> QED
    BY <1>1, <2>1 DEF Inv, Types, Local, AtIsALayer
<1>3. CASE Go(i, "verify") /\ dest' = [dest EXCEPT ![out[i]] = i] /\ UNCHANGED failure
  <2>1. pc' = [pc EXCEPT ![i] = "verify"] /\ pc'[i] = "verify" /\ out[i] \in Outputs
    BY <1>3 DEF Go, Inv, Types
  <2>2. Types'
    BY <1>1, <1>3, <2>1 DEF Inv, Types, inputs, Place
  <2>3. ASSUME NEW j \in Images \ {i} PROVE Local(j)'
    <3>1. Alone(j) => dest'[out[j]] = dest[out[j]]
      BY <1>3, <2>1 DEF Alone, Inv, Types
    <3> QED
      BY <1>1, <1>3, <2>1, <3>1, Frame DEF Inv, Types
  <2>4. dest'[out'[i]] = i
    BY <1>1, <1>3, <2>1 DEF Inv, Types, inputs
  <2>5. Local(i)'
    BY <1>1, <1>2, <1>3, <2>1, <2>4
       DEF Local, AtIsALayer, AtALayer, Progress, FailureAtEnd, ScratchOf
  <2> QED
    BY <2>2, <2>3, <2>5 DEF Inv
<1>4. CASE UNCHANGED dest /\ \E why \in {"dest", "denied"} : Fail(i, why)
  <2>1. \A k \in Nat : <<i, k>> \notin scratch'
    BY <1>1, <1>2 DEF Local, ScratchOf
  <2> QED
    BY <1>1, <1>4, <2>1, EndsFailed DEF None
<1> QED
  BY <1>3, <1>4 DEF Commit

LEMMA StepVerify == ASSUME Inv, NEW i \in Images, Verify(i) PROVE Inv'
<1>1. pc[i] = "verify" /\ UNCHANGED <<inputs, at, bytes, scratch, written, dest>>
  BY DEF Verify
<1>2. Local(i)
  BY DEF Inv
<1>3. CASE Go(i, "done") /\ UNCHANGED failure
  <2>1. pc' = [pc EXCEPT ![i] = "done"] /\ pc'[i] = "done"
    BY <1>3 DEF Go, Inv, Types
  <2>2. Types'
    BY <1>1, <1>3, <2>1 DEF Inv, Types, inputs, Place
  <2>3. ASSUME NEW j \in Images \ {i} PROVE Local(j)'
    BY <1>1, <1>3, <2>1, Frame DEF Inv, Types
  <2>4. Local(i)'
    BY <1>1, <1>2, <1>3, <2>1
       DEF inputs, Local, AtIsALayer, AtALayer, Progress, Alone, FailureAtEnd, ScratchOf
  <2> QED
    BY <2>2, <2>3, <2>4 DEF Inv
<1>4. CASE Fail(i, "invariant")
  <2>1. \A k \in Nat : <<i, k>> \notin scratch'
    BY <1>1, <1>2 DEF Local, ScratchOf
  <2> QED
    BY <1>1, <1>4, <2>1, EndsFailed DEF None
<1> QED
  BY <1>3, <1>4 DEF Verify

LEMMA InvStep == Inv /\ [Next]_vars => Inv'
<1> SUFFICES ASSUME Inv, [Next]_vars PROVE Inv'
  OBVIOUS
<1>1. CASE UNCHANGED <<inputs, pc, at, bytes, scratch, written, dest, failure>>
  <2>1. Types'
    BY <1>1 DEF Inv, Types, inputs
  <2>2. ASSUME NEW i \in Images PROVE Local(i)'
    BY <1>1, Frame
  <2> QED
    BY <2>1, <2>2 DEF Inv
<1>2. CASE \E i \in Images : Step(i)
  BY <1>2, StepStart, StepFetch, StepLand, StepRefuse, StepCreateTemp, StepDecode, StepOpenFull,
     StepReadSpool, StepReadLayer, StepClose, StepCommit, StepVerify DEF Step
<1>3. CASE Cancel
  BY <1>1, <1>3 DEF Cancel
<1>4. CASE AllDone \/ UNCHANGED vars
  BY <1>1, <1>4 DEF AllDone, vars, inputs
<1> QED
  BY <1>2, <1>3, <1>4 DEF Next
-----------------------------------------------------------------------------
(* The flights.                                                            *)

\* Who leads a flight is fetching what it is for.
FlightOK ==
  /\ flight \in [Needed -> Images \cup {None}]
  /\ \A x \in Needed, j \in Images :
       flight[x] = j => pc[j] = "fetching" /\ Source(Layer(j)) = x

Base == Inv /\ FlightOK

LEMMA BaseInit == Init => Base
BY InvInit, ComposeAssumption DEF Init, Base, FlightOK

\* A step that takes nobody out of a fetch.
LEMMA FlightStays ==
  ASSUME Base, UNCHANGED flight,
         \A j \in Images : pc[j] = "fetching" => pc'[j] = pc[j] /\ at'[j] = at[j]
  PROVE  FlightOK'
<1>1. flight' \in [Needed -> Images \cup {None}]
  BY DEF Base, FlightOK
<1>2. ASSUME NEW x \in Needed, NEW j \in Images, flight'[x] = j
      PROVE  pc'[j] = "fetching" /\ Source(Layer(j))' = x
  <2>1. pc[j] = "fetching" /\ Source(Layer(j)) = x /\ Layer(j)' = Layer(j)
    BY <1>2 DEF Base, FlightOK, Layer
  <2> QED
    BY <2>1
<1> QED
  BY <1>1, <1>2 DEF FlightOK

LEMMA FlightFetch == ASSUME Base, NEW i \in Images, Fetch(i) PROVE FlightOK'
<1>1. pc[i] = "layer" /\ at[i] <= Len(LayersOf[i]) /\ UNCHANGED at /\ pc \in [Images -> Place]
  BY DEF Fetch, Base, Inv, Types
<1>2. CASE UNCHANGED flight /\ \E p : Go(i, p)
  BY <1>1, <1>2, FlightStays DEF Go
<1>3. CASE ~Whole(Layer(i)) /\ Go(i, "fetching") /\ flight' = [flight EXCEPT ![Source(Layer(i))] = i]
  <2>1. PICK x \in Needed : x = Source(Layer(i))
    BY <1>1, <1>3, SourceIsNeeded DEF Base
  <2>2. flight' = [flight EXCEPT ![x] = i] /\ pc' = [pc EXCEPT ![i] = "fetching"]
    BY <1>3, <2>1 DEF Go
  <2>3. flight' \in [Needed -> Images \cup {None}]
    BY <2>2 DEF Base, FlightOK
  <2>4. ASSUME NEW y \in Needed, NEW j \in Images, flight'[y] = j
        PROVE  pc'[j] = "fetching" /\ Source(Layer(j))' = y
    <3>1. Layer(j)' = Layer(j)
      BY <1>1 DEF Layer
    <3>2. CASE y = x
      <4>1. j = i
        BY <2>2, <2>4, <3>2 DEF Base, FlightOK
      <4>2. pc'[i] = "fetching"
        BY <1>1, <2>2
      <4> QED
        BY <2>1, <3>1, <3>2, <4>1, <4>2
    <3>3. CASE y # x
      <4>1. flight[y] = j
        BY <2>2, <2>4, <3>3 DEF Base, FlightOK
      <4>2. pc[j] = "fetching" /\ Source(Layer(j)) = y
        BY <4>1 DEF Base, FlightOK
      <4>3. pc'[j] = "fetching"
        BY <1>1, <2>2, <4>2
      <4> QED
        BY <3>1, <4>2, <4>3
    <3> QED
      BY <3>2, <3>3
  <2> QED
    BY <2>3, <2>4 DEF FlightOK
<1> QED
  BY <1>2, <1>3 DEF Fetch

LEMMA FlightLand == ASSUME Base, NEW i \in Images, Land(i) PROVE FlightOK'
<1>1. PICK x : x = Source(Layer(i))
  OBVIOUS
<1>2. /\ x \in Needed /\ flight' = [flight EXCEPT ![x] = None] /\ UNCHANGED at
      /\ \A j \in Images : j \notin Passengers(x) => pc'[j] = pc[j]
  BY <1>1, SourceIsNeeded DEF Land, Base, Inv, Local, AtIsALayer, AtALayer
<1>3. flight' \in [Needed -> Images \cup {None}]
  BY <1>2 DEF Base, FlightOK
<1>4. ASSUME NEW y \in Needed, NEW j \in Images, flight'[y] = j
      PROVE  pc'[j] = "fetching" /\ Source(Layer(j))' = y
  <2>1. y # x /\ flight[y] = j
    BY <1>2, <1>4, ComposeAssumption DEF Base, FlightOK
  <2>2. pc[j] = "fetching" /\ Source(Layer(j)) = y
    BY <2>1 DEF Base, FlightOK
  <2>3. j \notin Passengers(x)
    BY <1>2, <2>1, <2>2 DEF Passengers, Base, FlightOK
  <2>4. Layer(j)' = Layer(j)
    BY <1>2 DEF Layer
  <2> QED
    BY <1>2, <2>2, <2>3, <2>4
<1> QED
  BY <1>3, <1>4 DEF FlightOK

LEMMA BaseStep == ASSUME Base, [Next]_vars PROVE Base'
<1>1. Inv'
  BY InvStep DEF Base
<1>2. pc \in [Images -> Place] /\ at \in [Images -> Nat]
  BY DEF Base, Inv, Types
<1>3. ASSUME NEW i \in Images, Step(i) PROVE FlightOK'
  <2>1. CASE Fetch(i) \/ Land(i)
    BY <2>1, FlightFetch, FlightLand
  <2>2. CASE Start(i) \/ Refuse(i) \/ CreateTemp(i) \/ Decode(i) \/ OpenFull(i) \/ ReadSpool(i)
    <3>1. UNCHANGED <<flight, at>> /\ pc[i] # "fetching" /\ \E p : pc' = [pc EXCEPT ![i] = p]
      BY <2>2 DEF Start, Refuse, CreateTemp, Decode, OpenFull, ReadSpool, spool, Go, Fail
    <3> QED
      BY <1>2, <3>1, FlightStays
  <2>3. CASE ReadLayer(i) \/ Close(i) \/ Commit(i) \/ Verify(i)
    <3>1. /\ UNCHANGED flight /\ pc[i] # "fetching" /\ \E p : pc' = [pc EXCEPT ![i] = p]
          /\ UNCHANGED at \/ \E n : at' = [at EXCEPT ![i] = n]
      BY <2>3 DEF ReadLayer, Close, Commit, Verify, spool, Go, Fail
    <3> QED
      BY <1>2, <3>1, FlightStays
  <2> QED
    BY <1>3, <2>1, <2>2, <2>3 DEF Step
<1>4. UNCHANGED <<flight, pc, at>> => FlightOK'
  BY FlightStays
<1>5. Cancel \/ AllDone \/ UNCHANGED vars => UNCHANGED <<flight, pc, at>>
  BY DEF Cancel, AllDone, vars, spool
<1> QED
  BY <1>1, <1>3, <1>4, <1>5 DEF Base, Next
-----------------------------------------------------------------------------
(* Why an image fails.                                                     *)

SpoolTypes ==
  /\ led \in [Images -> Images \cup {None}]
  /\ name \in [Images -> Images \cup {None, Torn}]
  /\ kept \in [Images -> Form]

\* Who has been refused stays where it is; the image a mismatch names is one that
\* shared the fetch and has its error; two names mix only where two shared it.
SpoolOK ==
  /\ SpoolTypes
  /\ \A i \in Images : led[i] # None => pc[i] \in {"refused", "done"}
  /\ \A l \in Images : name[l] \in Images => led[name[l]] = l /\ pc[name[l]] = "done"
  /\ \A l \in Images : name[l] = Torn => \E j, k \in Images : j # k /\ led[j] = l /\ led[k] = l

\* Bytes that are not right are the bundle's.
ReadOK(i) == pc[i] = "read" /\ bytes[i] = "wrong" => stored[Layer(i)] = "wrong"

\* What the image whose fetch i waited for was served.
LedTo(i, answer) ==
  /\ led[i] \in Images
  /\ Source(Layer(i)) \in Needed
  /\ serves[led[i]][Source(Layer(i))] = answer

Answers == {"wrong", "missing", "broken"}

\* What ErrorOf knows.
Reasons ==
  {"format", "patchSource", "reuseLayer", "baselineDigest", "shipped", "assembled", "decode",
   "noFile", "dest", "denied", "broken", "canceled", "invariant"}

Explained(i) ==
  LET why == failure[i]
  IN  /\ pc[i] = "refused" => led[i] \in Images /\ why \in Answers \cup {"canceled"}
      /\ pc[i] \in {"close", "done"} => why \in Reasons \cup {None}
      /\ why \in {"missing", "patchSource", "reuseLayer"} => LedTo(i, "missing")
      /\ why \in {"wrong", "baselineDigest"} => LedTo(i, "wrong")
      /\ why = "broken" => LedTo(i, "broken")
      /\ why = "baselineDigest" => name[led[i]] # None
      /\ why \in {"shipped", "assembled"} => stored[Layer(i)] = "wrong"
      /\ why = "noFile" => stored[Layer(i)] = "absent"
      /\ why = "decode" => stored[Layer(i)] = "wrong" \/ cancelled
      /\ why = "canceled" => cancelled
      /\ why = "invariant" => kept[i] = "unpacked" \/ ~Alone(i)

CInv ==
  /\ Base /\ SpoolOK
  /\ \A i \in Images : ReadOK(i) /\ Explained(i)

LEMMA CInvInit == Init => CInv
<1> SUFFICES ASSUME Init PROVE CInv
  OBVIOUS
<1>1. SpoolOK
  BY ComposeAssumption DEF Init, SpoolOK, SpoolTypes, Form, None, Torn
<1>2. \A i \in Images : ReadOK(i) /\ Explained(i)
  BY DEF Init, ReadOK, Explained, None
<1> QED
  BY <1>1, <1>2, BaseInit DEF CInv

\* A step that leaves an image alone leaves its reason alone.
LEMMA CFrame ==
  ASSUME CInv, NEW i \in Images, UNCHANGED <<inputs, at[i], pc[i], bytes[i], failure[i], kept[i], led[i]>>,
         cancelled => cancelled', \A l \in Images : name[l] # None => name'[l] # None
  PROVE  ReadOK(i)' /\ Explained(i)'
<1>1. ReadOK(i) /\ Explained(i)
  BY DEF CInv
<1>2. UNCHANGED <<serves, stored, out, Layer(i)>>
  BY DEF inputs, Layer
<1>3. ReadOK(i)'
  BY <1>1, <1>2 DEF ReadOK
<1>4. \A a : LedTo(i, a)' <=> LedTo(i, a)
  BY <1>2 DEF LedTo
<1>5. LedTo(i, "wrong") => led[i] \in Images
  BY DEF LedTo
<1>6. Explained(i)'
  BY <1>1, <1>2, <1>4, <1>5 DEF Explained, Alone
<1> QED
  BY <1>3, <1>6

\* An image's own step, away from the spool.
LEMMA COwn ==
  ASSUME CInv, Base', NEW i \in Images, UNCHANGED <<inputs, cancelled, led, name>>, SpoolTypes',
         \A j \in Images \ {i} : UNCHANGED <<at[j], pc[j], bytes[j], failure[j], kept[j]>>,
         pc[i] \notin {"refused", "done"} \/ pc'[i] = "done", ReadOK(i)', Explained(i)'
  PROVE  CInv'
<1>1. \A j \in Images : ReadOK(j)' /\ Explained(j)'
  <2> TAKE j \in Images
  <2>1. CASE j # i
    BY <2>1, CFrame
  <2> QED
    BY <2>1
<1>2. SpoolOK'
  BY DEF CInv, SpoolOK
<1> QED
  BY <1>1, <1>2 DEF CInv

\* It goes on, with no error.
LEMMA CMoves ==
  ASSUME CInv, Base', NEW i \in Images, UNCHANGED <<inputs, cancelled, led, name>>, SpoolTypes',
         \A j \in Images \ {i} : UNCHANGED <<at[j], pc[j], bytes[j], failure[j], kept[j]>>,
         pc[i] \notin {"refused", "done"}, pc'[i] # "refused", ReadOK(i)', failure'[i] = None
  PROVE  CInv'
<1>1. Explained(i)'
  BY DEF Explained, None
<1> QED
  BY <1>1, COwn

\* It ends with an error of its own.
LEMMA CEnds ==
  ASSUME CInv, Base', NEW i \in Images, NEW why, Fail(i, why),
         UNCHANGED <<inputs, cancelled, at, led, name, kept, bytes>>, Explained(i)'
  PROVE  CInv'
<1>1. /\ pc'[i] = "done" /\ SpoolTypes'
      /\ \A j \in Images \ {i} : UNCHANGED <<at[j], pc[j], bytes[j], failure[j], kept[j]>>
  BY DEF Fail, Go, CInv, Base, Inv, Types, SpoolOK, SpoolTypes
<1>2. ReadOK(i)'
  BY <1>1 DEF ReadOK
<1> QED
  BY <1>1, <1>2, COwn

LEMMA CStart == ASSUME CInv, Base', NEW i \in Images, Start(i) PROVE CInv'
<1>1. /\ pc[i] = "start" /\ failure[i] = None /\ Types /\ SpoolTypes
      /\ UNCHANGED <<inputs, cancelled, at, led, name, bytes>>
  BY DEF Start, spool, CInv, Base, Inv, Local, FailureAtEnd, SpoolOK
<1>2. CASE Fail(i, "format") /\ UNCHANGED kept
  <2>1. failure'[i] = "format" /\ pc'[i] = "done"
    BY <1>1, <1>2 DEF Fail, Go, Types
  <2> QED
    BY <1>1, <1>2, <2>1, CEnds DEF Explained, Reasons
<1>3. CASE /\ Go(i, "layer") /\ UNCHANGED failure
           /\ \E f \in Form : kept' = [kept EXCEPT ![i] = f]
  <2>1. /\ pc'[i] = "layer" /\ SpoolTypes'
        /\ \A j \in Images \ {i} : UNCHANGED <<at[j], pc[j], bytes[j], failure[j], kept[j]>>
    BY <1>1, <1>3 DEF Go, Types, SpoolTypes
  <2> QED
    BY <1>1, <1>3, <2>1, CMoves DEF ReadOK
<1>4. \A t \in Transport, m \in Mime : Forms(t, m) \subseteq Form
  BY DEF Transport, Forms, Form
<1> QED
  BY <1>2, <1>3, <1>4 DEF Start

\* The steps between the layers' bytes and the destination, of one image.
LEMMA CFetch == ASSUME CInv, Base', NEW i \in Images, Fetch(i) PROVE CInv'
<1>1. /\ pc[i] = "layer" /\ failure[i] = None /\ Types /\ SpoolTypes
      /\ UNCHANGED <<inputs, cancelled, at, led, name, bytes, kept, failure>>
  BY DEF Fetch, CInv, Base, Inv, Local, FailureAtEnd, SpoolOK
<1>2. \E p \in {"open", "patch", "reuse", "joined", "fetching"} : Go(i, p)
  BY DEF Fetch
<1>3. /\ pc'[i] \in {"open", "patch", "reuse", "joined", "fetching"} /\ SpoolTypes'
      /\ \A j \in Images \ {i} : UNCHANGED <<at[j], pc[j], bytes[j], failure[j], kept[j]>>
  BY <1>1, <1>2 DEF Go, Types, SpoolTypes
<1> QED
  BY <1>1, <1>3, CMoves DEF ReadOK

LEMMA CCreateTemp == ASSUME CInv, Base', NEW i \in Images, CreateTemp(i) PROVE CInv'
<1>1. /\ pc[i] = "patch" /\ failure[i] = None /\ Types /\ SpoolTypes /\ Go(i, "decode")
      /\ UNCHANGED <<inputs, cancelled, at, led, name, bytes, kept, failure>>
  BY DEF CreateTemp, spool, CInv, Base, Inv, Local, FailureAtEnd, SpoolOK
<1>2. /\ pc'[i] = "decode" /\ SpoolTypes'
      /\ \A j \in Images \ {i} : UNCHANGED <<at[j], pc[j], bytes[j], failure[j], kept[j]>>
  BY <1>1 DEF Go, Types, SpoolTypes
<1> QED
  BY <1>1, <1>2, CMoves DEF ReadOK

LEMMA CDecode == ASSUME CInv, Base', NEW i \in Images, Decode(i) PROVE CInv'
<1>1. /\ pc[i] = "decode" /\ failure[i] = None /\ Types /\ SpoolTypes
      /\ stored[Layer(i)] \in Stored
      /\ UNCHANGED <<inputs, cancelled, at, led, name, kept>>
  BY DEF Decode, spool, CInv, Base, Inv, Types, Local, FailureAtEnd, AtIsALayer, SpoolOK
<1>2. UNCHANGED <<stored, Layer(i)>>
  BY <1>1 DEF inputs, Layer
<1>3. CASE Go(i, "read") /\ bytes' = [bytes EXCEPT ![i] = stored[Layer(i)]] /\ UNCHANGED failure
  <2>1. /\ pc'[i] = "read" /\ bytes'[i] = stored[Layer(i)] /\ SpoolTypes'
        /\ \A j \in Images \ {i} : UNCHANGED <<at[j], pc[j], bytes[j], failure[j], kept[j]>>
    BY <1>1, <1>3 DEF Go, Types, SpoolTypes
  <2> QED
    BY <1>1, <1>2, <1>3, <2>1, CMoves DEF ReadOK
<1>4. CASE (\E why \in BadPatch(Layer(i)) : Fail(i, why)) /\ UNCHANGED bytes
  <2>1. PICK why \in BadPatch(Layer(i)) : Fail(i, why)
    BY <1>4
  <2>2. failure'[i] = why /\ pc'[i] = "done"
    BY <1>1, <2>1 DEF Fail, Go, Types
  <2>3. Explained(i)'
    BY <1>1, <1>2, <2>1, <2>2, BadPatches DEF Explained, Reasons
  <2> QED
    BY <1>1, <1>4, <2>1, <2>3, CEnds
<1> QED
  BY <1>3, <1>4 DEF Decode

LEMMA COpenFull == ASSUME CInv, Base', NEW i \in Images, OpenFull(i) PROVE CInv'
<1>1. /\ pc[i] = "open" /\ failure[i] = None /\ Types /\ SpoolTypes
      /\ UNCHANGED <<inputs, cancelled, at, led, name, kept>>
  BY DEF OpenFull, spool, CInv, Base, Inv, Local, FailureAtEnd, SpoolOK
<1>2. UNCHANGED <<stored, Layer(i)>>
  BY <1>1 DEF inputs, Layer
<1>3. CASE stored[Layer(i)] # "absent"
  <2>1. Go(i, "read") /\ bytes' = [bytes EXCEPT ![i] = stored[Layer(i)]] /\ UNCHANGED failure
    BY <1>3 DEF OpenFull
  <2>2. /\ pc'[i] = "read" /\ bytes'[i] = stored[Layer(i)] /\ SpoolTypes'
        /\ \A j \in Images \ {i} : UNCHANGED <<at[j], pc[j], bytes[j], failure[j], kept[j]>>
    BY <1>1, <2>1 DEF Go, Types, SpoolTypes
  <2> QED
    BY <1>1, <1>2, <2>1, <2>2, CMoves DEF ReadOK
<1>4. CASE stored[Layer(i)] = "absent"
  <2>1. Fail(i, "noFile") /\ UNCHANGED bytes
    BY <1>4 DEF OpenFull
  <2>2. failure'[i] = "noFile" /\ pc'[i] = "done"
    BY <1>1, <2>1 DEF Fail, Go, Types
  <2>3. Explained(i)'
    BY <1>2, <1>4, <2>2 DEF Explained, Reasons
  <2> QED
    BY <1>1, <2>1, <2>3, CEnds
<1> QED
  BY <1>3, <1>4

LEMMA CReadSpool == ASSUME CInv, Base', NEW i \in Images, ReadSpool(i) PROVE CInv'
<1>1. /\ pc[i] = "reuse" /\ failure[i] = None /\ Types /\ SpoolTypes
      /\ UNCHANGED <<inputs, cancelled, at, led, name, kept, failure>>
      /\ bytes' = [bytes EXCEPT ![i] = "right"] /\ Go(i, "read")
  BY DEF ReadSpool, spool, CInv, Base, Inv, Local, FailureAtEnd, SpoolOK
<1>2. /\ pc'[i] = "read" /\ bytes'[i] = "right" /\ SpoolTypes'
      /\ \A j \in Images \ {i} : UNCHANGED <<at[j], pc[j], bytes[j], failure[j], kept[j]>>
  BY <1>1 DEF Go, Types, SpoolTypes
<1> QED
  BY <1>1, <1>2, CMoves DEF ReadOK

LEMMA CReadLayer == ASSUME CInv, Base', NEW i \in Images, ReadLayer(i) PROVE CInv'
<1>1. /\ pc[i] = "read" /\ failure[i] = None /\ Types /\ SpoolTypes /\ ReadOK(i)
      /\ UNCHANGED <<inputs, cancelled, at, led, name, kept, bytes>> /\ Go(i, "close")
  BY DEF ReadLayer, spool, CInv, Base, Inv, Local, FailureAtEnd, SpoolOK
<1>2. /\ pc'[i] = "close" /\ SpoolTypes' /\ UNCHANGED <<stored, Layer(i)>>
  BY <1>1 DEF Go, Types, SpoolTypes, inputs, Layer
<1>3. CASE UNCHANGED failure
  <2>1. \A j \in Images \ {i} : UNCHANGED <<at[j], pc[j], bytes[j], failure[j], kept[j]>>
    BY <1>1, <1>3 DEF Go, Types
  <2> QED
    BY <1>1, <1>2, <1>3, <2>1, CMoves DEF ReadOK
<1>4. CASE \E why : /\ failure' = [failure EXCEPT ![i] = why]
                    /\ \/ why \in {"shipped", "assembled"} /\ Mismatch(i)
                       \/ why \in {"dest", "denied"}
                       \/ why = "canceled" /\ cancelled
  <2>1. PICK why : /\ failure' = [failure EXCEPT ![i] = why]
                   /\ \/ why \in {"shipped", "assembled"} /\ Mismatch(i)
                      \/ why \in {"dest", "denied"}
                      \/ why = "canceled" /\ cancelled
    BY <1>4
  <2>2. /\ failure'[i] = why
        /\ \A j \in Images \ {i} : UNCHANGED <<at[j], pc[j], bytes[j], failure[j], kept[j]>>
    BY <1>1, <2>1 DEF Go, Types
  <2>3. Mismatch(i) => stored[Layer(i)] = "wrong"
    BY <1>1 DEF Mismatch, ReadOK
  <2>4. Explained(i)' /\ ReadOK(i)'
    BY <1>1, <1>2, <2>1, <2>2, <2>3 DEF Explained, ReadOK, Reasons
  <2> QED
    BY <1>1, <1>2, <2>2, <2>4, COwn
<1> QED
  BY <1>3, <1>4 DEF ReadLayer

LEMMA CClose == ASSUME CInv, Base', NEW i \in Images, Close(i) PROVE CInv'
<1>1. /\ pc[i] = "close" /\ Types /\ SpoolTypes /\ Explained(i)
      /\ UNCHANGED <<inputs, cancelled, led, name, kept, bytes, failure>>
  BY DEF Close, spool, CInv, Base, Inv, SpoolOK
<1>2. led[i] = None
  BY <1>1 DEF CInv, SpoolOK
<1>3. CASE failure[i] = None
  <2>1. Go(i, "layer") /\ at' = [at EXCEPT ![i] = @ + 1]
    BY <1>3 DEF Close
  <2>2. /\ pc'[i] = "layer" /\ SpoolTypes'
        /\ \A j \in Images \ {i} : UNCHANGED <<at[j], pc[j], bytes[j], failure[j], kept[j]>>
    BY <1>1, <2>1 DEF Go, Types, SpoolTypes
  <2> QED
    BY <1>1, <1>3, <2>2, CMoves DEF ReadOK
<1>4. CASE failure[i] # None
  <2>1. Go(i, "done") /\ UNCHANGED at
    BY <1>4 DEF Close
  <2>2. /\ pc'[i] = "done" /\ SpoolTypes' /\ UNCHANGED <<stored, Layer(i), out>>
        /\ \A j \in Images \ {i} : UNCHANGED <<at[j], pc[j], bytes[j], failure[j], kept[j]>>
    BY <1>1, <2>1 DEF Go, Types, SpoolTypes, inputs, Layer
  <2>3. led[i] \notin Images
    BY <1>2, ComposeAssumption
  <2>4. Explained(i)' /\ ReadOK(i)'
    BY <1>1, <2>2, <2>3 DEF Explained, ReadOK, LedTo, Alone
  <2> QED
    BY <1>1, <2>2, <2>4, COwn
<1> QED
  BY <1>3, <1>4

LEMMA CCommit == ASSUME CInv, Base', NEW i \in Images, Commit(i) PROVE CInv'
<1>1. /\ pc[i] = "layer" /\ failure[i] = None /\ Types /\ SpoolTypes
      /\ UNCHANGED <<inputs, cancelled, at, led, name, kept, bytes>>
  BY DEF Commit, spool, CInv, Base, Inv, Local, FailureAtEnd, SpoolOK
<1>2. CASE Go(i, "verify") /\ UNCHANGED failure
  <2>1. /\ pc'[i] = "verify" /\ SpoolTypes'
        /\ \A j \in Images \ {i} : UNCHANGED <<at[j], pc[j], bytes[j], failure[j], kept[j]>>
    BY <1>1, <1>2 DEF Go, Types, SpoolTypes
  <2> QED
    BY <1>1, <1>2, <2>1, CMoves DEF ReadOK
<1>3. CASE \E why \in {"dest", "denied"} : Fail(i, why)
  <2>1. PICK why \in {"dest", "denied"} : Fail(i, why)
    BY <1>3
  <2>2. failure'[i] = why /\ pc'[i] = "done"
    BY <1>1, <2>1 DEF Fail, Go, Types
  <2> QED
    BY <1>1, <2>1, <2>2, CEnds DEF Explained, Reasons
<1> QED
  BY <1>2, <1>3 DEF Commit

\* The check at the end refuses what another image left at the destination, or
\* layers that were unpacked.
LEMMA CVerify == ASSUME CInv, Base', NEW i \in Images, Verify(i) PROVE CInv'
<1>1. /\ pc[i] = "verify" /\ failure[i] = None /\ Types /\ SpoolTypes
      /\ UNCHANGED <<inputs, cancelled, at, led, name, kept, bytes>>
      /\ Alone(i) => dest[out[i]] = i
  BY DEF Verify, spool, CInv, Base, Inv, Local, FailureAtEnd, SpoolOK, Progress
<1>2. CASE Accepted(i)
  <2>1. Go(i, "done") /\ UNCHANGED failure
    BY <1>2 DEF Verify
  <2>2. /\ pc'[i] = "done" /\ SpoolTypes'
        /\ \A j \in Images \ {i} : UNCHANGED <<at[j], pc[j], bytes[j], failure[j], kept[j]>>
    BY <1>1, <2>1 DEF Go, Types, SpoolTypes
  <2> QED
    BY <1>1, <2>1, <2>2, CMoves DEF ReadOK
<1>3. CASE ~Accepted(i)
  <2>1. Fail(i, "invariant")
    BY <1>3 DEF Verify
  <2>2. failure'[i] = "invariant" /\ pc'[i] = "done"
    BY <1>1, <2>1 DEF Fail, Go, Types
  <2>3. kept[i] = "unpacked" \/ ~Alone(i)
    BY <1>1, <1>3 DEF Accepted
  <2>4. Explained(i)'
    BY <1>1, <2>2, <2>3 DEF Explained, inputs, Alone, Reasons
  <2> QED
    BY <1>1, <2>1, <2>4, CEnds
<1> QED
  BY <1>2, <1>3

\* Those who share a fetch that fails are told what its baseline served.
LEMMA CLand == ASSUME CInv, Base', NEW i \in Images, Land(i) PROVE CInv'
<1>1. /\ pc[i] = "fetching" /\ Types /\ SpoolTypes
      /\ UNCHANGED <<inputs, cancelled, at, name, kept, bytes>>
  BY DEF Land, CInv, Base, Inv, SpoolOK
<1>2. PICK x : x = Source(Layer(i))
  OBVIOUS
<1>3. PICK P : P = Passengers(x)
  OBVIOUS
<1>4. \A j \in P : /\ j \in Images /\ pc[j] \in {"fetching", "joined"} /\ failure[j] = None
                   /\ Source(Layer(j)) \in Needed /\ led[j] = None
  BY <1>3, SourceIsNeeded DEF Passengers, CInv, Base, Inv, Local, FailureAtEnd, AtIsALayer, AtALayer, SpoolOK
<1>5. CASE /\ pc' = [j \in Images |-> IF j \in P THEN "layer" ELSE pc[j]]
           /\ UNCHANGED <<led, failure>>
  <2>1. SpoolOK'
    BY <1>1, <1>4, <1>5 DEF CInv, SpoolOK, SpoolTypes
  <2>2. ASSUME NEW j \in Images PROVE ReadOK(j)' /\ Explained(j)'
    <3>1. CASE j \in P
      <4>1. pc'[j] = "layer" /\ failure'[j] = None
        BY <1>4, <1>5, <3>1
      <4> QED
        BY <4>1 DEF ReadOK, Explained, None
    <3>2. CASE j \notin P
      BY <1>1, <1>5, <3>2, CFrame
    <3> QED
      BY <3>1, <3>2
  <2> QED
    BY <2>1, <2>2 DEF CInv
<1>6. CASE /\ pc' = [j \in Images |-> IF j \in P THEN "refused" ELSE pc[j]]
           /\ led' = [j \in Images |-> IF j \in P THEN i ELSE led[j]]
           /\ \E why \in (IF serves[i][x] = "right" THEN {} ELSE {serves[i][x]})
                            \cup (IF cancelled THEN {"canceled"} ELSE {}) :
                failure' = [j \in Images |-> IF j \in P THEN why ELSE failure[j]]
  <2>1. PICK why : /\ (why = "canceled" /\ cancelled) \/ (why = serves[i][x] /\ why # "right")
                   /\ failure' = [j \in Images |-> IF j \in P THEN why ELSE failure[j]]
    BY <1>6
  <2>2. x \in Needed /\ serves[i][x] \in Served
    <3>1. x \in Needed
      BY <1>1, <1>2, SourceIsNeeded DEF CInv, Base, Inv, Local, AtIsALayer, AtALayer
    <3> QED
      BY <1>1, <3>1 DEF Types
  <2>3. SpoolOK'
    <3>1. SpoolTypes'
      BY <1>1, <1>6 DEF SpoolTypes
    <3>2. \A j \in Images : led'[j] # None => pc'[j] \in {"refused", "done"}
      BY <1>6 DEF CInv, SpoolOK
    <3>3. ASSUME NEW l \in Images, name'[l] \in Images
          PROVE  led'[name'[l]] = l /\ pc'[name'[l]] = "done"
      <4>1. name[l] \in Images /\ led[name[l]] = l /\ pc[name[l]] = "done"
        BY <1>1, <3>3 DEF CInv, SpoolOK
      <4>2. name[l] \notin P
        BY <1>4, <4>1
      <4> QED
        BY <1>1, <1>6, <4>1, <4>2
    <3>4. ASSUME NEW l \in Images, name'[l] = Torn
          PROVE  \E j, k \in Images : j # k /\ led'[j] = l /\ led'[k] = l
      <4>1. PICK j, k \in Images : j # k /\ led[j] = l /\ led[k] = l
        BY <1>1, <3>4 DEF CInv, SpoolOK
      <4>2. j \notin P /\ k \notin P
        BY <1>4, <4>1, ComposeAssumption
      <4> QED
        BY <1>6, <4>1, <4>2
    <3> QED
      BY <3>1, <3>2, <3>3, <3>4 DEF SpoolOK
  <2>4. ASSUME NEW j \in Images PROVE ReadOK(j)' /\ Explained(j)'
    <3>1. CASE j \in P
      <4>1. pc'[j] = "refused" /\ failure'[j] = why /\ led'[j] = i /\ UNCHANGED <<serves, Layer(j)>>
        BY <1>1, <1>6, <2>1, <3>1 DEF inputs, Layer
      <4>2. Source(Layer(j)) = x
        BY <1>2, <1>3, <2>2, <3>1 DEF Passengers, CInv, Base, FlightOK
      <4>3. why = serves[i][x] => LedTo(j, why)'
        BY <2>2, <4>1, <4>2 DEF LedTo
      <4>4. why \in {"canceled", "wrong", "missing", "broken"}
        BY <2>1, <2>2 DEF Served
      <4>5. why # "canceled" => why = serves[i][x]
        BY <2>1
      <4>6. why = "canceled" => cancelled'
        BY <1>1, <2>1, <2>2 DEF Served
      <4> QED
        BY <4>1, <4>3, <4>4, <4>5, <4>6 DEF ReadOK, Explained, Answers
    <3>2. CASE j \notin P
      BY <1>1, <1>6, <2>1, <3>2, CFrame
    <3> QED
      BY <3>1, <3>2
  <2> QED
    BY <2>3, <2>4 DEF CInv
<1> QED
  BY <1>2, <1>3, <1>5, <1>6 DEF Land

\* Its error goes to the image; a mismatch is given a name if it has none.
LEMMA CRefuse == ASSUME CInv, Base', NEW i \in Images, Refuse(i) PROVE CInv'
<1>1. /\ pc[i] = "refused" /\ Types /\ SpoolTypes
      /\ UNCHANGED <<inputs, cancelled, at, led, kept, bytes>>
  BY DEF Refuse, CInv, Base, Inv, SpoolOK
<1>2. PICK l \in Images : l = led[i]
  BY <1>1 DEF CInv, Explained
<1>3. PICK why : why = CASE failure[i] = "missing" -> IF Patched(Layer(i)) THEN "patchSource" ELSE "reuseLayer"
                         [] failure[i] = "wrong"   -> "baselineDigest"
                         [] OTHER                  -> failure[i]
  OBVIOUS
<1>4. /\ pc' = [pc EXCEPT ![i] = "done"] /\ failure' = [failure EXCEPT ![i] = why]
      /\ pc'[i] = "done" /\ failure'[i] = why
  BY <1>1, <1>3 DEF Refuse, Fail, Go, Types
<1>5. PICK n \in IF name[l] = None THEN {i} ELSE {i, name[l], Torn} :
        name' = IF failure[i] = "wrong" THEN [name EXCEPT ![l] = n] ELSE name
  BY <1>2 DEF Refuse
<1>6. /\ n \in Images \cup {Torn}
      /\ n \in Images => led[n] = l /\ pc'[n] = "done"
      /\ n = Torn => \E j, k \in Images : j # k /\ led[j] = l /\ led[k] = l
  <2>1. pc'[i] = "done" /\ led[i] = l /\ i # Torn
    BY <1>2, <1>4, ComposeAssumption
  <2>2. ASSUME name[l] \in Images
        PROVE  name[l] # i /\ led[name[l]] = l /\ pc'[name[l]] = "done"
    <3>1. led[name[l]] = l /\ pc[name[l]] = "done"
      BY <1>2, <2>2 DEF CInv, SpoolOK
    <3> QED
      BY <1>1, <1>4, <2>2, <3>1 DEF Types
  <2>3. name[l] \in Images \cup {None, Torn}
    BY <1>1, <1>2 DEF SpoolTypes
  <2>4. name[l] = Torn => \E j, k \in Images : j # k /\ led[j] = l /\ led[k] = l
    BY <1>2 DEF CInv, SpoolOK
  <2> QED
    <3>1. CASE name[l] = None
      BY <1>5, <2>1, <3>1
    <3>2. CASE name[l] \in Images
      <4>1. i # name[l] /\ led[i] = l /\ led[name[l]] = l
        BY <2>1, <2>2, <3>2
      <4> QED
        BY <1>5, <2>1, <2>2, <3>2, <4>1, ComposeAssumption
    <3>3. CASE name[l] = Torn
      BY <1>5, <2>1, <2>4, <3>3, ComposeAssumption DEF None, Torn
    <3> QED
      BY <2>3, <3>1, <3>2, <3>3
<1>7. /\ name' \in [Images -> Images \cup {None, Torn}]
      /\ \A m \in Images : name[m] # None => name'[m] # None
      /\ failure[i] = "wrong" => name'[l] = n
  BY <1>1, <1>5, <1>6, ComposeAssumption DEF SpoolTypes, None, Torn
<1>8. \A m \in Images :
        /\ name'[m] \in Images => led[name'[m]] = m /\ pc'[name'[m]] = "done"
        /\ name'[m] = Torn => \E j, k \in Images : j # k /\ led[j] = m /\ led[k] = m
  <2> TAKE m \in Images
  <2>1. CASE name'[m] = name[m]
    BY <1>1, <1>4, <2>1 DEF CInv, SpoolOK, Types
  <2>2. CASE m = l /\ name'[m] = n
    BY <1>6, <2>2
  <2> QED
    BY <1>1, <1>5, <2>1, <2>2 DEF SpoolTypes
<1>9. SpoolOK'
  BY <1>1, <1>4, <1>7, <1>8 DEF CInv, SpoolOK, SpoolTypes
<1>10. ASSUME NEW j \in Images PROVE ReadOK(j)' /\ Explained(j)'
  <2>1. CASE j # i
    BY <1>1, <1>4, <1>7, <2>1, CFrame DEF Types
  <2>2. CASE j = i
    <3>1. Explained(i) /\ failure[i] \in Answers \cup {"canceled"}
      BY <1>1 DEF CInv, Explained
    <3>2. UNCHANGED <<serves, Layer(i), led>>
      BY <1>1 DEF inputs, Layer
    <3>3. \A a : LedTo(i, a)' <=> LedTo(i, a)
      BY <3>2 DEF LedTo
    <3>4. CASE failure[i] = "missing"
      <4>1. why \in {"patchSource", "reuseLayer"} /\ LedTo(i, "missing")
        BY <1>3, <3>1, <3>4 DEF Explained
      <4> QED
        BY <1>4, <3>3, <4>1, <2>2 DEF ReadOK, Explained, Reasons
    <3>5. CASE failure[i] = "wrong"
      <4>1. why = "baselineDigest" /\ LedTo(i, "wrong") /\ name'[led'[i]] # None
        BY <1>2, <1>3, <1>6, <1>7, <3>1, <3>2, <3>5, ComposeAssumption DEF Explained
      <4> QED
        BY <1>4, <3>3, <4>1, <2>2 DEF ReadOK, Explained, Reasons
    <3>6. CASE failure[i] \in {"broken", "canceled"}
      <4>1. why = failure[i]
        BY <1>3, <3>6
      <4>2. why = "broken" => LedTo(i, "broken")
        BY <3>1, <4>1 DEF Explained
      <4>3. why = "canceled" => cancelled'
        BY <1>1, <3>1, <4>1 DEF Explained
      <4> QED
        BY <1>4, <3>3, <3>6, <4>1, <4>2, <4>3, <2>2 DEF ReadOK, Explained, Reasons
    <3> QED
      BY <3>1, <3>4, <3>5, <3>6 DEF Answers
  <2> QED
    BY <2>1, <2>2
<1> QED
  BY <1>9, <1>10 DEF CInv

LEMMA CStep == CInv /\ [Next]_vars => CInv'
<1> SUFFICES ASSUME CInv, [Next]_vars PROVE CInv'
  OBVIOUS
<1>1. Base'
  BY BaseStep DEF CInv
<1>2. CASE \E i \in Images : Step(i)
  BY <1>1, <1>2, CStart, CFetch, CLand, CRefuse, CCreateTemp, CDecode, COpenFull, CReadSpool,
     CReadLayer, CClose, CCommit, CVerify DEF Step
<1>3. CASE /\ UNCHANGED <<inputs, pc, at, spool, bytes, scratch, written, kept, dest, failure>>
           /\ cancelled => cancelled'
  <2>1. SpoolOK'
    BY <1>3 DEF CInv, SpoolOK, SpoolTypes, spool
  <2>2. ASSUME NEW i \in Images PROVE ReadOK(i)' /\ Explained(i)'
    BY <1>3, CFrame DEF spool
  <2> QED
    BY <1>1, <2>1, <2>2 DEF CInv
<1>4. Cancel \/ AllDone \/ UNCHANGED vars =>
        /\ UNCHANGED <<inputs, pc, at, spool, bytes, scratch, written, kept, dest, failure>>
        /\ cancelled => cancelled'
  BY DEF Cancel, AllDone, vars
<1> QED
  BY <1>2, <1>3, <1>4 DEF Next
-----------------------------------------------------------------------------
(* The exit codes.                                                         *)

\* What copy.Image returns keeps its code, unless its message reads like a
\* registry's.
LEMMA CodeOfTyped ==
  ASSUME NEW t, t # "ErrRegistryManifestMissing"
  PROVE  /\ Exit(Typed(t)) = IF t \in UserErrors \cup KeyErrors THEN 2 ELSE 4
         /\ Exit(ClassifyRegistryErr(Typed(t))) = Exit(Typed(t))
<1>1. /\ Typed(t).cat = IF t \in UserErrors \cup KeyErrors THEN "user" ELSE "content"
      /\ Typed(t).wraps = {} /\ Typed(t).says = {}
  BY DEF Typed
<1>2. Exit(Typed(t)) = IF t \in UserErrors \cup KeyErrors THEN 2 ELSE 4
  BY <1>1 DEF Exit, Classify, ExitCode, NoError
<1>3. ClassifyRegistryErr(Typed(t)) = Typed(t)
  BY <1>1 DEF ClassifyRegistryErr
<1> QED
  BY <1>2, <1>3

LEMMA CodeOfRaw ==
  ASSUME NEW w \in SUBSET Foreign, w # {}
  PROVE  Exit(ClassifyRegistryErr(Raw(w, {}))) = 3
<1>1. Raw(w, {}).cat = "none" /\ Raw(w, {}).wraps = w /\ Raw(w, {}).says = {}
  BY DEF Raw, Plain
<1>2. CASE w \cap {"url", "netop"} = {}
  <2>1. ClassifyRegistryErr(Raw(w, {})) = Raw(w, {})
    BY <1>1, <1>2 DEF ClassifyRegistryErr
  <2> QED
    BY <1>1, <2>1 DEF Exit, Classify, ExitCode, NoError
<1>3. CASE w \cap {"url", "netop"} # {}
  <2>1. ClassifyRegistryErr(Raw(w, {})) = RegistryNetwork(Raw(w, {}))
    BY <1>1, <1>3 DEF ClassifyRegistryErr
  <2>2. RegistryNetwork(Raw(w, {})).cat = "environment"
    BY DEF RegistryNetwork, Raw, Plain
  <2> QED
    BY <2>1, <2>2 DEF Exit, Classify, ExitCode, NoError
<1> QED
  BY <1>2, <1>3

LEMMA CodeOfDenied == Exit(ClassifyRegistryErr(Raw({"path", "permission"}, {"auth"}))) = 2
<1>1. ClassifyRegistryErr(Raw({"path", "permission"}, {"auth"})) = Typed("ErrRegistryAuth")
  BY DEF ClassifyRegistryErr, Raw, Plain
<1>2. "ErrRegistryAuth" \in UserErrors
  BY DEF UserErrors
<1> QED
  BY <1>1, <1>2, CodeOfTyped

LEMMA CodeOfPlain == Exit(ClassifyRegistryErr(Plain)) = 1
<1>1. Plain.cat = "none" /\ Plain.wraps = {} /\ Plain.says = {}
  BY DEF Plain
<1>2. ClassifyRegistryErr(Plain) = Plain
  BY <1>1 DEF ClassifyRegistryErr
<1> QED
  BY <1>1, <1>2 DEF Exit, Classify, ExitCode, NoError

\* The code of an image's failure.
LEMMA CodeOfFailure ==
  ASSUME NEW i \in Images
  PROVE  failure[i] \in Reasons => Exit(ErrorOf(i)) = ActualExit(failure[i])
<1>1. ASSUME failure[i] \in {"patchSource", "reuseLayer", "baselineDigest", "shipped", "assembled",
                             "invariant"}
      PROVE  Exit(ErrorOf(i)) = 4
  <2>1. PICK t \in {"ErrMissingPatchSource", "ErrMissingBaselineReuseLayer",
                    "ErrBaselineBlobDigestMismatch", "ErrShippedBlobDigestMismatch",
                    "ErrIntraLayerAssemblyMismatch", "ErrApplyInvariantFailed"} :
          ErrorOf(i) \in {Typed(t), ClassifyRegistryErr(Typed(t))}
    BY <1>1 DEF ErrorOf, None
  <2>2. t \notin UserErrors \cup KeyErrors /\ t # "ErrRegistryManifestMissing"
    BY DEF UserErrors, KeyErrors
  <2> QED
    BY <2>1, <2>2, CodeOfTyped
<1>2. ASSUME failure[i] \in {"noFile", "dest", "broken", "canceled"} PROVE Exit(ErrorOf(i)) = 3
  <2>1. PICK w \in {{"path", "notexist"}, {"path"}, {"url", "netop"}, {"canceled"}} :
          ErrorOf(i) = ClassifyRegistryErr(Raw(w, {}))
    BY <1>2 DEF ErrorOf, None, Canceled
  <2>2. w \in SUBSET Foreign /\ w # {}
    BY DEF Foreign
  <2> QED
    BY <2>1, <2>2, CodeOfRaw
<1>3. CASE failure[i] = "format"
  <2>1. ErrorOf(i) = Typed("ErrIncompatibleOutputFormat")
    BY <1>3 DEF ErrorOf, None
  <2>2. "ErrIncompatibleOutputFormat" \in UserErrors
    BY DEF UserErrors
  <2> QED
    BY <1>3, <2>1, <2>2, CodeOfTyped DEF ActualExit, DocumentedExit
<1>4. CASE failure[i] = "denied"
  <2>1. ErrorOf(i) = ClassifyRegistryErr(Raw({"path", "permission"}, {"auth"}))
    BY <1>4 DEF ErrorOf, None
  <2> QED
    BY <1>4, <2>1, CodeOfDenied DEF ActualExit
<1>5. CASE failure[i] = "decode"
  <2>1. ErrorOf(i) = ClassifyRegistryErr(Plain)
    BY <1>5 DEF ErrorOf, None
  <2> QED
    BY <1>5, <2>1, CodeOfPlain DEF ActualExit
<1> QED
  BY <1>1, <1>2, <1>3, <1>4, <1>5 DEF Reasons, ActualExit, DocumentedExit

THEOREM CauseInvariant == Spec => []CInv
<1> QED
  BY CInvInit, CStep, PTL DEF Spec

\* FailureHasCause: an image that failed has a reason, in the bundle, in its own
\* baseline or in that of the image whose fetch it waited for; its exit code is the
\* documented one but for the departures ActualExit names, and a mismatch of a
\* baseline names the image, or one that shared its fetch, or is torn.
THEOREM FailureExplained == Spec => []FailureHasCause
<1>1. ASSUME CInv PROVE FailureHasCause
  <2> SUFFICES ASSUME NEW i \in Images, pc[i] = "done", failure[i] # None
               PROVE  LET why  == failure[i]
                          from == {i} \cup ({led[i]} \ {None})
                          Answer(a) == \E j \in from : \E x \in Tried(i) : serves[j][x] = a
                      IN  /\ Exit(ErrorOf(i)) = ActualExit(why)
                          /\ why \in {"patchSource", "reuseLayer"} => Answer("missing")
                          /\ why = "baselineDigest" =>
                               /\ Answer("wrong")
                               /\ name[led[i]] \in IF Sharers(i) = {i} THEN {i}
                                                  ELSE Sharers(i) \cup {Torn}
                          /\ why = "broken" => Answer("broken")
                          /\ why \in {"shipped", "assembled"} => stored[Layer(i)] = "wrong"
                          /\ why = "noFile" => stored[Layer(i)] = "absent"
                          /\ why = "decode" => stored[Layer(i)] = "wrong" \/ cancelled
                          /\ why = "canceled" => cancelled
                          /\ why = "invariant" => kept[i] = "unpacked" \/ ~Alone(i)
    BY DEF FailureHasCause
  <2>1. Explained(i)
    BY <1>1 DEF CInv
  <2>2. ASSUME NEW a, LedTo(i, a)
        PROVE  \E j \in {i} \cup ({led[i]} \ {None}) : \E x \in Tried(i) : serves[j][x] = a
    <3>1. Source(Layer(i)) \in Tried(i)
      <4>1. at[i] \in 1..at[i]
        BY <1>1, ComposeAssumption DEF CInv, Base, Inv, Types, Local, AtIsALayer
      <4> QED
        BY <2>2, <4>1 DEF Tried, LedTo, Layer
    <3>2. led[i] # None
      BY <2>2, ComposeAssumption DEF LedTo
    <3> QED
      BY <2>2, <3>1, <3>2 DEF LedTo
  <2>3. ASSUME failure[i] = "baselineDigest"
        PROVE  name[led[i]] \in IF Sharers(i) = {i} THEN {i} ELSE Sharers(i) \cup {Torn}
    <3>1. PICK l \in Images : l = led[i] /\ name[l] # None
      BY <2>1, <2>3 DEF Explained, LedTo
    <3>2. name[l] \in Images \cup {Torn}
      BY <1>1, <3>1 DEF CInv, SpoolOK, SpoolTypes
    <3>3. name[l] \in Images => name[l] \in Sharers(i)
      BY <1>1, <3>1 DEF CInv, SpoolOK, Sharers
    <3>4. name[l] = Torn => Sharers(i) # {i}
      BY <1>1, <3>1 DEF CInv, SpoolOK, Sharers
    <3> QED
      BY <3>1, <3>2, <3>3, <3>4
  <2>4. Exit(ErrorOf(i)) = ActualExit(failure[i])
    BY <2>1, CodeOfFailure DEF Explained
  <2> QED
    BY <2>1, <2>2, <2>3, <2>4 DEF Explained
<1> QED
  BY <1>1, CauseInvariant, PTL
-----------------------------------------------------------------------------
(* The theorems.                                                           *)

\* An image reported applied was written whole and with the right bytes, and is
\* what its destination holds if no other image was sent there.
THEOREM AppliedIsWritten == Spec => []AppliedIsThere
<1>1. Inv => AppliedIsThere
  <2> SUFFICES ASSUME Inv, NEW i \in Images, Applied(i)
               PROVE  /\ written[i] = [k \in DOMAIN LayersOf[i] |-> <<LayersOf[i][k], "right">>]
                      /\ Alone(i) => dest[out[i]] = i
    BY DEF AppliedIsThere
  <2>1. /\ Len(written[i]) = at[i] - 1
        /\ at[i] = Len(LayersOf[i]) + 1
        /\ \A k \in 1..Len(written[i]) : written[i][k] = <<LayersOf[i][k], "right">>
        /\ Alone(i) => dest[out[i]] = i
    BY DEF Applied, Inv, Local, Progress
  <2>2. written[i] \in Seq(STRING \X Quality) /\ LayersOf[i] \in Seq(STRING)
    BY ComposeAssumption DEF Inv, Types
  <2>3. Len(written[i]) = Len(LayersOf[i])
    BY <2>1, <2>2
  <2>4. DOMAIN written[i] = DOMAIN LayersOf[i] /\ DOMAIN LayersOf[i] = 1..Len(written[i])
    BY <2>2, <2>3
  <2>5. written[i] = [k \in DOMAIN written[i] |-> written[i][k]]
    BY <2>2
  <2> QED
    BY <2>1, <2>4, <2>5
<1> QED
  BY InvInit, InvStep, <1>1, PTL DEF Spec

\* An image has at most the scratch file of the layer it is at.
THEOREM ScratchIsBounded == Spec => []OneScratchFile
<1>1. Inv => OneScratchFile
  BY DEF Inv, Types, Local, ScratchOf, OneScratchFile
<1> QED
  BY InvInit, InvStep, <1>1, PTL DEF Spec
===============================================================================
