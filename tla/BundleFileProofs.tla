--------------------------- MODULE BundleFileProofs ---------------------------
(***************************************************************************)
(* What an import verified was signed, what it applied is what its sidecar *)
(* names, and an undisturbed file alone decides what becomes of it: for    *)
(* any number of exports to the path, any targets and any other content of *)
(* the file.                                                               *)
(*                                                                         *)
(* The check compares the sidecar that was parsed with the signature that  *)
(* is on the disk when it is loaded, maybe long after. So the invariant is *)
(* about the signature alone: a .sig file that is full is over a sidecar   *)
(* that was signed, whichever archive is beside it now. That needs the     *)
(* exporter to leave its archive alone between signing and writing.        *)
(*                                                                         *)
(* The last part is about what a bundle holds, RoundTrip.                   *)
(***************************************************************************)
EXTENDS BundleFile, RoundTrip, FiniteSetTheorems, SequenceTheorems, TLAPS

SigIsOfASignedSidecar  == sig.is = "full" => sig.over \in signed
WrittenNextIsSigned    == at = "sig" => OnDisk \in signed
VerifiedOnlyAfterCheck == verified => reader \in {"apply", "done"}

\* The inductive invariant.
SigInv ==
  /\ SigIsOfASignedSidecar
  /\ WrittenNextIsSigned
  /\ VerifiedOnlyAfterCheck
  /\ VerifiedIsSigned

\* An error that has a type, or comes from a file that is not there, is an error.
LEMMA ErrorsAreNotNil ==
  /\ \A t : Typed(t) # NoError
  /\ NoFile # NoError
<1>1. NoError.cat = "nil"
  BY DEF NoError
<1>2. \A t : Typed(t).cat # "nil"
  BY DEF Typed
<1>3. NoFile.cat = "none"
  BY DEF NoFile, Raw, Plain
<1> QED
  BY <1>1, <1>2, <1>3

\* The check passes only with a full signature over the parsed sidecar.
LEMMA VerifySignaturePasses ==
  ASSUME NEW key, VerifySignature(key) = NoError
  PROVE  sig.is = "full" /\ sig.over = read
BY ErrorsAreNotNil DEF VerifySignature

LEMMA SigInvInit == Init => SigInv
BY DEF Init, SigInv, SigIsOfASignedSidecar, WrittenNextIsSigned, VerifiedOnlyAfterCheck,
       VerifiedIsSigned, NoSig

\* The exporter: only WriteSig makes the signature full, of what Sign signed.
LEMMA ExportKeepsSigInv == SigInv /\ Export => SigInv'
<1> SUFFICES ASSUME SigInv, Export PROVE SigInv'
  OBVIOUS
<1> USE DEF SigInv, SigIsOfASignedSidecar, WrittenNextIsSigned, VerifiedOnlyAfterCheck,
            VerifiedIsSigned, reading, disk
<1>1. CASE Create
  BY <1>1 DEF Create, Touch
<1>2. CASE Write
  BY <1>2 DEF Write, Touch
<1>3. CASE Close
  BY <1>3 DEF Close, Touch
<1>4. CASE WriteError
  BY <1>4 DEF WriteError, Touch
<1>5. CASE Sign
  <2>1. UNCHANGED <<file, reading>>
    BY <1>5 DEF Sign, Touch
  <2>2. CASE at' = "idle" /\ UNCHANGED <<sig, signed>>
    BY <2>1, <2>2
  <2>3. CASE at' = "sig" /\ sig' = [is |-> "empty", over |-> <<>>] /\ signed' = signed \cup {OnDisk}
    BY <2>1, <2>3 DEF OnDisk
  <2> QED
    BY <1>5, <2>2, <2>3 DEF Sign
<1>6. CASE WriteSig
  BY <1>6 DEF WriteSig, Touch
<1>7. CASE Crash
  BY <1>7 DEF Crash
<1> QED
  BY <1>1, <1>2, <1>3, <1>4, <1>5, <1>6, <1>7 DEF Export

\* The reader: Check is the only step that makes an import verified, and none
\* parses a sidecar afterwards.
LEMMA ReadKeepsSigInv == SigInv /\ Read => SigInv'
<1> SUFFICES ASSUME SigInv, Read PROVE SigInv'
  OBVIOUS
<1> USE DEF SigInv, SigIsOfASignedSidecar, WrittenNextIsSigned, VerifiedOnlyAfterCheck,
            VerifiedIsSigned
<1>1. UNCHANGED <<file, sig, at, signed>>
  BY DEF Read, Open, NextEntry, ReadPart, Parse, Inspect, Check, Apply, DryRun, Looks, writer, disk
<1>2. SigIsOfASignedSidecar' /\ WrittenNextIsSigned'
  BY <1>1 DEF OnDisk
<1>3. CASE Open
  BY <1>1, <1>2, <1>3 DEF Open
<1>4. CASE NextEntry
  BY <1>1, <1>2, <1>4 DEF NextEntry
<1>5. CASE ReadPart
  BY <1>1, <1>2, <1>5 DEF ReadPart
<1>6. CASE Parse
  <2>1. reader = "parse" /\ verified' = verified
    BY <1>6 DEF Parse
  <2> QED
    BY <1>2, <2>1
<1>7. CASE Inspect
  BY <1>1, <1>2, <1>7 DEF Inspect
<1>8. CASE Check
  <2>1. PICK key \in {None, "right", "wrong", "unreadable"}, zstd \in BOOLEAN :
          LET v == IF key = None THEN NoError ELSE VerifySignature(key)
              e == IF v = NoError /\ read[1].patch /\ ~zstd THEN ErrZstdBinaryMissing ELSE v
          IN  IF e # NoError
                THEN Return(e) /\ UNCHANGED verified
                ELSE reader' = "apply" /\ verified' = (key # None) /\ UNCHANGED ret
    BY <1>8 DEF Check
  <2>2. reader = "check" /\ ~verified /\ read' = read
    BY <1>8 DEF Check
  <2>3. CASE verified'
    <3>1. key # None /\ reader' = "apply"
      BY <2>1, <2>2, <2>3
    <3>2. VerifySignature(key) = NoError
      BY <2>1, <2>2, <2>3, <3>1
    <3>3. sig.is = "full" /\ sig.over = read
      BY <3>2, VerifySignaturePasses
    <3> QED
      BY <1>1, <1>2, <2>2, <3>1, <3>3
  <2> QED
    BY <1>2, <2>3
<1>9. CASE Apply
  BY <1>1, <1>2, <1>9 DEF Apply, Return
<1>10. CASE DryRun
  BY <1>1, <1>2, <1>10 DEF DryRun, Return
<1> QED
  BY <1>3, <1>4, <1>5, <1>6, <1>7, <1>8, <1>9, <1>10 DEF Read

\* A sidecar that an import verified was signed, whatever was written, cut short
\* or signed again while it read.
THEOREM VerifiedWasSigned == Spec => []VerifiedIsSigned
<1>1. SigInv /\ [Next]_vars => SigInv'
  <2>1. SigInv /\ UNCHANGED vars => SigInv'
    BY DEF SigInv, SigIsOfASignedSidecar, WrittenNextIsSigned, VerifiedOnlyAfterCheck,
           VerifiedIsSigned, OnDisk, vars, writer, disk, reading
  <2> QED
    BY <2>1, ExportKeepsSigInv, ReadKeepsSigInv DEF Next
<1>2. SigInv => VerifiedIsSigned
  BY DEF SigInv
<1> QED
  BY SigInvInit, <1>1, <1>2, PTL DEF Spec
-----------------------------------------------------------------------------
(* Inspecting.                                                             *)

\* Only inspect reads a second time.
SecondIsInspect == second => cmd = "inspect" /\ reader # "closed"

\* Plain, the error of a file that is cut short, is an error.
LEMMA PlainIsNotNil == Plain # NoError
<1>1. Plain.cat = "none" /\ NoError.cat = "nil"
  BY DEF Plain, NoError
<1> QED
  BY <1>1

LEMMA ReadKeepsSecond == SecondIsInspect /\ Read => SecondIsInspect'
<1> SUFFICES ASSUME SecondIsInspect, Read PROVE SecondIsInspect'
  OBVIOUS
<1>1. CASE Open
  BY <1>1 DEF Open, SecondIsInspect
<1>2. CASE Parse
  BY <1>2 DEF Parse, Return, SecondIsInspect
<1>3. CASE NextEntry \/ ReadPart \/ Inspect \/ Check \/ Apply \/ DryRun
  <2>1. reader' # "closed" /\ UNCHANGED <<cmd, second>>
    BY <1>3 DEF NextEntry, ReadPart, Inspect, Check, Apply, DryRun, Return
  <2> QED
    BY <2>1 DEF SecondIsInspect
<1> QED
  BY <1>1, <1>2, <1>3 DEF Read

-----------------------------------------------------------------------------
(* The file alone decides.                                                 *)
(*                                                                         *)
(* Whatever was written and cut short, the file has no manifest in it or   *)
(* is the beginning of one archive, closed only where an entry ends. An    *)
(* import that nobody disturbs knows of it what lies before its place, so  *)
(* at the end it misses exactly the entries that the file misses.          *)

Layers == {LayerOf[t] : t \in Targets}

\* What may be in a file.
Name == Targets \cup Layers \cup {"sidecar", "layer.tar", "text"}

Chunk ==
  {Header(e, n) : e \in Name, n \in Nat} \cup {Part(e, i) : e \in Name \ {"sidecar"}, i \in 0..2}
    \cup {Table(r, t, patch, form) : r \in Nat, t \in Targets, patch \in BOOLEAN,
                                     form \in Strangers \cup {"bundle"}}
    \cup {ImagesPart(t) : t \in Targets} \cup {End}

\* The length of an archive without its marker.
EndOf(p) == IF p.patch THEN 7 ELSE 8

\* c is a and then b.
Join(S, a, b, c) ==
  /\ c \in Seq(S) /\ Len(c) = Len(a) + Len(b)
  /\ \A i \in 1..Len(a) : c[i] = a[i]
  /\ \A i \in 1..Len(b) : c[Len(a) + i] = b[i]

LEMMA Joined ==
  ASSUME NEW S, NEW a \in Seq(S), NEW b \in Seq(S), NEW c, c = a \o b
  PROVE  Join(S, a, b, c)
<1>1. Len(a) \in Nat /\ Len(b) \in Nat
  OBVIOUS
<1>2. c \in Seq(S) /\ Len(c) = Len(a) + Len(b)
  BY ConcatProperties
<1>3. \A i \in 1..(Len(a) + Len(b)) : c[i] = IF i <= Len(a) THEN a[i] ELSE b[i - Len(a)]
  BY ConcatProperties
<1>4. ASSUME NEW i \in 1..Len(a) PROVE c[i] = a[i]
  BY <1>1, <1>3
<1>5. ASSUME NEW i \in 1..Len(b) PROVE c[Len(a) + i] = b[i]
  <2>1. Len(a) + i \in 1..(Len(a) + Len(b)) /\ ~(Len(a) + i <= Len(a)) /\ (Len(a) + i) - Len(a) = i
    BY <1>1
  <2> QED
    BY <1>3, <2>1 DEF Join
<1> QED
  BY <1>2, <1>4, <1>5 DEF Join

LEMMA ChunksOfSidecar ==
  ASSUME NEW r \in Nat, NEW p, p.target \in Targets, p.patch \in BOOLEAN,
         NEW form \in Strangers \cup {"bundle"}
  PROVE  LET s == Entry("sidecar", Sidecar(r, p, form))
         IN  /\ s \in Seq(Chunk) /\ Len(s) = 3
             /\ s[1] = Header("sidecar", 2)
             /\ s[2] = Table(r, p.target, p.patch, form)
             /\ s[3] = ImagesPart(p.target)
<1>1. Header("sidecar", 2) \in Chunk /\ ImagesPart(p.target) \in Chunk
  BY DEF Chunk, Name
<1>2. Table(r, p.target, p.patch, form) \in Chunk
  BY DEF Chunk
<1>3. PICK h, t, u : h = Header("sidecar", 2) /\ t = Table(r, p.target, p.patch, form) /\ u = ImagesPart(p.target)
  OBVIOUS
<1>4. Sidecar(r, p, form) = <<t, u>>
  BY <1>3 DEF Sidecar
<1>5. <<h>> \in Seq(Chunk) /\ <<t, u>> \in Seq(Chunk)
  BY <1>1, <1>2, <1>3
<1>6. Entry("sidecar", Sidecar(r, p, form)) = <<h>> \o <<t, u>>
  BY <1>3, <1>4 DEF Entry
<1>7. PICK a, b : a = <<h>> /\ b = <<t, u>>
  OBVIOUS
<1>8. /\ a \o b \in Seq(Chunk) /\ Len(a \o b) = 3
      /\ (a \o b)[1] = h /\ (a \o b)[2] = t /\ (a \o b)[3] = u
  BY <1>5, <1>7, ConcatProperties
<1> QED
  BY <1>3, <1>6, <1>7, <1>8

LEMMA ArchiveIs ==
  ASSUME NEW r \in Nat, NEW p \in Plan
  PROVE  LET a == Archive(r, p)
             l == LayerOf[p.target]
         IN  /\ a \in Seq(Chunk) /\ Len(a) = EndOf(p)
             /\ a[1] = Header("sidecar", 2)
             /\ a[2] = Table(r, p.target, p.patch, "bundle")
             /\ a[3] = ImagesPart(p.target)
             /\ a[4] = Header(p.target, 1)
             /\ a[5] = Part(p.target, 1)
             /\ a[6] = Header(l, EndOf(p) - 6)
             /\ p.patch => a[7] = Part(l, 0)
             /\ ~p.patch => a[7] = Part(l, 1) /\ a[8] = Part(l, 2)
<1> DEFINE s == Entry("sidecar", Sidecar(r, p, "bundle"))
           t == p.target
           l == LayerOf[t]
<1>1. t \in Targets /\ p.patch \in BOOLEAN /\ t \in Name \ {"sidecar"} /\ l \in Name \ {"sidecar"}
  BY BundleAssumption DEF Plan, Name, Layers
<1>2. /\ s \in Seq(Chunk) /\ Len(s) = 3
      /\ s[1] = Header("sidecar", 2) /\ s[2] = Table(r, t, p.patch, "bundle") /\ s[3] = ImagesPart(t)
  BY <1>1, ChunksOfSidecar
<1>3. \A e \in Name : \A n \in Nat : Header(e, n) \in Chunk
  BY DEF Chunk
<1>4. \A e \in Name \ {"sidecar"} : \A i \in 0..2 : Part(e, i) \in Chunk
  BY DEF Chunk
<1>5. PICK c4, c5, c6, c7, c8 :
        /\ c4 = Header(t, 1) /\ c5 = Part(t, 1) /\ c6 = Header(l, EndOf(p) - 6)
        /\ c7 = (IF p.patch THEN Part(l, 0) ELSE Part(l, 1)) /\ c8 = Part(l, 2)
  OBVIOUS
<1>6. c4 \in Chunk /\ c5 \in Chunk /\ c6 \in Chunk /\ c7 \in Chunk /\ c8 \in Chunk
  BY <1>1, <1>3, <1>4, <1>5 DEF EndOf
<1>7. PICK h4, h6, b4, b6 :
        /\ h4 = <<c4>> /\ b4 = <<c5>> /\ h6 = <<c6>>
        /\ b6 = (IF p.patch THEN <<c7>> ELSE <<c7, c8>>)
  OBVIOUS
<1>8. /\ h4 \in Seq(Chunk) /\ b4 \in Seq(Chunk) /\ h6 \in Seq(Chunk) /\ b6 \in Seq(Chunk)
      /\ Len(h4) = 1 /\ Len(b4) = 1 /\ Len(h6) = 1 /\ Len(b6) = EndOf(p) - 6
      /\ h4[1] = c4 /\ b4[1] = c5 /\ h6[1] = c6 /\ b6[1] = c7 /\ (~p.patch => b6[2] = c8)
  BY <1>1, <1>6, <1>7 DEF EndOf
<1>9. Entry(t, <<Part(t, 1)>>) = h4 \o b4 /\ Entry(l, Payload(l, p.patch)) = h6 \o b6
  BY <1>1, <1>5, <1>7, <1>8 DEF Entry, Payload, EndOf
<1>10. PICK e4, e6 : e4 = h4 \o b4 /\ e6 = h6 \o b6
  OBVIOUS
<1>11. e4 \in Seq(Chunk) /\ Len(e4) = 2 /\ e4[1] = c4 /\ e4[2] = c5
  <2>1. Join(Chunk, h4, b4, e4)
    BY <1>8, <1>10, Joined
  <2> QED
    BY <1>8, <1>10, <2>1 DEF Join
<1>12. EndOf(p) \in {7, 8} /\ (~p.patch => EndOf(p) = 8)
  BY DEF EndOf
<1>13. /\ e6 \in Seq(Chunk) /\ Len(e6) = EndOf(p) - 5 /\ e6[1] = c6 /\ e6[2] = c7
       /\ ~p.patch => e6[3] = c8
  <2>1. Join(Chunk, h6, b6, e6)
    BY <1>8, <1>10, Joined
  <2> QED
    BY <1>8, <1>10, <1>12, <2>1 DEF Join
<1>14. PICK w : w = s \o e4
  OBVIOUS
<1>15. /\ w \in Seq(Chunk) /\ Len(w) = 5
       /\ w[1] = s[1] /\ w[2] = s[2] /\ w[3] = s[3] /\ w[4] = c4 /\ w[5] = c5
  <2>1. Join(Chunk, s, e4, w)
    BY <1>2, <1>11, <1>14, Joined
  <2> QED
    BY <1>2, <1>11, <1>14, <2>1 DEF Join
<1>16. PICK a : a = w \o e6
  OBVIOUS
<1>17. /\ a \in Seq(Chunk) /\ Len(a) = EndOf(p)
       /\ a[1] = s[1] /\ a[2] = s[2] /\ a[3] = s[3] /\ a[4] = c4 /\ a[5] = c5
       /\ a[6] = c6 /\ a[7] = c7 /\ (~p.patch => a[8] = c8)
  <2>1. Join(Chunk, w, e6, a)
    BY <1>13, <1>15, <1>16, Joined
  <2> QED
    BY <1>12, <1>13, <1>15, <1>16, <2>1 DEF Join
<1>18. Archive(r, p) = a
  BY <1>9, <1>10, <1>14, <1>16 DEF Archive
<1> HIDE DEF s, l, t
<1>19. /\ a[1] = Header("sidecar", 2) /\ a[2] = Table(r, t, p.patch, "bundle") /\ a[3] = ImagesPart(t)
       /\ a[4] = Header(t, 1) /\ a[5] = Part(t, 1) /\ a[6] = Header(l, EndOf(p) - 6)
       /\ p.patch => a[7] = Part(l, 0)
       /\ ~p.patch => a[7] = Part(l, 1) /\ a[8] = Part(l, 2)
  BY <1>2, <1>5, <1>17
<1> QED
  BY <1>17, <1>18, <1>19 DEF l, t
-----------------------------------------------------------------------------
(* The file.                                                               *)

\* Nothing in it is called like a manifest.
Nameless == \A k \in 1..Len(file) : file[k].is = "head" => file[k].of \in {"sidecar", "layer.tar"}

\* The beginning of an archive; where it is closed, a whole entry came before.
BeginsAs(r, p) ==
  \E n \in 0..EndOf(p) :
    /\ \A k \in 1..n : file[k] = Archive(r, p)[k]
    /\ \/ Len(file) = n
       \/ /\ Len(file) = n + 1 /\ file[n + 1] = End
          /\ n = EndOf(p) \/ Archive(r, p)[n + 1].is = "head"

Shape == Nameless \/ \E r \in 1..Runs, p \in Plan : BeginsAs(r, p)

\* What is written and what is to be written make one archive.
Pending ==
  at = "write" =>
    /\ run \in 1..Runs /\ plan \in Plan
    /\ Len(file) + Len(left) = EndOf(plan)
    /\ \A k \in 1..Len(file) : file[k] = Archive(run, plan)[k]
    /\ \A k \in 1..Len(left) : left[k] = Archive(run, plan)[Len(file) + k]

DiskInv ==
  /\ file \in Seq(Chunk) /\ left \in Seq(Chunk) /\ run \in Nat
  /\ at = "fail" => file = <<>> /\ left = <<>>
  /\ Shape /\ Pending

LEMMA ChunkIs ==
  ASSUME NEW c \in Chunk
  PROVE  /\ c.is = "head" => c.of \in Name /\ c.size \in Nat
         /\ c.is = "body" /\ c.of = "sidecar" /\ c.part = 2 => c.target \in Targets
BY DEF Chunk, Header, Part, Table, ImagesPart, End

\* What is in an archive, by name.
LEMMA ArchiveReads ==
  ASSUME NEW r \in Nat, NEW p \in Plan
  PROVE  LET a == Archive(r, p)
             l == LayerOf[p.target]
         IN  /\ p.target \in Targets /\ l \in Layers /\ p.patch \in BOOLEAN
             /\ EndOf(p) \in {7, 8} /\ (p.patch <=> EndOf(p) = 7)
             /\ a \in Seq(Chunk) /\ Len(a) = EndOf(p)
             /\ a[1].is = "head" /\ a[1].of = "sidecar" /\ a[1].size = 2
             /\ a[2].is = "body" /\ a[2].of = "sidecar" /\ a[2].part = 1 /\ a[2].run = r
             /\ a[2].target = p.target /\ a[2].patch = p.patch /\ a[2].form = "bundle"
             /\ a[3].is = "body" /\ a[3].of = "sidecar" /\ a[3].part = 2 /\ a[3].target = p.target
             /\ a[4].is = "head" /\ a[4].of = p.target /\ a[4].size = 1
             /\ a[5].is = "body" /\ a[5] = Part(p.target, 1)
             /\ a[6].is = "head" /\ a[6].of = l /\ a[6].size = EndOf(p) - 6
             /\ a[7].is = "body" /\ a[7] = (IF p.patch THEN Part(l, 0) ELSE Part(l, 1))
             /\ ~p.patch => a[8].is = "body" /\ a[8] = Part(l, 2)
<1>1. p.target \in Targets /\ LayerOf[p.target] \in Layers /\ p.patch \in BOOLEAN
  BY DEF Plan, Layers
<1>2. EndOf(p) \in {7, 8} /\ (p.patch <=> EndOf(p) = 7)
  BY <1>1 DEF EndOf
<1>3. PICK a : a = Archive(r, p)
  OBVIOUS
<1>4. /\ a \in Seq(Chunk) /\ Len(a) = EndOf(p)
      /\ a[1] = Header("sidecar", 2)
      /\ a[2] = Table(r, p.target, p.patch, "bundle")
      /\ a[3] = ImagesPart(p.target)
      /\ a[4] = Header(p.target, 1)
      /\ a[5] = Part(p.target, 1)
      /\ a[6] = Header(LayerOf[p.target], EndOf(p) - 6)
      /\ p.patch => a[7] = Part(LayerOf[p.target], 0)
      /\ ~p.patch => a[7] = Part(LayerOf[p.target], 1) /\ a[8] = Part(LayerOf[p.target], 2)
  BY <1>3, ArchiveIs
<1>5. \A e, n : Header(e, n).is = "head" /\ Header(e, n).of = e /\ Header(e, n).size = n
  BY DEF Header
<1>6. \A e, i : Part(e, i).is = "body"
  BY DEF Part
<1>7. /\ a[2].is = "body" /\ a[2].of = "sidecar" /\ a[2].part = 1 /\ a[2].run = r
      /\ a[2].target = p.target /\ a[2].patch = p.patch /\ a[2].form = "bundle"
  BY <1>4 DEF Table
<1>8. a[3].is = "body" /\ a[3].of = "sidecar" /\ a[3].part = 2 /\ a[3].target = p.target
  BY <1>4 DEF ImagesPart
<1>9. a[7].is = "body" /\ a[7] = (IF p.patch THEN Part(LayerOf[p.target], 0) ELSE Part(LayerOf[p.target], 1))
  BY <1>1, <1>4, <1>6
<1> QED
  BY <1>1, <1>2, <1>3, <1>4, <1>5, <1>6, <1>7, <1>8, <1>9

LEMMA StrangerIs ==
  ASSUME NEW s \in Strangers
  PROVE  /\ Stranger(s) \in Seq(Chunk)
         /\ \A k \in 1..Len(Stranger(s)) :
              Stranger(s)[k].is = "head" => Stranger(s)[k].of \in {"sidecar", "layer.tar"}
<1>1. End \in Chunk /\ End.is = "end" /\ <<End>> \in Seq(Chunk)
  BY DEF Chunk, End
<1>2. CASE s = "noTar"
  <2>1. Part("text", 1) \in Chunk /\ Part("text", 1).is = "body"
    BY DEF Chunk, Name, Part
  <2> QED
    BY <1>2, <2>1 DEF Stranger
<1>3. CASE s = "otherTar"
  <2>1. PICK h, b : h = Header("layer.tar", 1) /\ b = Part("layer.tar", 1)
    OBVIOUS
  <2>2. h \in Chunk /\ b \in Chunk /\ h.is = "head" /\ h.of = "layer.tar" /\ b.is = "body"
    <3>1. "layer.tar" \in Name \ {"sidecar"} /\ 1 \in Nat /\ 1 \in 0..2
      BY DEF Name
    <3>2. h \in Chunk /\ b \in Chunk
      BY <2>1, <3>1 DEF Chunk
    <3> QED
      BY <2>1, <3>2 DEF Part, Header
  <2>3. PICK u, v, e : u = <<h>> /\ v = <<b>> /\ e = <<End>>
    OBVIOUS
  <2>4. PICK w, x : w = u \o v /\ x = w \o e
    OBVIOUS
  <2>5. Join(Chunk, u, v, w)
    <3>1. u \in Seq(Chunk) /\ v \in Seq(Chunk)
      BY <2>2, <2>3
    <3> QED
      BY <2>4, <3>1, Joined
  <2>6. w \in Seq(Chunk) /\ Len(w) = 2 /\ w[1] = h /\ w[2] = b
    <3>1. Len(u) = 1 /\ u[1] = h /\ Len(v) = 1 /\ v[1] = b
      BY <2>3
    <3> QED
      BY <2>5, <3>1 DEF Join
  <2>7. Join(Chunk, w, e, x)
    BY <1>1, <2>3, <2>4, <2>6, Joined
  <2>8. x \in Seq(Chunk) /\ Len(x) = 3 /\ x[1] = h /\ x[2] = b /\ x[3] = End
    BY <1>1, <2>3, <2>6, <2>7 DEF Join
  <2>9. Stranger(s) = x
    <3>1. Len(<<Part("layer.tar", 1)>>) = 1
      OBVIOUS
    <3>2. Entry("layer.tar", <<Part("layer.tar", 1)>>) = w
      BY <2>1, <2>3, <2>4, <3>1 DEF Entry
    <3> QED
      BY <1>3, <2>3, <2>4, <3>2 DEF Stranger
  <2>10. \A k \in 1..3 : x[k].is = "head" => x[k].of = "layer.tar"
    BY <1>1, <2>2, <2>8
  <2> QED
    BY <2>8, <2>9, <2>10
<1>4. CASE s \notin {"noTar", "otherTar"}
  <2>1. PICK p : p = [target |-> CHOOSE t \in Targets : TRUE, patch |-> FALSE]
    OBVIOUS
  <2>2. p.target \in Targets /\ p.patch \in BOOLEAN
    BY <2>1, BundleAssumption
  <2>3. PICK w, e : w = Entry("sidecar", Sidecar(0, p, s)) /\ e = <<End>>
    OBVIOUS
  <2>4. /\ w \in Seq(Chunk) /\ Len(w) = 3
        /\ w[1] = Header("sidecar", 2)
        /\ w[2] = Table(0, p.target, p.patch, s)
        /\ w[3] = ImagesPart(p.target)
    BY <2>2, <2>3, ChunksOfSidecar
  <2>5. w[1].of = "sidecar" /\ w[2].is = "body" /\ w[3].is = "body"
    BY <2>4 DEF Header, Table, ImagesPart
  <2>6. PICK x : x = w \o e
    OBVIOUS
  <2>7. Join(Chunk, w, e, x)
    BY <1>1, <2>3, <2>4, <2>6, Joined
  <2>8. x \in Seq(Chunk) /\ Len(x) = 4 /\ x[1] = w[1] /\ x[2] = w[2] /\ x[3] = w[3] /\ x[4] = End
    BY <1>1, <2>3, <2>4, <2>7 DEF Join
  <2>9. Stranger(s) = x
    BY <1>4, <2>1, <2>3, <2>6 DEF Stranger
  <2> QED
    BY <1>1, <2>5, <2>8, <2>9
<1> QED
  BY <1>2, <1>3, <1>4

LEMMA DiskInit == Init => DiskInv
<1> SUFFICES ASSUME Init PROVE DiskInv
  OBVIOUS
<1>1. CASE file = <<>>
  BY <1>1, BundleAssumption DEF Init, DiskInv, Shape, Nameless, Pending
<1>2. CASE \E s \in Strangers : file = Stranger(s)
  BY <1>2, StrangerIs DEF Init, DiskInv, Shape, Nameless, Pending
<1> QED
  BY <1>1, <1>2 DEF Init

LEMMA DiskCreate == ASSUME DiskInv, Create PROVE DiskInv'
<1>1. /\ run' = run + 1 /\ run + 1 \in 1..Runs /\ plan' \in Plan /\ file' = <<>>
      /\ left' \in {<<>>, Archive(run + 1, plan')}
      /\ at' = IF left' = <<>> THEN "fail" ELSE "write"
  BY BundleAssumption DEF DiskInv, Create
<1>2. Shape' /\ file' \in Seq(Chunk)
  BY <1>1 DEF Shape, Nameless
<1>3. CASE left' = <<>>
  BY <1>1, <1>2, <1>3 DEF DiskInv, Pending
<1>4. CASE left' # <<>> /\ left' = Archive(run + 1, plan')
  <2>1. left' \in Seq(Chunk) /\ Len(left') = EndOf(plan') /\ EndOf(plan') \in {7, 8}
    BY <1>1, <1>4, ArchiveReads
  <2>2. Pending'
    BY <1>1, <1>4, <2>1 DEF Pending
  <2> QED
    BY <1>1, <1>2, <1>4, <2>1, <2>2 DEF DiskInv
<1> QED
  BY <1>1, <1>3, <1>4

\* A file that holds the first chunks of an archive.
LEMMA Begun ==
  ASSUME NEW r \in 1..Runs, NEW p \in Plan, file \in Seq(Chunk), Len(file) \in 0..EndOf(p),
         \A k \in 1..Len(file) : file[k] = Archive(r, p)[k]
  PROVE  Shape
BY DEF Shape, BeginsAs

\* Such a file, closed.
LEMMA Closed ==
  ASSUME DiskInv, at = "write", Len(file) = EndOf(plan) \/ Archive(run, plan)[Len(file) + 1].is = "head",
         file' = Append(file, End), UNCHANGED run
  PROVE  Shape'
<1>1. /\ run \in 1..Runs /\ plan \in Plan /\ file \in Seq(Chunk) /\ left \in Seq(Chunk)
      /\ Len(file) + Len(left) = EndOf(plan)
      /\ \A k \in 1..Len(file) : file[k] = Archive(run, plan)[k]
  BY DEF DiskInv, Pending
<1>2. End \in Chunk /\ EndOf(plan) \in Nat
  BY <1>1 DEF Chunk, EndOf
<1>3. PICK n : n = Len(file)
  OBVIOUS
<1>4. n \in 0..EndOf(plan)
  BY <1>1, <1>2, <1>3
<1>5. /\ Len(file') = n + 1 /\ file'[n + 1] = End
      /\ \A k \in 1..n : file'[k] = Archive(run, plan)[k]
  BY <1>1, <1>2, <1>3
<1>6. PICK r, p : r = run /\ p = plan
  OBVIOUS
<1>7. BeginsAs(r, p)'
  BY <1>3, <1>4, <1>5, <1>6 DEF BeginsAs
<1> QED
  BY <1>1, <1>6, <1>7 DEF Shape

LEMMA DiskWrite == ASSUME DiskInv, Write PROVE DiskInv'
<1>1. /\ at = "write" /\ left # <<>> /\ file' = Append(file, left[1]) /\ left' = Tail(left)
      /\ UNCHANGED <<run, plan, at>> /\ file \in Seq(Chunk) /\ left \in Seq(Chunk) /\ run \in Nat
  BY DEF DiskInv, Write
<1>2. PICK a : a = Archive(run, plan)
  OBVIOUS
<1>3. /\ run \in 1..Runs /\ plan \in Plan
      /\ Len(file) + Len(left) = EndOf(plan)
      /\ \A k \in 1..Len(file) : file[k] = a[k]
      /\ \A k \in 1..Len(left) : left[k] = a[Len(file) + k]
  BY <1>1, <1>2 DEF DiskInv, Pending
<1>4. Len(left) \in Nat \ {0} /\ left[1] \in Chunk
  BY <1>1
<1>5. /\ file' \in Seq(Chunk) /\ Len(file') = Len(file) + 1
      /\ \A k \in 1..(Len(file) + 1) : file'[k] = IF k = Len(file) + 1 THEN left[1] ELSE file[k]
  BY <1>1, <1>4
<1>6. /\ left' \in Seq(Chunk) /\ Len(left') = Len(left) - 1
      /\ \A k \in 1..(Len(left) - 1) : left'[k] = left[k + 1]
  BY <1>1, <1>4
<1>7. \A k \in 1..Len(file') : file'[k] = a[k]
  <2>1. left[1] = a[Len(file) + 1]
    BY <1>3, <1>4
  <2> QED
    BY <1>1, <1>3, <1>5, <2>1
<1>8. \A k \in 1..Len(left') : left'[k] = a[Len(file') + k]
  <2> SUFFICES ASSUME NEW k \in 1..(Len(left) - 1) PROVE left[k + 1] = a[(Len(file) + 1) + k]
    BY <1>5, <1>6
  <2>1. k + 1 \in 1..Len(left) /\ Len(file) + (k + 1) = (Len(file) + 1) + k
    BY <1>1, <1>4
  <2> QED
    BY <1>3, <2>1
<1>9. Len(file') + Len(left') = EndOf(plan) /\ Len(file') \in 0..EndOf(plan)
  BY <1>1, <1>3, <1>4, <1>5, <1>6
<1>10. Pending'
  BY <1>1, <1>2, <1>3, <1>7, <1>8, <1>9 DEF Pending
<1>11. Shape'
  BY <1>1, <1>2, <1>3, <1>5, <1>7, <1>9, Begun DEF Shape, BeginsAs
<1> QED
  BY <1>1, <1>5, <1>6, <1>10, <1>11 DEF DiskInv

LEMMA DiskExport == ASSUME DiskInv, Export PROVE DiskInv'
<1>1. CASE Create
  BY <1>1, DiskCreate
<1>2. CASE Write
  BY <1>2, DiskWrite
<1>3. CASE Close
  <2>1. /\ at = "write" /\ left = <<>> /\ file' = Append(file, End) /\ at' \in {"sign", "idle"}
        /\ UNCHANGED <<run, left>>
    BY <1>3 DEF Close
  <2>2. Len(file) = EndOf(plan)
    BY <2>1 DEF DiskInv, Pending
  <2>3. Shape'
    BY <2>1, <2>2, Closed
  <2>4. End \in Chunk
    BY DEF Chunk
  <2> QED
    BY <2>1, <2>3, <2>4 DEF DiskInv, Pending
<1>4. CASE WriteError
  <2>1. at \in {"write", "fail"} /\ at' = "idle" /\ left' = <<>> /\ UNCHANGED run
    BY <1>4 DEF WriteError
  <2>2. CASE UNCHANGED file
    <3>1. Shape'
      BY <2>1, <2>2 DEF DiskInv, Shape, Nameless, BeginsAs
    <3> QED
      BY <2>1, <2>2, <3>1 DEF DiskInv, Pending
  <2>3. CASE AtBoundary /\ file' = Append(file, End)
    <3>1. End \in Chunk /\ End.is = "end"
      BY DEF Chunk, End
    <3>2. CASE at = "fail"
      <4>1. file' = <<End>>
        BY <2>3, <3>2 DEF DiskInv
      <4>2. Shape'
        BY <3>1, <4>1 DEF Shape, Nameless
      <4> QED
        BY <2>1, <3>1, <4>1, <4>2 DEF DiskInv, Pending
    <3>3. CASE at = "write"
      <4>1. Len(file) = EndOf(plan) \/ Archive(run, plan)[Len(file) + 1].is = "head"
        <5>1. CASE left = <<>>
          BY <3>3, <5>1 DEF DiskInv, Pending
        <5>2. CASE left # <<>>
          <6>1. 1 \in DOMAIN left /\ 1 \in 1..Len(left)
            BY <5>2 DEF DiskInv
          <6>2. left[1].is = "head" /\ left[1] = Archive(run, plan)[Len(file) + 1]
            BY <2>3, <3>3, <6>1 DEF AtBoundary, DiskInv, Pending
          <6> QED
            BY <6>2
        <5> QED
          BY <5>1, <5>2
      <4>2. Shape'
        BY <2>1, <2>3, <3>3, <4>1, Closed
      <4> QED
        BY <2>1, <2>3, <3>1, <4>2 DEF DiskInv, Pending
    <3> QED
      BY <2>1, <3>2, <3>3
  <2> QED
    BY <1>4, <2>2, <2>3 DEF WriteError
<1>5. CASE Sign \/ WriteSig \/ Crash
  <2>1. /\ UNCHANGED <<file, run>> /\ at' \in {"idle", "sig"} /\ (left' = left \/ left' = <<>>)
    BY <1>5 DEF Sign, WriteSig, Crash, disk
  <2>2. Shape'
    BY <2>1 DEF DiskInv, Shape, Nameless, BeginsAs
  <2>3. left \in Seq(Chunk) /\ <<>> \in Seq(Chunk)
    BY DEF DiskInv
  <2> QED
    BY <2>1, <2>2, <2>3 DEF DiskInv, Pending
<1> QED
  BY <1>1, <1>2, <1>3, <1>4, <1>5 DEF Export
-----------------------------------------------------------------------------
(* The reader.                                                             *)

ReadTypes ==
  /\ off \in Nat \ {0}
  /\ opts \in [key : {None, "right", "wrong", "unreadable"}, zstd : BOOLEAN, converts : BOOLEAN]
  /\ entry \in [of : Name \cup {None}, rest : Int]
  /\ \A e \in DOMAIN got : got[e] \in Seq(Chunk)
  /\ reader = "body" => entry.of \in DOMAIN got
  /\ reader = "closed" => off = 1 /\ DOMAIN got = {}

\* Of a nameless file no manifest is found.
FindsNothing ==
  /\ DOMAIN got \subseteq {"sidecar", "layer.tar"}
  /\ reader = "body" => entry.of \in {"sidecar", "layer.tar"}
  /\ reader \in {"check", "apply"} => Recorded \in Targets
  /\ reader = "done" => ret # NoError

\* Of the entry with its head at h: the parts before off have been read.
Taken(a, h) ==
  /\ a[h].of \in DOMAIN got <=> h < off
  /\ h < off =>
       /\ Len(got[a[h].of]) = IF off <= h + a[h].size THEN off - 1 - h ELSE a[h].size
       /\ \A i \in 1..Len(got[a[h].of]) : got[a[h].of][i] = a[h + i]

Heads == {1, 4, 6}

\* Where the next entry may begin.
Ends(p) == Heads \cup {EndOf(p) + 1}

AtEnd == off = Len(file) + 1 \/ (off = Len(file) /\ file[off] = End)

Entire(r, p) == Len(file) >= EndOf(p) /\ \A k \in 1..EndOf(p) : file[k] = Archive(r, p)[k]

Permitted ==
  /\ opts.key = None \/ (opts.key = "right" /\ Signature)
  /\ file[2].patch => opts.zstd

Progress(r, p) ==
  LET a == Archive(r, p)
  IN  /\ off \in 1..(Len(file) + 1)
      /\ \A h \in Heads : Taken(a, h)
      /\ reader = "next" => off \in Ends(p)
      /\ reader = "body" =>
           \E h \in Heads : /\ h < off /\ off <= h + a[h].size
                            /\ entry.of = a[h].of /\ entry.rest = h + a[h].size + 1 - off
      /\ reader \in {"parse", "check", "apply"} => off \in Ends(p) /\ AtEnd
      /\ reader \in {"check", "apply"} => off > 1 /\ read = got["sidecar"]
      /\ reader = "apply" => Permitted
      /\ reader = "done" => (ret = NoError <=> Entire(r, p) /\ Permitted)

ReadInv ==
  cmd = "import" /\ reader # "closed" /\ ~disturbed =>
    /\ Nameless => FindsNothing
    /\ \A r \in 1..Runs, p \in Plan : BeginsAs(r, p) => Progress(r, p)

LEMMA TypesInit == Init => ReadTypes
BY DEF Init, ReadTypes

LEMMA TypesExport == ReadTypes /\ Export => ReadTypes'
<1>1. Export => UNCHANGED reading
  BY DEF Export, Create, Write, Close, WriteError, Sign, WriteSig, Crash, Touch
<1> QED
  BY <1>1 DEF ReadTypes, reading

LEMMA TypesNext == ReadTypes /\ file \in Seq(Chunk) /\ NextEntry => ReadTypes'
<1> SUFFICES ASSUME ReadTypes, file \in Seq(Chunk), NextEntry PROVE ReadTypes'
  OBVIOUS
<1>1. UNCHANGED opts
  BY DEF NextEntry
<1>2. CASE UNCHANGED <<off, entry, got>> /\ reader' \in {"parse", "done"}
  BY <1>1, <1>2 DEF ReadTypes
<1>3. CASE /\ off <= Len(file) /\ file[off].is = "head" /\ reader' = "body" /\ off' = off + 1
           /\ entry' = [of |-> file[off].of, rest |-> file[off].size]
           /\ got' = With(got, file[off].of, <<>>)
  <2>1. file[off] \in Chunk
    BY <1>3 DEF ReadTypes
  <2>2. entry' \in [of : Name \cup {None}, rest : Int] /\ entry'.of = file[off].of
    BY <1>3, <2>1, ChunkIs
  <2>3. PICK e : e = file[off].of
    OBVIOUS
  <2>4. DOMAIN got' = DOMAIN got \cup {e} /\ got'[e] = <<>> /\ \A x \in DOMAIN got \ {e} : got'[x] = got[x]
    <3>1. got' = With(got, e, <<>>)
      BY <1>3, <2>3
    <3> QED
      BY <3>1 DEF With
  <2>5. <<>> \in Seq(Chunk)
    OBVIOUS
  <2>6. \A x \in DOMAIN got' : got'[x] \in Seq(Chunk)
    BY <2>4, <2>5 DEF ReadTypes
  <2>7. entry'.of \in DOMAIN got'
    BY <2>2, <2>3, <2>4
  <2> QED
    BY <1>1, <1>3, <2>2, <2>6, <2>7 DEF ReadTypes
<1>4. file[off].is \in {"head", "body", "end"} \/ off > Len(file)
  <2>1. ASSUME off <= Len(file) PROVE file[off] \in Chunk
    BY <2>1 DEF ReadTypes
  <2>2. \A c \in Chunk : c.is \in {"head", "body", "end"}
    BY DEF Chunk, Header, Part, Table, ImagesPart, End
  <2> QED
    BY <2>1, <2>2 DEF ReadTypes
<1> QED
  BY <1>2, <1>3, <1>4 DEF NextEntry, Return, ReadTypes

LEMMA TypesPart == ReadTypes /\ file \in Seq(Chunk) /\ ReadPart => ReadTypes'
<1> SUFFICES ASSUME ReadTypes, file \in Seq(Chunk), ReadPart PROVE ReadTypes'
  OBVIOUS
<1>1. UNCHANGED opts /\ reader = "body" /\ entry.of \in DOMAIN got
  BY DEF ReadPart, ReadTypes
<1>2. CASE UNCHANGED <<off, entry, got>> /\ reader' = "done"
  BY <1>1, <1>2 DEF ReadTypes
<1>3. CASE /\ off <= Len(file) /\ got' = With(got, entry.of, Append(got[entry.of], file[off]))
           /\ entry' = [entry EXCEPT !.rest = @ - 1] /\ off' = off + 1
           /\ reader' \in {"body", "parse", "next"}
  <2>1. file[off] \in Chunk
    BY <1>3 DEF ReadTypes
  <2>2. PICK e : e = entry.of
    OBVIOUS
  <2>3. PICK b : b = Append(got[e], file[off])
    OBVIOUS
  <2>4. b \in Seq(Chunk)
    BY <1>1, <2>1, <2>2, <2>3 DEF ReadTypes
  <2>5. DOMAIN got' = DOMAIN got \cup {e} /\ got'[e] = b /\ \A x \in DOMAIN got \ {e} : got'[x] = got[x]
    <3>1. got' = With(got, e, b)
      BY <1>3, <2>2, <2>3
    <3> QED
      BY <3>1 DEF With
  <2>6. entry' \in [of : Name \cup {None}, rest : Int] /\ entry'.of = e
    BY <1>3, <2>2 DEF ReadTypes
  <2>7. \A x \in DOMAIN got' : got'[x] \in Seq(Chunk)
    BY <2>4, <2>5 DEF ReadTypes
  <2> QED
    BY <1>1, <1>3, <2>5, <2>6, <2>7 DEF ReadTypes
<1> QED
  BY <1>2, <1>3 DEF ReadPart, Return, ReadTypes

LEMMA TypesRead == ReadTypes /\ file \in Seq(Chunk) /\ Read => ReadTypes'
<1> SUFFICES ASSUME ReadTypes, file \in Seq(Chunk), Read PROVE ReadTypes'
  OBVIOUS
<1>1. CASE Open
  BY <1>1 DEF Open, ReadTypes
<1>2. CASE NextEntry \/ ReadPart
  BY <1>2, TypesNext, TypesPart
<1>3. CASE Parse
  <2>1. UNCHANGED <<entry, opts>> /\ reader' \notin {"body", "closed"}
    BY <1>3 DEF Parse, Return
  <2>2. UNCHANGED <<off, got>> \/ (off' = 1 /\ got' = [x \in {} |-> <<>>])
    BY <1>3 DEF Parse
  <2> QED
    BY <2>1, <2>2 DEF ReadTypes
<1>4. CASE Inspect \/ DryRun
  <2>1. UNCHANGED <<entry, opts, off, got>> /\ reader' = "done"
    BY <1>4 DEF Inspect, DryRun, Return
  <2> QED
    BY <2>1 DEF ReadTypes
<1>5. CASE Check \/ Apply
  <2>1. UNCHANGED <<entry, off, got>> /\ reader' \in {"done", "apply"}
    BY <1>5 DEF Check, Apply, Return
  <2>2. opts' \in [key : {None, "right", "wrong", "unreadable"}, zstd : BOOLEAN, converts : BOOLEAN]
    BY <1>5 DEF Check, Apply, ReadTypes
  <2> QED
    BY <2>1, <2>2 DEF ReadTypes
<1> QED
  BY <1>1, <1>2, <1>3, <1>4, <1>5 DEF Read

\* What there is at a place of a file that begins as an archive.
LEMMA ChunkAt ==
  ASSUME NEW r \in 1..Runs, NEW p \in Plan, BeginsAs(r, p), file \in Seq(Chunk), NEW k \in 1..Len(file)
  PROVE  LET a == Archive(r, p)
         IN  \/ k <= EndOf(p) /\ file[k] = a[k]
             \/ k = Len(file) /\ file[k] = End /\ (k = EndOf(p) + 1 \/ (k <= EndOf(p) /\ a[k].is = "head"))
<1>1. PICK n \in 0..EndOf(p) :
        /\ \A j \in 1..n : file[j] = Archive(r, p)[j]
        /\ \/ Len(file) = n
           \/ /\ Len(file) = n + 1 /\ file[n + 1] = End
              /\ n = EndOf(p) \/ Archive(r, p)[n + 1].is = "head"
  BY DEF BeginsAs
<1>2. EndOf(p) \in {7, 8}
  BY BundleAssumption, ArchiveReads
<1>3. CASE k <= n
  BY <1>1, <1>2, <1>3
<1>4. CASE k = n + 1
  BY <1>1, <1>2, <1>4
<1> QED
  BY <1>1, <1>2, <1>3, <1>4

\* The chunks of an archive, by place.
\* An archive by its entries: the places of their heads, and what lies between.
Laid(a, p) ==
  /\ EndOf(p) \in {7, 8}
  /\ \A h \in Heads : /\ a[h].is = "head" /\ a[h].size \in 1..2
                      /\ h + a[h].size <= EndOf(p) /\ h + a[h].size + 1 \in Heads \cup {EndOf(p) + 1}
                      /\ \A k \in (h + 1)..(h + a[h].size) : a[k].is = "body" /\ k \notin Heads
  /\ \A g, h \in Heads : /\ g # h => a[g].of # a[h].of
                         /\ g < h => g + a[g].size < h

LEMMA ArchiveLaid == ASSUME NEW r \in Nat, NEW p \in Plan PROVE Laid(Archive(r, p), p)
<1>1. PICK a, t, l : a = Archive(r, p) /\ t = p.target /\ l = LayerOf[p.target]
  OBVIOUS
<1>2. /\ t \in Targets /\ l \in Layers
      /\ EndOf(p) \in {7, 8} /\ (p.patch <=> EndOf(p) = 7)
      /\ a[1].is = "head" /\ a[1].of = "sidecar" /\ a[1].size = 2
      /\ a[2].is = "body" /\ a[3].is = "body"
      /\ a[4].is = "head" /\ a[4].of = t /\ a[4].size = 1
      /\ a[5].is = "body"
      /\ a[6].is = "head" /\ a[6].of = l /\ a[6].size = EndOf(p) - 6
      /\ a[7].is = "body" /\ (~p.patch => a[8].is = "body")
  BY <1>1, ArchiveReads
<1>3. t # l /\ t # "sidecar" /\ l # "sidecar"
  BY <1>2, BundleAssumption DEF Layers
<1>4. \A h \in Heads :
        /\ a[h].is = "head" /\ a[h].size \in 1..2
        /\ h + a[h].size <= EndOf(p) /\ h + a[h].size + 1 \in Heads \cup {EndOf(p) + 1}
        /\ \A k \in (h + 1)..(h + a[h].size) : a[k].is = "body" /\ k \notin Heads
  <2>1. /\ 1 + a[1].size = 3 /\ \A k \in 2..3 : a[k].is = "body" /\ k \notin Heads
    BY <1>2 DEF Heads
  <2>2. /\ 4 + a[4].size = 5 /\ \A k \in 5..5 : a[k].is = "body" /\ k \notin Heads
    BY <1>2 DEF Heads
  <2>3. /\ 6 + a[6].size = EndOf(p) /\ \A k \in 7..EndOf(p) : a[k].is = "body" /\ k \notin Heads
    BY <1>2 DEF Heads
  <2> QED
    BY <1>2, <2>1, <2>2, <2>3 DEF Heads
<1>5. \A g, h \in Heads : (g # h => a[g].of # a[h].of) /\ (g < h => g + a[g].size < h)
  BY <1>2, <1>3 DEF Heads
<1> QED
  BY <1>1, <1>2, <1>4, <1>5 DEF Laid

LEMMA NamelessNext ==
  ASSUME DiskInv, ReadTypes, FindsNothing, Nameless, NextEntry PROVE FindsNothing'
<1>1. CASE UNCHANGED got /\ reader' = "parse"
  BY <1>1 DEF FindsNothing
<1>2. CASE UNCHANGED got /\ Return(Plain)
  BY <1>2, PlainIsNotNil DEF Return, FindsNothing
<1>3. CASE /\ reader' = "body" /\ off <= Len(file) /\ file[off].is \notin {"body", "end"}
           /\ entry' = [of |-> file[off].of, rest |-> file[off].size]
           /\ got' = With(got, file[off].of, <<>>)
  <2>1. file[off] \in Chunk /\ off \in 1..Len(file)
    BY <1>3 DEF DiskInv, ReadTypes
  <2>2. \A c \in Chunk : c.is \in {"head", "body", "end"}
    BY DEF Chunk, Header, Part, Table, ImagesPart, End
  <2>3. file[off].of \in {"sidecar", "layer.tar"}
    BY <1>3, <2>1, <2>2 DEF Nameless
  <2>4. DOMAIN got' = DOMAIN got \cup {file[off].of}
    BY <1>3 DEF With
  <2> QED
    BY <1>3, <2>3, <2>4 DEF FindsNothing
<1>4. off <= Len(file) \/ off > Len(file)
  BY DEF DiskInv, ReadTypes
<1> QED
  BY <1>1, <1>2, <1>3, <1>4 DEF NextEntry

LEMMA NamelessPart ==
  ASSUME ReadTypes, FindsNothing, ReadPart PROVE FindsNothing'
<1>1. CASE UNCHANGED got /\ Return(Plain)
  BY <1>1, PlainIsNotNil DEF Return, FindsNothing
<1>2. CASE /\ reader' \in {"body", "parse", "next"} /\ entry' = [entry EXCEPT !.rest = @ - 1]
           /\ got' = With(got, entry.of, Append(got[entry.of], file[off]))
  <2>1. entry.of \in {"sidecar", "layer.tar"} /\ entry'.of = entry.of
    BY <1>2 DEF ReadPart, FindsNothing, ReadTypes
  <2>2. DOMAIN got' = DOMAIN got \cup {entry.of}
    BY <1>2 DEF With
  <2> QED
    BY <1>2, <2>1, <2>2 DEF FindsNothing
<1> QED
  BY <1>1, <1>2 DEF ReadPart

\* What parses is a sidecar, with a target in its second part.
LEMMA ParsedIsJSON ==
  ASSUME NEW s \in Seq(Chunk), ParseSidecar(s) = NoError
  PROVE  Len(s) = 2 /\ s[2].target \in Targets
<1>1. IsJSON(s)
  BY ErrorsAreNotNil DEF ParseSidecar
<1>2. Len(s) = 2 /\ s[2].is = "body" /\ s[2].of = "sidecar" /\ s[2].part = 2
  BY <1>1 DEF IsJSON
<1>3. s[2] \in Chunk
  BY <1>2
<1> QED
  BY <1>2, <1>3, ChunkIs

LEMMA NamelessParse ==
  ASSUME ReadTypes, FindsNothing, Parse, cmd = "import" PROVE FindsNothing'
<1> DEFINE e == IF "sidecar" \in DOMAIN got THEN ParseSidecar(got["sidecar"])
                ELSE Typed("ErrNotADiffahArchive")
<1>1. CASE e # NoError
  <2>1. reader' = "done" /\ ret' # NoError /\ UNCHANGED got
    BY <1>1 DEF Parse, Return
  <2> QED
    BY <2>1 DEF FindsNothing
<1>2. CASE e = NoError
  <2>1. reader' = "check" /\ read' = got["sidecar"] /\ UNCHANGED got
    BY <1>2 DEF Parse
  <2>2. "sidecar" \in DOMAIN got /\ ParseSidecar(got["sidecar"]) = NoError
    BY <1>2, ErrorsAreNotNil
  <2>3. got["sidecar"][2].target \in Targets
    BY <2>2, ParsedIsJSON DEF ReadTypes
  <2> QED
    BY <2>1, <2>3 DEF FindsNothing, Recorded
<1> QED
  BY <1>1, <1>2

LEMMA NamelessEnds ==
  ASSUME FindsNothing, Check \/ Apply PROVE FindsNothing'
<1>1. CASE Check
  <2>1. UNCHANGED <<got, read>> /\ (reader' = "apply" \/ (reader' = "done" /\ ret' # NoError)) /\ reader = "check"
    BY <1>1 DEF Check, Return
  <2> QED
    BY <2>1 DEF FindsNothing, Recorded
<1>2. CASE Apply
  <2>1. reader = "apply" /\ UNCHANGED got
    BY <1>2 DEF Apply
  <2>2. Recorded \in Targets /\ Recorded \notin DOMAIN got
    BY <2>1, BundleAssumption DEF FindsNothing
  <2>3. ManifestError = NoFile
    BY <2>2 DEF ManifestError, HasManifest
  <2>4. reader' = "done" /\ ret' = NoFile
    BY <1>2, <2>3, ErrorsAreNotNil DEF Apply, Return
  <2> QED
    BY <2>1, <2>4, ErrorsAreNotNil DEF FindsNothing
<1> QED
  BY <1>1, <1>2

LEMMA NamelessRead ==
  ASSUME DiskInv, ReadTypes, SecondIsInspect, Nameless, Read, cmd' = "import",
         reader # "closed" => FindsNothing
  PROVE  FindsNothing'
<1>1. CASE Open
  BY <1>1 DEF Open, ReadTypes, FindsNothing
<1>2. CASE NextEntry
  BY <1>2, NamelessNext DEF NextEntry
<1>3. CASE ReadPart
  BY <1>3, NamelessPart DEF ReadPart
<1>4. CASE Parse
  BY <1>4, NamelessParse DEF Parse
<1>5. CASE Inspect \/ DryRun
  BY <1>5 DEF Inspect, DryRun, SecondIsInspect
<1>6. CASE Check \/ Apply
  BY <1>6, NamelessEnds DEF Check, Apply
<1> QED
  BY <1>1, <1>2, <1>3, <1>4, <1>5, <1>6 DEF Read

\* What the lemmas on the reader of an archive start from.
Given(r, p) == r \in 1..Runs /\ p \in Plan /\ BeginsAs(r, p) /\ DiskInv /\ ReadTypes /\ Progress(r, p)

LEMMA ProgressNext ==
  ASSUME NEW r, NEW p, Given(r, p), NextEntry PROVE Progress(r, p)'
<1>1. PICK a : a = Archive(r, p)
  OBVIOUS
<1>2. /\ EndOf(p) \in {7, 8} /\ off \in 1..(Len(file) + 1) /\ off \in Ends(p) /\ reader = "next"
      /\ (\A h \in Heads : Taken(a, h)) /\ Laid(a, p)
  BY <1>1, ArchiveLaid DEF Given, NextEntry, Progress, Ends, Laid
<1>3. UNCHANGED <<file, cmd>> /\ Len(file) \in Nat
  BY DEF NextEntry, Looks, disk, Given, DiskInv
<1>4. off <= Len(file) =>
        \/ off \in Heads /\ off <= EndOf(p) /\ file[off] = a[off] /\ a[off].is = "head"
        \/ off = Len(file) /\ file[off] = End
  <2> SUFFICES ASSUME off <= Len(file)
               PROVE  \/ off \in Heads /\ off <= EndOf(p) /\ file[off] = a[off] /\ a[off].is = "head"
                      \/ off = Len(file) /\ file[off] = End
    OBVIOUS
  <2>1. off \in 1..Len(file)
    BY <1>2, <1>3
  <2>2. \/ off <= EndOf(p) /\ file[off] = a[off]
        \/ off = Len(file) /\ file[off] = End
    BY <1>1, <2>1, ChunkAt DEF Given, DiskInv
  <2>3. off <= EndOf(p) => off \in Heads
    BY <1>2 DEF Ends
  <2>4. off \in Heads => a[off].is = "head"
    BY <1>2, <2>3 DEF Laid
  <2> QED
    BY <2>2, <2>3, <2>4
<1>5. CASE UNCHANGED <<off, got>> /\ reader' = "parse" /\ (off > Len(file) \/ file[off].is = "end")
  <2>1. AtEnd
    BY <1>2, <1>3, <1>4, <1>5 DEF AtEnd
  <2> QED
    BY <1>1, <1>2, <1>3, <1>5, <2>1 DEF Progress, Ends, Taken, AtEnd
<1>6. CASE off <= Len(file) /\ file[off].is = "body"
  BY <1>4, <1>6 DEF End
<1>7. CASE /\ off <= Len(file) /\ file[off].is # "end" /\ reader' = "body" /\ off' = off + 1
           /\ entry' = [of |-> file[off].of, rest |-> file[off].size]
           /\ got' = With(got, file[off].of, <<>>)
  <2>1. off \in Heads /\ file[off] = a[off]
    BY <1>4, <1>7 DEF End
  <2>2. PICK o \in Heads : o = off
    BY <2>1
  <2>3. off' = o + 1 /\ o + 1 \in 1..(Len(file) + 1) /\ got' = With(got, a[o].of, <<>>)
    BY <1>2, <1>3, <1>7, <2>1, <2>2
  <2>4. ASSUME NEW h \in Heads PROVE Taken(a, h)'
    <3>1. /\ a[o].size \in 1..2 /\ a[h].size \in 1..2
          /\ h # o => a[h].of # a[o].of
          /\ h < o => h + a[h].size < o
          /\ h \in Nat /\ o \in Nat
      BY <1>2, <2>2, <2>4 DEF Laid, Heads
    <3>2. Taken(a, h)
      BY <1>2
    <3>3. CASE h = o
      <4>1. a[h].of \in DOMAIN got' /\ got'[a[h].of] = <<>>
        BY <2>3, <3>3 DEF With
      <4> QED
        BY <2>3, <3>1, <3>3, <4>1 DEF Taken
    <3>4. CASE h # o
      <4>1. /\ a[h].of \in DOMAIN got' <=> a[h].of \in DOMAIN got
            /\ a[h].of \in DOMAIN got => got'[a[h].of] = got[a[h].of]
        BY <2>3, <3>1, <3>4 DEF With
      <4>2. h < off' <=> h < off
        BY <2>2, <2>3, <3>1, <3>4
      <4>3. h < off => ~(off <= h + a[h].size) /\ ~(off' <= h + a[h].size)
        BY <2>2, <2>3, <3>1
      <4> QED
        BY <3>2, <4>1, <4>2, <4>3 DEF Taken
    <3> QED
      BY <3>3, <3>4
  <2>5. /\ o < off' /\ off' <= o + a[o].size
        /\ entry'.of = a[o].of /\ entry'.rest = o + a[o].size + 1 - off'
    <3>1. a[o].size \in 1..2 /\ o \in Nat
      BY <1>2, <2>2 DEF Laid, Heads
    <3>2. entry'.of = a[o].of /\ entry'.rest = a[o].size
      BY <1>7, <2>1, <2>2
    <3> QED
      BY <2>3, <3>1, <3>2
  <2> QED
    BY <1>1, <1>3, <1>7, <2>2, <2>3, <2>4, <2>5 DEF Progress
<1>8. off <= Len(file) \/ off > Len(file)
  BY <1>2, <1>3
<1> QED
  BY <1>5, <1>6, <1>7, <1>8 DEF NextEntry

LEMMA ProgressPart ==
  ASSUME NEW r, NEW p, Given(r, p), ReadPart, cmd = "import" PROVE Progress(r, p)'
<1>1. PICK a : a = Archive(r, p)
  OBVIOUS
<1>2. /\ off \in 1..(Len(file) + 1) /\ reader = "body" /\ (\A h \in Heads : Taken(a, h)) /\ Laid(a, p)
      /\ entry \in [of : Name \cup {None}, rest : Int]
  BY <1>1, ArchiveLaid DEF Given, ReadPart, Progress, ReadTypes
<1>3. UNCHANGED file /\ cmd' = "import" /\ Len(file) \in Nat
  BY DEF ReadPart, Looks, disk, Given, DiskInv
<1>4. PICK h \in Heads : /\ h < off /\ off <= h + a[h].size
                         /\ entry.of = a[h].of /\ entry.rest = h + a[h].size + 1 - off
  BY <1>1, <1>2 DEF Given, Progress
<1>5. /\ h \in Nat \ {0} /\ a[h].size \in 1..2 /\ h + a[h].size <= EndOf(p) /\ EndOf(p) \in {7, 8}
      /\ h + a[h].size + 1 \in Ends(p) /\ off \notin Heads /\ off \in (h + 1)..(h + a[h].size)
      /\ a[off].is = "body"
  <2>1. h \in Nat \ {0} /\ a[h].size \in 1..2 /\ off \in (h + 1)..(h + a[h].size)
    BY <1>2, <1>4 DEF Laid, Heads
  <2> QED
    BY <1>2, <1>4, <2>1 DEF Laid, Ends
<1>6. CASE off > Len(file) /\ Return(Plain) /\ UNCHANGED <<off, entry, got>>
  <2>1. reader' = "done" /\ ret' # NoError
    BY <1>6, PlainIsNotNil DEF Return
  <2>2. ~Entire(r, p)'
    BY <1>3, <1>4, <1>5, <1>6 DEF Entire
  <2>3. \A g \in Heads : Taken(a, g)'
    BY <1>2, <1>6 DEF Taken
  <2>4. off' \in 1..(Len(file') + 1)
    BY <1>2, <1>3, <1>6
  <2> QED
    BY <1>1, <2>1, <2>2, <2>3, <2>4 DEF Progress
<1>7. CASE /\ off <= Len(file) /\ got' = With(got, entry.of, Append(got[entry.of], file[off]))
           /\ entry' = [entry EXCEPT !.rest = @ - 1] /\ off' = off + 1
           /\ reader' = IF entry.rest > 1 THEN "body" ELSE "next"
  <2>1. file[off] = a[off] /\ off \in 1..Len(file)
    <3>1. off \in 1..Len(file)
      BY <1>2, <1>3, <1>7
    <3>2. \/ off <= EndOf(p) /\ file[off] = a[off]
          \/ off = EndOf(p) + 1 \/ (off <= EndOf(p) /\ a[off].is = "head")
      BY <1>1, <3>1, ChunkAt DEF Given, DiskInv
    <3> QED
      BY <1>4, <1>5, <3>1, <3>2
  <2>2. PICK e, b : e = a[h].of /\ b = got[e]
    OBVIOUS
  <2>3. /\ e \in DOMAIN got /\ b \in Seq(Chunk) /\ Len(b) = off - 1 - h
        /\ \A i \in 1..Len(b) : b[i] = a[h + i]
    <3>1. Taken(a, h)
      BY <1>2
    <3>2. e \in DOMAIN got /\ b \in Seq(Chunk)
      BY <1>4, <2>2, <3>1 DEF Taken, Given, ReadTypes
    <3> QED
      BY <1>4, <2>2, <3>1, <3>2 DEF Taken
  <2>4. PICK c : c = Append(b, a[off])
    OBVIOUS
  <2>5. a[off] \in Chunk
    BY <2>1 DEF Given, DiskInv
  <2>6. /\ c \in Seq(Chunk) /\ Len(c) = off - h /\ c[off - h] = a[off]
        /\ \A i \in 1..Len(b) : c[i] = b[i]
    BY <1>5, <2>3, <2>4, <2>5
  <2>7. \A i \in 1..Len(c) : c[i] = a[h + i]
    <3> SUFFICES ASSUME NEW i \in 1..(off - h) PROVE c[i] = a[h + i]
      BY <2>6
    <3>1. CASE i = off - h
      BY <1>5, <2>6, <3>1
    <3>2. CASE i # off - h
      <4>1. i \in 1..Len(b)
        BY <1>5, <2>3, <3>2
      <4> QED
        BY <2>3, <2>6, <4>1
    <3> QED
      BY <3>1, <3>2
  <2>8. /\ DOMAIN got' = DOMAIN got /\ got'[e] = c
        /\ \A x \in DOMAIN got \ {e} : got'[x] = got[x]
    <3>1. got' = With(got, e, c)
      BY <1>4, <1>7, <2>1, <2>2, <2>4
    <3> QED
      BY <2>3, <3>1 DEF With
  <2>9. ASSUME NEW g \in Heads PROVE Taken(a, g)'
    <3>1. CASE g = h
      <4>1. a[h].of \in DOMAIN got' /\ h < off' /\ got'[a[h].of] = c
        BY <1>4, <1>5, <1>7, <2>2, <2>3, <2>8
      <4>2. Len(c) = IF off' <= h + a[h].size THEN off' - 1 - h ELSE a[h].size
        BY <1>5, <1>7, <2>6
      <4> QED
        BY <2>7, <3>1, <4>1, <4>2 DEF Taken
    <3>2. CASE g # h
      <4>1. /\ a[g].of # e /\ g \in Nat /\ a[g].size \in 1..2
            /\ g < h => g + a[g].size < h
            /\ h < g => h + a[h].size < g
        BY <1>2, <2>2, <3>2 DEF Laid, Heads
      <4>2. /\ a[g].of \in DOMAIN got' <=> a[g].of \in DOMAIN got
            /\ a[g].of \in DOMAIN got => got'[a[g].of] = got[a[g].of]
        BY <2>8, <4>1
      <4>3. g < off' <=> g < off
        BY <1>5, <1>7, <3>2, <4>1
      <4>4. g < off => ~(off <= g + a[g].size) /\ ~(off' <= g + a[g].size)
        BY <1>5, <1>7, <3>2, <4>1
      <4>5. Taken(a, g)
        BY <1>2
      <4> QED
        BY <4>2, <4>3, <4>4, <4>5 DEF Taken
    <3> QED
      BY <3>1, <3>2
  <2>10. off' \in 1..(Len(file') + 1)
    BY <1>3, <1>7, <2>1
  <2>11. CASE entry.rest > 1
    <3>1. /\ reader' = "body" /\ h < off' /\ off' <= h + a[h].size
          /\ entry'.of = a[h].of /\ entry'.rest = h + a[h].size + 1 - off'
      <4>1. entry'.of = entry.of /\ entry'.rest = entry.rest - 1 /\ reader' = "body"
        BY <1>2, <1>7, <2>11
      <4> QED
        BY <1>4, <1>5, <1>7, <2>11, <4>1
    <3> QED
      BY <1>1, <2>9, <2>10, <3>1 DEF Progress
  <2>12. CASE ~(entry.rest > 1)
    <3>1. reader' = "next" /\ off' = h + a[h].size + 1
      BY <1>4, <1>5, <1>7, <2>12
    <3> QED
      BY <1>1, <1>5, <2>9, <2>10, <3>1 DEF Progress
  <2> QED
    BY <2>11, <2>12
<1>8. off <= Len(file) \/ off > Len(file)
  BY <1>2, <1>3
<1>9. ~(off > Len(file)) => off <= Len(file)
  BY <1>8
<1> QED
  BY <1>6, <1>7, <1>9 DEF ReadPart

\* The sidecar of an archive, once its entry is read: it parses, and it is what
\* a signature is over.
LEMMA SidecarRead ==
  ASSUME NEW r, NEW p, Given(r, p), off \in Ends(p), off > 1
  PROVE  LET s == got["sidecar"]
         IN  /\ "sidecar" \in DOMAIN got /\ ParseSidecar(s) = NoError /\ s = OnDisk
             /\ s[1].patch = p.patch /\ s[1].target = p.target /\ s[2].target = p.target
             /\ file[2].patch = p.patch
<1>1. PICK a, s : a = Archive(r, p) /\ s = got["sidecar"]
  OBVIOUS
<1>2. /\ EndOf(p) \in {7, 8}
      /\ a[1].of = "sidecar" /\ a[1].size = 2
      /\ a[2].is = "body" /\ a[2].of = "sidecar" /\ a[2].part = 1
      /\ a[2].target = p.target /\ a[2].patch = p.patch /\ a[2].form = "bundle"
      /\ a[3].is = "body" /\ a[3].of = "sidecar" /\ a[3].part = 2 /\ a[3].target = p.target
  BY <1>1, ArchiveReads DEF Given
<1>3. Taken(a, 1) /\ off >= 4 /\ off \in 1..(Len(file) + 1)
  BY <1>1, <1>2 DEF Given, Progress, Ends, Heads
<1>4. "sidecar" \in DOMAIN got /\ s \in Seq(Chunk)
  BY <1>1, <1>2, <1>3 DEF Given, ReadTypes, Taken
<1>5. Len(s) = 2 /\ \A i \in 1..Len(s) : s[i] = a[1 + i]
  <2>1. 1 < off /\ ~(off <= 1 + a[1].size)
    BY <1>2, <1>3 DEF Given, ReadTypes
  <2> QED
    BY <1>1, <1>2, <1>3, <2>1 DEF Taken
<1>6. s[1] = a[2] /\ s[2] = a[3]
  BY <1>5
<1>7. ParseSidecar(s) = NoError
  <2>1. IsJSON(s)
    <3>1. \A i \in 1..2 : s[i].is = "body" /\ s[i].of = "sidecar" /\ s[i].part = i
      BY <1>2, <1>6
    <3> QED
      BY <1>2, <1>5, <1>6, <3>1 DEF IsJSON
  <2> QED
    BY <1>2, <1>6, <2>1 DEF ParseSidecar
<1>8. file \in Seq(Chunk) /\ Len(file) >= 3 /\ file[2] = a[2] /\ file[3] = a[3]
  <2>1. file \in Seq(Chunk) /\ Len(file) \in Nat /\ Len(file) >= 3
    BY <1>3 DEF Given, DiskInv
  <2>2. \A k \in {2, 3} : file[k] = a[k]
    <3> SUFFICES ASSUME NEW k \in {2, 3} PROVE file[k] = a[k]
      OBVIOUS
    <3>1. a[k].is = "body" /\ k \in 1..Len(file) /\ k <= EndOf(p)
      BY <1>2, <2>1
    <3>2. \/ k <= EndOf(p) /\ file[k] = a[k]
          \/ k = EndOf(p) + 1 \/ (k <= EndOf(p) /\ a[k].is = "head")
      BY <1>1, <2>1, <3>1, ChunkAt DEF Given
    <3> QED
      BY <1>2, <3>1, <3>2
  <2> QED
    BY <2>1, <2>2
<1>9. s = OnDisk
  <2>1. PICK o : o = OnDisk
    OBVIOUS
  <2>2. o \in Seq(Chunk) /\ Len(o) = 2 /\ o[1] = file[2] /\ o[2] = file[3]
    BY <1>8, <2>1 DEF OnDisk
  <2> QED
    BY <1>4, <1>5, <1>6, <1>8, <2>1, <2>2
<1> QED
  BY <1>1, <1>2, <1>4, <1>6, <1>7, <1>8, <1>9

LEMMA ProgressParse ==
  ASSUME NEW r, NEW p, Given(r, p), Parse, cmd = "import" PROVE Progress(r, p)'
<1>1. PICK a : a = Archive(r, p)
  OBVIOUS
<1>2. /\ off \in 1..(Len(file) + 1) /\ reader = "parse" /\ (\A h \in Heads : Taken(a, h)) /\ Laid(a, p)
      /\ off \in Ends(p) /\ AtEnd /\ Len(file) \in Nat
  BY <1>1, ArchiveLaid DEF Given, Parse, Progress, DiskInv
<1>3. UNCHANGED <<file, cmd, off, got>>
  BY DEF Parse, Looks, disk
<1>4. \A h \in Heads : Taken(a, h)'
  BY <1>2, <1>3 DEF Taken
<1>5. CASE off = 1
  <2>1. "sidecar" \notin DOMAIN got
    <3>1. a[1].of = "sidecar" /\ Taken(a, 1)
      BY <1>1, <1>2, ArchiveReads DEF Given, Heads
    <3> QED
      BY <1>5, <3>1 DEF Taken
  <2>2. reader' = "done" /\ ret' # NoError
    BY <2>1, ErrorsAreNotNil DEF Parse, Return
  <2>3. ~Entire(r, p)'
    BY <1>2, <1>3, <1>5 DEF Entire, AtEnd, Laid
  <2> QED
    BY <1>1, <1>2, <1>3, <1>4, <2>2, <2>3 DEF Progress
<1>6. CASE off # 1
  <2>1. off > 1
    BY <1>2, <1>6
  <2>2. reader' = "check" /\ read' = got["sidecar"]
    BY <1>2, <2>1, SidecarRead DEF Parse
  <2> QED
    BY <1>1, <1>2, <1>3, <1>4, <2>1, <2>2 DEF Progress, AtEnd
<1> QED
  BY <1>5, <1>6

LEMMA ProgressCheck ==
  ASSUME NEW r, NEW p, Given(r, p), Check PROVE Progress(r, p)'
<1>1. PICK a : a = Archive(r, p)
  OBVIOUS
<1>2. /\ off \in 1..(Len(file) + 1) /\ reader = "check" /\ (\A h \in Heads : Taken(a, h))
      /\ off \in Ends(p) /\ AtEnd /\ off > 1 /\ read = got["sidecar"]
  BY <1>1 DEF Given, Check, Progress
<1>3. UNCHANGED <<file, sig, cmd, off, got, read>>
  BY DEF Check, Looks, disk
<1>4. \A h \in Heads : Taken(a, h)'
  BY <1>2, <1>3 DEF Taken
<1>5. read = OnDisk /\ read[1].patch = file[2].patch
  BY <1>2, SidecarRead
<1>6. PICK key \in {None, "right", "wrong", "unreadable"}, zstd \in BOOLEAN :
        LET v == IF key = None THEN NoError ELSE VerifySignature(key)
            e == IF v = NoError /\ read[1].patch /\ ~zstd THEN ErrZstdBinaryMissing ELSE v
        IN  /\ opts' = [opts EXCEPT !.key = key, !.zstd = zstd]
            /\ IF e # NoError THEN Return(e) ELSE reader' = "apply"
  BY DEF Check
<1>7. opts'.key = key /\ opts'.zstd = zstd
  BY <1>6 DEF Given, ReadTypes
<1>8. Signature' <=> Signature
  BY <1>3 DEF Signature, OnDisk
<1>9. VerifySignature(key) = NoError <=> key = "right" /\ Signature
  BY <1>5, <1>6, ErrorsAreNotNil DEF VerifySignature, Signature, NoSig
<1>10. ErrZstdBinaryMissing # NoError
  <2>1. ErrZstdBinaryMissing.cat = "environment" /\ NoError.cat = "nil"
    BY DEF ErrZstdBinaryMissing, Plain, NoError
  <2> QED
    BY <2>1
<1>11. Permitted' <=> /\ key = None \/ VerifySignature(key) = NoError
                      /\ read[1].patch => zstd
  BY <1>3, <1>5, <1>6, <1>7, <1>8, <1>9, ErrorsAreNotNil DEF Permitted, None, VerifySignature
<1>12. \/ reader' = "apply" /\ Permitted'
       \/ reader' = "done" /\ ret' # NoError /\ ~Permitted'
  BY <1>6, <1>10, <1>11 DEF Return
<1> QED
  BY <1>1, <1>2, <1>3, <1>4, <1>12 DEF Progress, AtEnd

\* The manifest of an archive, once its entry is read.
LEMMA ManifestRead ==
  ASSUME NEW r, NEW p, Given(r, p), off \in Ends(p), Recorded = p.target
  PROVE  /\ HasManifest <=> off >= 6
         /\ off >= 6 => IsManifest /\ Found = p.target
<1>1. PICK a, t : a = Archive(r, p) /\ t = p.target
  OBVIOUS
<1>2. /\ EndOf(p) \in {7, 8} /\ t \in Targets
      /\ a[4].of = t /\ a[4].size = 1 /\ a[5] = Part(t, 1)
  BY <1>1, ArchiveReads DEF Given
<1>3. Taken(a, 4) /\ off \in Nat
  BY <1>1 DEF Given, Progress, Heads, ReadTypes
<1>4. off \in {1, 4, 6, EndOf(p) + 1}
  BY DEF Ends, Heads
<1>5. HasManifest <=> off >= 6
  <2>1. HasManifest <=> 4 < off
    BY <1>1, <1>2, <1>3 DEF Taken, HasManifest
  <2> QED
    BY <1>2, <1>4, <2>1
<1>6. ASSUME off >= 6 PROVE IsManifest /\ Found = t
  <2>1. PICK m : m = got[t]
    OBVIOUS
  <2>2. m \in Seq(Chunk)
    BY <1>1, <1>5, <1>6, <2>1 DEF Given, ReadTypes, HasManifest
  <2>3. Len(m) = 1 /\ \A i \in 1..Len(m) : m[i] = a[4 + i]
    <3>1. 4 < off /\ ~(off <= 4 + a[4].size)
      BY <1>2, <1>3, <1>6
    <3> QED
      BY <1>2, <1>3, <2>1, <3>1 DEF Taken
  <2>4. m = <<Part(t, 1)>>
    <3>1. m[1] = Part(t, 1)
      BY <1>2, <2>3
    <3> QED
      BY <2>2, <2>3, <3>1
  <2>5. \A u \in Targets : got[Recorded] = <<Part(u, 1)>> <=> u = t
    <3> TAKE u \in Targets
    <3>1. <<Part(u, 1)>> = <<Part(t, 1)>> => Part(u, 1) = Part(t, 1)
      OBVIOUS
    <3>2. Part(u, 1) = Part(t, 1) => u = t
      <4>1. Part(u, 1).of = u /\ Part(t, 1).of = t
        BY DEF Part
      <4> QED
        BY <4>1
    <3> QED
      BY <1>1, <2>1, <2>4, <3>1, <3>2
  <2> QED
    BY <1>2, <2>5 DEF IsManifest, Found
<1> QED
  BY <1>1, <1>5, <1>6

\* Its layer.
LEMMA LayerRead ==
  ASSUME NEW r, NEW p, Given(r, p), off \in Ends(p)
  PROVE  LET l == LayerOf[p.target]
         IN  /\ l \in DOMAIN got <=> off = EndOf(p) + 1
             /\ off = EndOf(p) + 1 => got[l] = Payload(l, p.patch)
<1>1. PICK a, l : a = Archive(r, p) /\ l = LayerOf[p.target]
  OBVIOUS
<1>2. /\ EndOf(p) \in {7, 8} /\ p.patch \in BOOLEAN /\ (p.patch <=> EndOf(p) = 7)
      /\ a[6].of = l /\ a[6].size = EndOf(p) - 6
      /\ a[7] = (IF p.patch THEN Part(l, 0) ELSE Part(l, 1)) /\ (~p.patch => a[8] = Part(l, 2))
  BY <1>1, ArchiveReads DEF Given
<1>3. Taken(a, 6) /\ off \in Nat
  BY <1>1 DEF Given, Progress, Heads, ReadTypes
<1>4. off \in {1, 4, 6, EndOf(p) + 1}
  BY DEF Ends, Heads
<1>5. l \in DOMAIN got <=> off = EndOf(p) + 1
  BY <1>2, <1>3, <1>4 DEF Taken
<1>6. ASSUME off = EndOf(p) + 1 PROVE got[l] = Payload(l, p.patch)
  <2>1. PICK m : m = got[l]
    OBVIOUS
  <2>2. m \in Seq(Chunk)
    BY <1>5, <1>6, <2>1 DEF Given, ReadTypes
  <2>3. Len(m) = EndOf(p) - 6 /\ \A i \in 1..Len(m) : m[i] = a[6 + i]
    <3>1. 6 < off /\ ~(off <= 6 + a[6].size)
      BY <1>2, <1>6
    <3> QED
      BY <1>2, <1>3, <2>1, <3>1 DEF Taken
  <2>4. CASE p.patch
    <3>1. Len(m) = 1 /\ m[1] = Part(l, 0)
      BY <1>2, <2>3, <2>4
    <3>2. m = <<Part(l, 0)>>
      BY <2>2, <3>1
    <3> QED
      BY <2>1, <2>4, <3>2 DEF Payload
  <2>5. CASE ~p.patch
    <3>1. Len(m) = 2 /\ m[1] = Part(l, 1) /\ m[2] = Part(l, 2)
      BY <1>2, <2>3, <2>5
    <3>2. m = <<Part(l, 1), Part(l, 2)>>
      BY <2>2, <3>1
    <3> QED
      BY <2>1, <2>5, <3>2 DEF Payload
  <2> QED
    BY <2>4, <2>5
<1> QED
  BY <1>1, <1>5, <1>6

\* A file that was read to its end was whole if its last entry was there.
LEMMA FullAtEnd ==
  ASSUME NEW r, NEW p, Given(r, p), off \in Ends(p), AtEnd
  PROVE  Entire(r, p) <=> off = EndOf(p) + 1
<1>1. PICK a : a = Archive(r, p)
  OBVIOUS
<1>2. EndOf(p) \in {7, 8} /\ Len(file) \in Nat /\ off \in 1..(Len(file) + 1) /\ file \in Seq(Chunk)
  BY ArchiveReads DEF Given, DiskInv, Progress
<1>3. ASSUME off = EndOf(p) + 1 PROVE Entire(r, p)
  <2>1. Len(file) >= EndOf(p)
    BY <1>2, <1>3
  <2>2. ASSUME NEW k \in 1..EndOf(p) PROVE file[k] = a[k]
    <3>1. k \in 1..Len(file)
      BY <1>2, <2>1
    <3>2. \/ k <= EndOf(p) /\ file[k] = a[k]
          \/ /\ k = Len(file)
             /\ k = EndOf(p) + 1 \/ (k <= EndOf(p) /\ a[k].is = "head")
      BY <1>1, <1>2, <3>1, ChunkAt DEF Given
    <3>3. k = Len(file) => k = EndOf(p)
      BY <1>2, <2>1
    <3>4. a[EndOf(p)].is = "body"
      <4>1. /\ p.patch <=> EndOf(p) = 7
            /\ a[7].is = "body" /\ (~p.patch => a[8].is = "body")
        BY <1>1, ArchiveReads DEF Given
      <4> QED
        BY <1>2, <4>1
    <3> QED
      BY <1>2, <3>2, <3>3, <3>4
  <2> QED
    BY <1>1, <2>1, <2>2 DEF Entire
<1>4. ASSUME off # EndOf(p) + 1 PROVE ~Entire(r, p)
  <2>1. off <= 6 /\ Len(file) <= off
    BY <1>2, <1>4 DEF Ends, Heads, AtEnd
  <2> QED
    BY <1>2, <2>1 DEF Entire
<1> QED
  BY <1>3, <1>4

LEMMA ProgressApply ==
  ASSUME NEW r, NEW p, Given(r, p), Apply PROVE Progress(r, p)'
<1>1. PICK a, t, l : a = Archive(r, p) /\ t = p.target /\ l = LayerOf[p.target]
  OBVIOUS
<1>2. /\ off \in 1..(Len(file) + 1) /\ reader = "apply" /\ (\A h \in Heads : Taken(a, h))
      /\ off \in Ends(p) /\ AtEnd /\ off > 1 /\ read = got["sidecar"] /\ Permitted
  BY <1>1 DEF Given, Apply, Progress
<1>3. UNCHANGED <<file, sig, cmd, off, got, read>> /\ reader' = "done"
  BY DEF Apply, Looks, disk, Return
<1>4. \A h \in Heads : Taken(a, h)'
  BY <1>2, <1>3 DEF Taken
<1>5. Recorded = t /\ read[1].target = t /\ read[1].patch = p.patch
  BY <1>1, <1>2, SidecarRead DEF Recorded
<1>6. Permitted'
  <2>1. opts'.key = opts.key /\ opts'.zstd = opts.zstd
    BY DEF Apply, Given, ReadTypes
  <2> QED
    BY <1>2, <1>3, <2>1 DEF Permitted, Signature, OnDisk
<1>7. EndOf(p) \in {7, 8}
  BY ArchiveReads DEF Given
<1>8. ret' = NoError <=> off = EndOf(p) + 1
  <2>1. CASE off < 6
    <3>1. ManifestError = NoFile
      BY <1>1, <1>2, <1>5, <2>1, ManifestRead DEF ManifestError, Given, ReadTypes
    <3>2. ret' # NoError
      BY <3>1, ErrorsAreNotNil DEF Apply, Return
    <3> QED
      BY <1>7, <2>1, <3>2
  <2>2. CASE off >= 6
    <3>1. ManifestError = NoError /\ Found = t
      BY <1>1, <1>2, <1>5, <2>2, ManifestRead DEF ManifestError
    <3>2. InvariantError = NoError
      BY <1>5, <3>1 DEF InvariantError
    <3>3. PICK e \in Damage(l) : ret' = e
      BY <1>1, <3>1, <3>2 DEF Apply, Return
    <3>4. Damage(l) = IF off = EndOf(p) + 1 THEN {NoError} ELSE {NoFile}
      BY <1>1, <1>2, <1>5, LayerRead DEF Damage
    <3> QED
      BY <3>3, <3>4, ErrorsAreNotNil
  <2> QED
    BY <1>2, <2>1, <2>2 DEF Given, ReadTypes
<1>9. Entire(r, p)' <=> Entire(r, p)
  BY <1>3 DEF Entire
<1>10. Entire(r, p) <=> off = EndOf(p) + 1
  BY <1>2, FullAtEnd
<1> QED
  BY <1>1, <1>2, <1>3, <1>4, <1>6, <1>8, <1>9, <1>10 DEF Progress

LEMMA ProgressRead ==
  ASSUME NEW r \in 1..Runs, NEW p \in Plan, BeginsAs(r, p), DiskInv, ReadTypes, SecondIsInspect, Read,
         cmd' = "import", reader # "closed" => Progress(r, p)
  PROVE  Progress(r, p)'
<1>1. CASE Open
  <2>1. UNCHANGED <<file, off, got>> /\ off = 1 /\ DOMAIN got = {} /\ reader' = "next"
    BY <1>1 DEF Open, Looks, disk, ReadTypes
  <2>2. \A h \in Heads : Taken(Archive(r, p), h)'
    BY <2>1 DEF Heads, Taken
  <2>3. off' \in 1..(Len(file') + 1)
    BY <2>1 DEF DiskInv
  <2> QED
    BY <2>1, <2>2, <2>3 DEF Progress, Ends, Heads
<1>2. CASE Inspect \/ DryRun
  BY <1>2 DEF Inspect, DryRun, SecondIsInspect
<1>3. ASSUME NextEntry \/ ReadPart \/ Parse \/ Check \/ Apply PROVE Given(r, p) /\ cmd = "import"
  BY <1>3 DEF Given, NextEntry, ReadPart, Parse, Check, Apply
<1> QED
  BY <1>1, <1>2, <1>3, ProgressNext, ProgressPart, ProgressParse, ProgressCheck, ProgressApply DEF Read

LEMMA ReadStep == DiskInv /\ ReadTypes /\ SecondIsInspect /\ ReadInv /\ Read => ReadInv'
<1> SUFFICES ASSUME DiskInv, ReadTypes, SecondIsInspect, ReadInv, Read, cmd' = "import", ~disturbed'
             PROVE  /\ Nameless' => FindsNothing'
                    /\ \A r \in 1..Runs, p \in Plan : BeginsAs(r, p)' => Progress(r, p)'
  BY DEF ReadInv
<1>1. UNCHANGED <<file, disturbed>>
  BY DEF Read, Open, NextEntry, ReadPart, Parse, Inspect, Check, Apply, DryRun, Looks, disk
<1>2. reader # "closed" => cmd = "import"
  BY DEF Read, Open, NextEntry, ReadPart, Parse, Inspect, Check, Apply, DryRun
<1>3. ASSUME Nameless' PROVE FindsNothing'
  BY <1>1, <1>2, <1>3, NamelessRead DEF Nameless, ReadInv
<1>4. ASSUME NEW r \in 1..Runs, NEW p \in Plan, BeginsAs(r, p)' PROVE Progress(r, p)'
  <2>1. BeginsAs(r, p)
    BY <1>1, <1>4 DEF BeginsAs
  <2> QED
    BY <1>1, <1>2, <2>1, ProgressRead DEF ReadInv
<1> QED
  BY <1>3, <1>4

\* Of the exporter's steps only a crash leaves the reader undisturbed.
LEMMA ReadWhileExport == ReadInv /\ Export => ReadInv'
<1> SUFFICES ASSUME ReadInv, Export, cmd' = "import", reader' # "closed", ~disturbed' PROVE ReadInv'
  BY DEF ReadInv
<1>1. UNCHANGED <<file, sig, disturbed, reading>>
  BY DEF Export, Create, Write, Close, WriteError, Sign, WriteSig, Crash, Touch, reading, disk
<1>2. Nameless' <=> Nameless
  BY <1>1 DEF Nameless
<1>3. FindsNothing' <=> FindsNothing
  BY <1>1 DEF FindsNothing, Recorded, reading
<1>4. ASSUME NEW r \in 1..Runs, NEW p \in Plan
      PROVE  (BeginsAs(r, p)' <=> BeginsAs(r, p)) /\ (Progress(r, p)' <=> Progress(r, p))
  <2>1. BeginsAs(r, p)' <=> BeginsAs(r, p)
    BY <1>1 DEF BeginsAs
  <2>2. \A h : Taken(Archive(r, p), h)' <=> Taken(Archive(r, p), h)
    BY <1>1 DEF Taken, reading
  <2>3. Permitted' <=> Permitted
    BY <1>1 DEF Permitted, Signature, OnDisk, reading
  <2>4. (Entire(r, p)' <=> Entire(r, p)) /\ (AtEnd' <=> AtEnd)
    BY <1>1 DEF Entire, AtEnd, reading
  <2> QED
    BY <1>1, <2>1, <2>2, <2>3, <2>4 DEF Progress, reading
<1> QED
  BY <1>1, <1>2, <1>3, <1>4 DEF ReadInv, reading

\* The inductive invariant.
FileInv == DiskInv /\ ReadTypes /\ SecondIsInspect /\ ReadInv

LEMMA FileStep == FileInv /\ [Next]_vars => FileInv'
<1> SUFFICES ASSUME FileInv, [Next]_vars PROVE FileInv'
  OBVIOUS
<1>1. CASE Export
  <2>1. UNCHANGED reading
    BY <1>1 DEF Export, Create, Write, Close, WriteError, Sign, WriteSig, Crash, Touch
  <2>2. SecondIsInspect'
    BY <2>1 DEF FileInv, SecondIsInspect, reading
  <2> QED
    BY <1>1, <2>2, DiskExport, TypesExport, ReadWhileExport DEF FileInv
<1>2. CASE Read
  <2>1. UNCHANGED <<file, left, run, at, plan>>
    BY <1>2 DEF Read, Open, NextEntry, ReadPart, Parse, Inspect, Check, Apply, DryRun, Looks, disk, writer
  <2>2. DiskInv'
    BY <2>1 DEF FileInv, DiskInv, Shape, Nameless, BeginsAs, Pending
  <2> QED
    BY <1>2, <2>2, TypesRead, ReadKeepsSecond, ReadStep DEF FileInv, DiskInv
<1>3. CASE UNCHANGED vars
  <2>1. UNCHANGED <<file, left, run, at, plan, sig, reading, disturbed>>
    BY <1>3 DEF vars, disk, writer
  <2>2. DiskInv'
    BY <2>1 DEF FileInv, DiskInv, Shape, Nameless, BeginsAs, Pending
  <2>3. ReadTypes' /\ SecondIsInspect'
    BY <2>1 DEF FileInv, ReadTypes, SecondIsInspect, reading
  <2>4. ReadInv'
    BY <2>1 DEF FileInv, ReadInv, Nameless, FindsNothing, Recorded, BeginsAs, Progress, Taken,
                Permitted, Signature, OnDisk, Entire, AtEnd, reading
  <2> QED
    BY <2>2, <2>3, <2>4 DEF FileInv
<1> QED
  BY <1>1, <1>2, <1>3 DEF Next

\* What an undisturbed apply writes: the manifest it reads is the archive's own.
LEMMA FoundIsRecorded ==
  ASSUME NEW r, NEW p, Given(r, p), Apply, ret' = NoError PROVE image' = Recorded
<1>1. /\ reader = "apply" /\ off \in Ends(p) /\ off > 1 /\ read = got["sidecar"]
      /\ \A h \in Heads : Taken(Archive(r, p), h)
  BY DEF Given, Apply, Progress
<1>2. Recorded = p.target
  BY <1>1, SidecarRead DEF Recorded
<1>3. ManifestError = NoError /\ image' = Found
  BY ErrorsAreNotNil, PlainIsNotNil DEF Apply, Return
<1>4. HasManifest
  BY <1>3, ErrorsAreNotNil DEF ManifestError
<1>5. off >= 6
  BY <1>1, <1>2, <1>4, ManifestRead
<1> QED
  BY <1>1, <1>2, <1>3, <1>5, ManifestRead

LEMMA StepKeepsApplied ==
  ASSUME FileInv, FileInv', AppliedIsRecorded, [Next]_vars PROVE AppliedIsRecorded'
<1> SUFFICES ASSUME cmd' = "import", reader' = "done", ret' = NoError,
                    ~(disturbed' /\ opts'.converts)
             PROVE  image' = Recorded'
  BY DEF AppliedIsRecorded
<1> USE ErrorsAreNotNil, PlainIsNotNil
<1>1. CASE Export
  <2>1. reader # "done" /\ UNCHANGED reading
    BY <1>1 DEF Export, Create, Write, Close, WriteError, Sign, WriteSig, Crash, Touch
  <2> QED
    BY <2>1 DEF reading
<1>2. CASE Open \/ NextEntry \/ ReadPart \/ Check \/ DryRun
  BY <1>2 DEF Open, NextEntry, ReadPart, Check, DryRun, Return
<1>3. CASE Parse \/ Inspect
  BY <1>3 DEF Parse, Inspect, Return, FileInv, SecondIsInspect
<1>4. CASE Apply
  <2>1. /\ UNCHANGED <<file, disturbed, read>> /\ image' = Found /\ InvariantError = NoError
        /\ reader = "apply" /\ cmd = "import"
    BY <1>4 DEF Apply, Return, Looks, disk
  <2>2. Recorded' = Recorded
    BY <2>1 DEF Recorded
  <2>3. CASE ~opts'.converts
    BY <2>1, <2>2, <2>3 DEF InvariantError
  <2>4. CASE ~disturbed
    <3>1. ~Nameless
      <4>1. Nameless' => FindsNothing'
        BY <2>1, <2>4 DEF FileInv, ReadInv
      <4> QED
        BY <2>1, <4>1 DEF Nameless, FindsNothing
    <3>2. PICK r \in 1..Runs, p \in Plan : BeginsAs(r, p)
      BY <3>1 DEF FileInv, DiskInv, Shape
    <3>3. Given(r, p)
      BY <2>1, <2>4, <3>2 DEF FileInv, ReadInv, Given
    <3> QED
      BY <1>4, <2>2, <3>3, FoundIsRecorded
  <2> QED
    BY <2>1, <2>3, <2>4
<1>5. CASE UNCHANGED vars
  BY <1>5 DEF vars, reading, AppliedIsRecorded, Recorded
<1> QED
  BY <1>1, <1>2, <1>3, <1>4, <1>5 DEF Next, Read

LEMMA FileStarts == Init => FileInv
<1>1. Init => SecondIsInspect /\ ReadInv
  BY DEF Init, SecondIsInspect, ReadInv
<1> QED
  BY <1>1, DiskInit, TypesInit DEF FileInv

\* What an import applies is what the sidecar it parsed names, whatever the file
\* was; also if it changed while it was read, but for destinations that convert
\* manifests.
THEOREM AppliedAsRecorded == Spec => []AppliedIsRecorded
<1>1. Init => FileInv /\ AppliedIsRecorded
  BY FileStarts DEF Init, AppliedIsRecorded
<1>2. FileInv /\ AppliedIsRecorded /\ [Next]_vars => (FileInv /\ AppliedIsRecorded)'
  BY FileStep, StepKeepsApplied
<1> QED
  BY <1>1, <1>2, PTL DEF Spec

LEMMA NoEndIn ==
  ASSUME NEW r \in Nat, NEW p \in Plan, NEW a, a = Archive(r, p)
  PROVE  /\ EndOf(p) \in {7, 8} /\ (p.patch <=> EndOf(p) = 7) /\ p.patch \in BOOLEAN
         /\ a[2].patch = p.patch
         /\ \A k \in 1..EndOf(p) : a[k].is # "end"
<1>1. /\ EndOf(p) \in {7, 8} /\ (p.patch <=> EndOf(p) = 7) /\ p.patch \in BOOLEAN
      /\ a[2].patch = p.patch
      /\ a[1].is = "head" /\ a[2].is = "body" /\ a[3].is = "body" /\ a[4].is = "head"
      /\ a[5].is = "body" /\ a[6].is = "head" /\ a[7].is = "body"
      /\ ~p.patch => a[8].is = "body"
  BY ArchiveReads
<1> QED
  BY <1>1

\* A file is whole if it begins as an archive with all of its entries.
LEMMA WholeIs ==
  /\ Nameless /\ DiskInv => ~Whole
  /\ \A r \in 1..Runs, p \in Plan : BeginsAs(r, p) /\ DiskInv => (Whole <=> Entire(r, p))
<1>1. ASSUME DiskInv, NEW r \in 1..Runs, NEW p \in Plan, NEW a, a = Archive(r, p)
      PROVE  /\ a \in Seq(Chunk) /\ Len(a) = EndOf(p) /\ EndOf(p) \in {7, 8}
             /\ Len(file) >= Len(a) /\ SubSeq(file, 1, Len(a)) = a <=> Entire(r, p)
  <2>1. a \in Seq(Chunk) /\ Len(a) = EndOf(p) /\ EndOf(p) \in {7, 8}
    <3>1. r \in Nat
      BY BundleAssumption
    <3> QED
      BY <1>1, <3>1, ArchiveReads
  <2>2. file \in Seq(Chunk) /\ Len(file) \in Nat
    BY <1>1 DEF DiskInv
  <2>3. ASSUME Len(file) >= Len(a)
        PROVE  SubSeq(file, 1, Len(a)) = a <=> \A k \in 1..Len(a) : file[k] = a[k]
    <3>1. PICK s : s = SubSeq(file, 1, Len(a))
      OBVIOUS
    <3>2. s \in Seq(Chunk) /\ Len(s) = Len(a) /\ \A k \in 1..Len(a) : s[k] = file[k]
      BY <2>1, <2>2, <2>3, <3>1
    <3>3. s = a <=> \A k \in 1..Len(a) : s[k] = a[k]
      BY <2>1, <3>2
    <3> QED
      BY <3>1, <3>2, <3>3
  <2> QED
    BY <1>1, <2>1, <2>3 DEF Entire
<1>2. DiskInv => (Whole <=> \E r \in 1..Runs, p \in Plan : Entire(r, p))
  BY <1>1 DEF Whole
<1>3. ASSUME DiskInv, Nameless, NEW r \in 1..Runs, NEW p \in Plan, Entire(r, p) PROVE FALSE
  <2>1. /\ Archive(r, p)[4].is = "head" /\ Archive(r, p)[4].of = p.target /\ p.target \in Targets
        /\ EndOf(p) \in {7, 8}
    <3>1. r \in Nat
      BY BundleAssumption
    <3> QED
      BY <3>1, ArchiveReads
  <2>2. 4 \in 1..Len(file) /\ file[4] = Archive(r, p)[4]
    BY <1>3, <2>1 DEF Entire, DiskInv
  <2> QED
    BY <1>3, <2>1, <2>2, BundleAssumption DEF Nameless
<1>4. ASSUME DiskInv, NEW r \in 1..Runs, NEW p \in Plan, BeginsAs(r, p),
             NEW q \in 1..Runs, NEW s \in Plan, Entire(q, s)
      PROVE  Entire(r, p)
  <2>1. PICK a, b : a = Archive(r, p) /\ b = Archive(q, s)
    OBVIOUS
  <2>2. r \in Nat /\ q \in Nat
    BY BundleAssumption
  <2>3. /\ EndOf(p) \in {7, 8} /\ (p.patch <=> EndOf(p) = 7) /\ p.patch \in BOOLEAN
        /\ a[2].patch = p.patch
        /\ EndOf(s) \in {7, 8} /\ (s.patch <=> EndOf(s) = 7) /\ s.patch \in BOOLEAN
        /\ b[2].patch = s.patch
        /\ \A k \in 1..EndOf(s) : b[k].is # "end"
    BY <2>1, <2>2, NoEndIn
  <2>4. file \in Seq(Chunk) /\ Len(file) \in Nat /\ Len(file) >= EndOf(s) /\ \A k \in 1..EndOf(s) : file[k] = b[k]
    BY <1>4, <2>1 DEF DiskInv, Entire
  <2>6. End.is = "end"
    BY DEF End
  <2>7. \A k \in 1..EndOf(s) : k <= EndOf(p) /\ file[k] = a[k]
    <3> SUFFICES ASSUME NEW k \in 1..EndOf(s) PROVE k <= EndOf(p) /\ file[k] = a[k]
      OBVIOUS
    <3>1. k \in 1..Len(file) /\ file[k].is # "end"
      BY <2>3, <2>4
    <3>2. (k <= EndOf(p) /\ file[k] = a[k]) \/ file[k] = End
      BY <1>4, <2>1, <2>4, <3>1, ChunkAt
    <3> QED
      BY <2>6, <3>1, <3>2
  <2>8. p.patch = s.patch
    <3>1. a[2] = b[2]
      BY <2>3, <2>4, <2>7
    <3> QED
      BY <2>3, <3>1
  <2> QED
    BY <2>1, <2>3, <2>4, <2>7, <2>8 DEF Entire
<1> QED
  BY <1>2, <1>3, <1>4

\* FileDecides: an import that nobody disturbed fails or succeeds for what the file
\* is, whatever else was written before and wherever that was cut short.
THEOREM FileAloneDecides == Spec => []FileDecides
<1>1. Init => FileInv
  BY FileStarts
<1>2. ASSUME FileInv PROVE FileDecides
  <2> SUFFICES ASSUME cmd = "import", reader = "done", ~disturbed
               PROVE  ret = NoError <=> Whole /\ Permitted
    BY DEF FileDecides, Permitted
  <2>1. CASE Nameless
    BY <1>2, <2>1, WholeIs DEF FileInv, ReadInv, FindsNothing
  <2>2. CASE \E r \in 1..Runs, p \in Plan : BeginsAs(r, p)
    <3>1. PICK r \in 1..Runs, p \in Plan : BeginsAs(r, p)
      BY <2>2
    <3>2. Progress(r, p)
      BY <1>2, <3>1 DEF FileInv, ReadInv
    <3> QED
      BY <1>2, <3>1, <3>2, WholeIs DEF Progress, FileInv
  <2> QED
    BY <1>2, <2>1, <2>2 DEF FileInv, DiskInv, Shape
<1> QED
  BY <1>1, <1>2, FileStep, PTL DEF Spec
-----------------------------------------------------------------------------
(***************************************************************************)
(* What is in the bundle, and what the importer makes of it: RoundTrip,    *)
(* which shares no variable with BundleFile.                               *)
(*                                                                         *)
(* A layer is only written when the bytes read are those it is named for,  *)
(* so that AppliedIsTarget needs no history. For the other two the         *)
(* invariant follows the layers from the plan: what a pair ships is in the *)
(* bundle or still to be encoded, a patch is against the baseline of the   *)
(* one image that ships the layer, and a verdict says what the scan found, *)
(* of data that nothing changes any more.                                  *)
(***************************************************************************)

\* The layers of a target, and those of them that its baseline has not.
TargetLayers(i)  == {target[i][k] : k \in DOMAIN target[i]}
MissingLayers(i) == {target[i][k] : k \in Shipped(i)}

\* What was planned, and the types of what is left of it.
Planned ==
  /\ base \in [Images -> SUBSET Digests]
  /\ target \in [Images -> Seq(Digests)]
  /\ \A i \in Images : Len(target[i]) <= MaxLayers
  /\ todo \subseteq InitialTodo
  /\ given \in [Images -> {"none", "same", "other"}]
  /\ step \in {"export", "resolve", "scan", "apply", "refused"}
  /\ status \in [Images -> Verdict]
  /\ output \in [Images -> Seq(Bytes)]

\* A patch is of a layer that is shipped once, and against the baseline of the
\* image that ships it.
Honest(d) ==
  \/ entries[d] = Full
  \/ /\ ~(RefCount(d) > 1)
     /\ \E i \in Images : \E f \in base[i] :
          d \in MissingLayers(i) /\ entries[d] = Patch(f)

\* What was planned is in the bundle or still to be encoded.
Bundled ==
  /\ \A d \in DOMAIN entries : Honest(d)
  /\ \A i \in Images : \A d \in MissingLayers(i) : <<i, d>> \in todo \/ d \in DOMAIN entries
  /\ step # "export" => todo = {}

Resolvable(i) == PatchSources(i) \subseteq Held(i) /\ ReuseLayers(i) \subseteq Held(i)

\* What the verdict on an image says.
Sound(i) ==
  /\ status[i] \in {"ok", "applied", "failed"} => given[i] # "none" /\ Resolvable(i)
  /\ status[i] = "error" => given[i] = "none"
  /\ status[i] \in {"patchSource", "reuseLayer"} => ~Resolvable(i)
  /\ status[i] = "applied" => Readable(i) /\ output[i] = target[i]
  /\ status[i] = "failed" => ~Readable(i)

Judged ==
  /\ \A i \in Images : Sound(i)
  /\ step \notin {"scan", "apply"} => \A i \in Images : status[i] = "unseen"
  /\ step = "apply" => \A i \in Images : status[i] # "unseen"

TripInv == Planned /\ Bundled /\ Judged

LEMMA TripStarts == TripInit => TripInv
<1> SUFFICES ASSUME TripInit PROVE TripInv
  OBVIOUS
<1> USE DEF TripInit
<1>1. Planned
  <2>1. target \in [Images -> Seq(Digests)] /\ \A i \in Images : Len(target[i]) <= MaxLayers
    <3> SUFFICES ASSUME NEW i \in Images
                 PROVE  target[i] \in Seq(Digests) /\ Len(target[i]) <= MaxLayers
      OBVIOUS
    <3>1. target[i] \in UNION {[1..m -> Digests] : m \in 0..MaxLayers}
      BY DEF BoundedSeq, SeqOf
    <3>2. PICK m \in 0..MaxLayers : target[i] \in [1..m -> Digests]
      BY <3>1
    <3> QED BY <3>2
  <2> QED BY <2>1 DEF Planned, Verdict, Bytes
<1>2. Bundled
  <2>1. \A i \in Images : \A d \in MissingLayers(i) : <<i, d>> \in InitialTodo
    BY DEF MissingLayers, InitialTodo
  <2> QED BY <2>1 DEF Bundled
<1>3. Judged
  BY DEF Judged, Sound
<1> QED BY <1>1, <1>2, <1>3 DEF TripInv

\* Nothing but Encode changes the bundle, and nothing the plan.
TripKept == <<base, target, listed>>' = <<base, target, listed>>

LEMMA PlanStays ==
  ASSUME TripKept
  PROVE  /\ InitialTodo' = InitialTodo
         /\ \A i : TargetLayers(i)' = TargetLayers(i) /\ MissingLayers(i)' = MissingLayers(i)
         /\ \A d : RefCount(d)' = RefCount(d)
BY DEF TripKept, InitialTodo, TargetLayers, MissingLayers, RefCount, Shipped

LEMMA StepEncode ==
  ASSUME TripInv, NEW i \in Images, NEW d \in Digests, Encode(i, d)
  PROVE  TripInv'
<1> USE DEF TripInv
<1>1. /\ step = "export" /\ step' = step /\ <<i, d>> \in todo /\ todo' = todo \ {<<i, d>>}
      /\ TripKept /\ UNCHANGED <<given, damaged, gone, status, output>>
  BY DEF Encode, TripKept
<1>2. PICK e \in Encodings(i, d) :
        entries' = [x \in DOMAIN entries \cup {d} |->
                      IF x \in DOMAIN entries THEN entries[x] ELSE e]
  BY DEF Encode
<1>3. Planned'
  BY <1>1, PlanStays DEF Planned, TripKept, Verdict, Bytes
<1>4. d \in MissingLayers(i)
  <2>1. <<i, d>> \in InitialTodo
    BY <1>1 DEF Planned
  <2>2. PICK h \in Images : <<i, d>> \in {<<h, target[h][k]>> : k \in Shipped(h)}
    BY <2>1 DEF InitialTodo
  <2> QED BY <2>2 DEF MissingLayers
<1>5. ASSUME NEW x \in DOMAIN entries' PROVE Honest(x)'
  <2>1. CASE x \in DOMAIN entries
    <3>1. entries'[x] = entries[x] /\ Honest(x)
      BY <1>2, <2>1 DEF Bundled
    <3> QED BY <1>1, <3>1, PlanStays DEF Honest, TripKept, Full, Patch
  <2>2. CASE x \notin DOMAIN entries
    <3>1. x = d /\ entries'[x] = e
      BY <1>2, <1>5, <2>2
    <3>2. \/ e = Full
          \/ ~(RefCount(d) > 1) /\ \E f \in base[i] : e = Patch(f)
      BY <1>2 DEF Encodings
    <3> QED BY <1>1, <1>4, <3>1, <3>2, PlanStays DEF Honest, TripKept, Full, Patch
  <2> QED BY <2>1, <2>2
<1>6. ASSUME NEW h \in Images, NEW x \in MissingLayers(h)'
      PROVE  <<h, x>> \in todo' \/ x \in DOMAIN entries'
  BY <1>1, <1>2, <1>6, PlanStays DEF Bundled
<1>7. Bundled'
  BY <1>1, <1>5, <1>6 DEF Bundled
<1>8. Judged'
  BY <1>1 DEF Judged, Sound
<1> QED BY <1>3, <1>7, <1>8

\* After the delivery every judgement is about what does not change any more.
Settled == <<base, target, listed, entries, given, damaged, gone>>

LEMMA JudgementsStay ==
  ASSUME UNCHANGED Settled
  PROVE  /\ \A i : Resolvable(i)' <=> Resolvable(i)
         /\ \A i : Readable(i)' <=> Readable(i)
         /\ TripKept
<1>1. /\ base' = base /\ target' = target /\ entries' = entries /\ given' = given
      /\ damaged' = damaged /\ gone' = gone /\ listed' = listed
  BY DEF Settled
<1>2. ASSUME NEW i PROVE Resolvable(i)' <=> Resolvable(i)
  BY <1>1 DEF Resolvable, PatchSources, ReuseLayers, Held
<1>3. ASSUME NEW i PROVE Readable(i)' <=> Readable(i)
  <2>1. \A d : GetBlob(i, d)' = GetBlob(i, d)
    BY <1>1 DEF GetBlob, ServeReuse, ServeFull, ServePatch, Fetchable, Held,
                Verified, Decoded, Data, ServeError
  <2> QED BY <1>1, <2>1 DEF Readable
<1> QED BY <1>1, <1>2, <1>3 DEF TripKept

\* A step that leaves the bundle and the plan alone.
LEMMA BundledStays ==
  ASSUME TripInv, TripKept, entries' = entries, todo' = todo,
         step = "export" => todo = {} \/ step' = "export"
  PROVE  Bundled'
<1>1. \A d \in DOMAIN entries' : Honest(d)'
  BY PlanStays DEF TripInv, Bundled, Honest, TripKept, Full, Patch
<1>2. \A i \in Images : \A d \in MissingLayers(i)' : <<i, d>> \in todo' \/ d \in DOMAIN entries'
  BY PlanStays DEF TripInv, Bundled
<1> QED BY <1>1, <1>2 DEF TripInv, Bundled

LEMMA StepDeliver == ASSUME TripInv, Deliver PROVE TripInv'
<1>1. /\ step = "export" /\ todo = {} /\ step' = "resolve"
      /\ given' \in [Images -> {"none", "same", "other"}]
      /\ TripKept /\ UNCHANGED <<entries, todo, status, output>>
  BY DEF Deliver, TripKept
<1>2. Planned'
  BY <1>1, PlanStays DEF TripInv, Planned, TripKept, Verdict, Bytes
<1>3. Bundled'
  BY <1>1, BundledStays
<1>4. Judged'
  BY <1>1 DEF TripInv, Judged, Sound
<1> QED BY <1>2, <1>3, <1>4 DEF TripInv

LEMMA StepResolve == ASSUME TripInv, Resolve PROVE TripInv'
<1>1. /\ step = "resolve" /\ step' \in {"scan", "refused"}
      /\ UNCHANGED Settled /\ UNCHANGED <<todo, status, output>>
  BY DEF Resolve, Settled
<1>2. TripKept /\ entries' = entries /\ given' = given
  BY <1>1, JudgementsStay DEF Settled
<1>3. Planned'
  BY <1>1, <1>2, PlanStays DEF TripInv, Planned, TripKept, Verdict, Bytes
<1>4. Bundled'
  BY <1>1, <1>2, BundledStays
<1>5. Judged'
  BY <1>1 DEF TripInv, Judged, Sound
<1> QED BY <1>3, <1>4, <1>5 DEF TripInv

\* The verdict on one image leaves what is said of the others.
LEMMA OthersStaySound ==
  ASSUME TripInv, UNCHANGED Settled, NEW i \in Images,
         \A h \in Images \ {i} : status'[h] = status[h] /\ output'[h] = output[h]
  PROVE  \A h \in Images \ {i} : Sound(h)'
<1> SUFFICES ASSUME NEW h \in Images \ {i} PROVE Sound(h)'
  OBVIOUS
<1>1. Sound(h) /\ status'[h] = status[h] /\ output'[h] = output[h]
  BY DEF TripInv, Judged
<1>2. (Resolvable(h)' <=> Resolvable(h)) /\ (Readable(h)' <=> Readable(h))
  BY JudgementsStay
<1>3. given' = given /\ target' = target
  BY DEF Settled
<1> QED BY <1>1, <1>2, <1>3 DEF Sound

LEMMA StepScan == ASSUME TripInv, NEW i \in Images, Scan(i) PROVE TripInv'
<1> DEFINE v == IF given[i] = "none" THEN "error"
                ELSE IF ~(PatchSources(i) \subseteq Held(i)) THEN "patchSource"
                ELSE IF ~(ReuseLayers(i) \subseteq Held(i)) THEN "reuseLayer"
                ELSE "ok"
<1>1. /\ step = "scan" /\ step' = step /\ status[i] = "unseen"
      /\ status' = [status EXCEPT ![i] = v]
      /\ UNCHANGED Settled /\ UNCHANGED <<todo, output>>
  BY DEF Scan, Settled
<1>2. TripKept /\ entries' = entries /\ given' = given
  BY <1>1, JudgementsStay DEF Settled
<1>3. status \in [Images -> Verdict]
  BY DEF TripInv, Planned
<1>4. /\ v \in {"error", "patchSource", "reuseLayer", "ok"}
      /\ v = "error" => given[i] = "none"
      /\ v = "ok" => given[i] # "none" /\ Resolvable(i)
      /\ v \in {"patchSource", "reuseLayer"} => ~Resolvable(i)
  BY DEF Resolvable
<1> HIDE DEF v
<1>5. status'[i] = v /\ status' \in [Images -> Verdict]
      /\ \A h \in Images \ {i} : status'[h] = status[h]
  BY <1>1, <1>3, <1>4 DEF Verdict
<1>6. Planned'
  <2>1. Verdict' = Verdict /\ Bytes' = Bytes
    BY DEF Verdict, Bytes
  <2> QED BY <1>1, <1>2, <1>5, <2>1, PlanStays DEF TripInv, Planned, TripKept
<1>7. Bundled'
  BY <1>1, <1>2, BundledStays
<1>8. Sound(i)'
  <2>1. Resolvable(i)' <=> Resolvable(i)
    BY <1>1, JudgementsStay
  <2> QED BY <1>2, <1>4, <1>5, <2>1 DEF Sound
<1>9. Judged'
  <2>1. \A h \in Images \ {i} : Sound(h)'
    BY <1>1, <1>5, OthersStaySound
  <2> QED BY <1>1, <1>8, <2>1 DEF TripInv, Judged
<1> QED BY <1>6, <1>7, <1>9 DEF TripInv

LEMMA StepScanDone == ASSUME TripInv, ScanDone PROVE TripInv'
<1>1. /\ step = "scan" /\ step' = "apply" /\ \A i \in Images : status[i] # "unseen"
      /\ UNCHANGED Settled /\ UNCHANGED <<todo, status, output>>
  BY DEF ScanDone, Settled
<1>2. TripKept /\ entries' = entries /\ given' = given
  BY <1>1, JudgementsStay DEF Settled
<1>3. Planned'
  BY <1>1, <1>2, PlanStays DEF TripInv, Planned, TripKept, Verdict, Bytes
<1>4. Bundled'
  BY <1>1, <1>2, BundledStays
<1>5. Judged'
  <2>1. \A i \in Images : Sound(i)'
    <3> SUFFICES ASSUME NEW i \in Images PROVE Sound(i)'
      OBVIOUS
    <3>1. (Resolvable(i)' <=> Resolvable(i)) /\ (Readable(i)' <=> Readable(i))
      BY <1>1, JudgementsStay
    <3>2. target' = target /\ Sound(i)
      BY <1>2 DEF TripKept, TripInv, Judged
    <3> QED BY <1>1, <1>2, <3>1, <3>2 DEF Sound
  <2> QED BY <1>1, <2>1 DEF Judged
<1> QED BY <1>3, <1>4, <1>5 DEF TripInv

\* What the verifying reader lets through is the layer.
LEMMA ServedIsRight ==
  ASSUME NEW i, NEW d, GetBlob(i, d).err = "none"
  PROVE  GetBlob(i, d).bytes = d
<1>1. \A b : Data(b).bytes = b
  BY DEF Data
<1>2. ServeError("mismatch").err # "none" /\ ServeError("reuseLayer").err # "none"
      /\ ServeError("patchSource").err # "none"
  BY DEF ServeError
<1> QED BY <1>1, <1>2 DEF GetBlob, ServeReuse, ServeFull, ServePatch, Verified

LEMMA StepApply == ASSUME TripInv, NEW i \in Images, ApplyImage(i) PROVE TripInv'
<1>1. /\ step = "apply" /\ step' = step /\ status[i] = "ok"
      /\ UNCHANGED Settled /\ todo' = todo
  BY DEF ApplyImage, Settled
<1>2. TripKept /\ entries' = entries /\ given' = given
  BY <1>1, JudgementsStay DEF Settled
<1>3. /\ status \in [Images -> Verdict] /\ output \in [Images -> Seq(Bytes)]
      /\ target[i] \in Seq(Digests)
  BY DEF TripInv, Planned
<1>4. given[i] # "none" /\ Resolvable(i)
  BY <1>1 DEF TripInv, Judged, Sound
<1>5. /\ status'[i] \in {"applied", "failed"} /\ status' \in [Images -> Verdict]
      /\ status'[i] = "applied" => Readable(i) /\ output'[i] = target[i]
      /\ status'[i] = "failed" => ~Readable(i)
      /\ output' \in [Images -> Seq(Bytes)]
      /\ \A h \in Images \ {i} : status'[h] = status[h] /\ output'[h] = output[h]
  <2>1. CASE Readable(i)
    <3> DEFINE written == [k \in DOMAIN target[i] |-> GetBlob(i, target[i][k]).bytes]
    <3>1. \A k \in DOMAIN target[i] : written[k] = target[i][k]
      BY <2>1, ServedIsRight DEF Readable, Range
    <3>2. written = target[i]
      <4>1. DOMAIN written = DOMAIN target[i] /\ written = [k \in DOMAIN written |-> written[k]]
        OBVIOUS
      <4>2. target[i] = [k \in DOMAIN target[i] |-> target[i][k]]
        BY <1>3
      <4> HIDE DEF written
      <4> QED BY <3>1, <4>1, <4>2
    <3>3. target[i] \in Seq(Bytes)
      BY <1>3 DEF Bytes
    <3>4. /\ status' = [status EXCEPT ![i] = "applied"]
          /\ output' = [output EXCEPT ![i] = target[i]]
      BY <2>1, <3>2 DEF ApplyImage
    <3> QED BY <1>3, <2>1, <3>3, <3>4 DEF Verdict
  <2>2. CASE ~Readable(i)
    <3>1. status' = [status EXCEPT ![i] = "failed"] /\ output' = output
      BY <2>2 DEF ApplyImage
    <3> QED BY <1>3, <2>2, <3>1 DEF Verdict
  <2> QED BY <2>1, <2>2
<1>6. Planned'
  <2>1. Verdict' = Verdict /\ Bytes' = Bytes
    BY DEF Verdict, Bytes
  <2> QED BY <1>1, <1>2, <1>5, <2>1, PlanStays DEF TripInv, Planned, TripKept
<1>7. Bundled'
  BY <1>1, <1>2, BundledStays
<1>8. Sound(i)'
  <2>1. (Resolvable(i)' <=> Resolvable(i)) /\ (Readable(i)' <=> Readable(i))
    BY <1>1, JudgementsStay
  <2>2. target' = target
    BY <1>2 DEF TripKept
  <2> QED BY <1>2, <1>4, <1>5, <2>1, <2>2 DEF Sound
<1>9. Judged'
  <2>1. \A h \in Images \ {i} : Sound(h)'
    BY <1>1, <1>5, OthersStaySound
  <2> QED BY <1>1, <1>5, <1>8, <2>1 DEF TripInv, Judged
<1> QED BY <1>6, <1>7, <1>9 DEF TripInv

LEMMA TripStep == TripInv /\ [TripNext]_tripVars => TripInv'
<1> SUFFICES ASSUME TripInv, [TripNext]_tripVars PROVE TripInv'
  OBVIOUS
<1>1. ASSUME NEW i \in Images, NEW d \in Digests, Encode(i, d) PROVE TripInv'
  BY <1>1, StepEncode
<1>2. CASE Deliver
  BY <1>2, StepDeliver
<1>3. CASE Resolve
  BY <1>3, StepResolve
<1>4. CASE ScanDone
  BY <1>4, StepScanDone
<1>5. ASSUME NEW i \in Images, Scan(i) PROVE TripInv'
  BY <1>5, StepScan
<1>6. ASSUME NEW i \in Images, ApplyImage(i) PROVE TripInv'
  BY <1>6, StepApply
<1>7. CASE UNCHANGED tripVars
  <2>1. /\ UNCHANGED Settled /\ UNCHANGED <<todo, step, status, output>>
    BY <1>7 DEF tripVars, Settled
  <2>2. TripKept /\ entries' = entries /\ given' = given
    BY <2>1, JudgementsStay DEF Settled
  <2>3. Planned'
    BY <2>1, <2>2, PlanStays DEF TripInv, Planned, TripKept, Verdict, Bytes
  <2>4. Bundled'
    BY <2>1, <2>2, BundledStays
  <2>5. \A i \in Images : Sound(i)'
    <3> SUFFICES ASSUME NEW i \in Images PROVE Sound(i)'
      OBVIOUS
    <3>1. (Resolvable(i)' <=> Resolvable(i)) /\ (Readable(i)' <=> Readable(i))
      BY <2>1, JudgementsStay
    <3>2. target' = target /\ Sound(i)
      BY <2>2 DEF TripKept, TripInv, Judged
    <3> QED BY <2>1, <2>2, <3>1, <3>2 DEF Sound
  <2> QED BY <2>1, <2>3, <2>4, <2>5 DEF TripInv, Judged
<1> QED BY <1>1, <1>2, <1>3, <1>4, <1>5, <1>6, <1>7 DEF TripNext

\* Whatever was damaged or lost on the way, and whatever the planner decided: an
\* image that the importer reports as applied has the target's layers, in order.
THEOREM AppliedIsTheTarget == TripSpec => []AppliedIsTarget
<1>1. TripInv => AppliedIsTarget
  BY DEF TripInv, Judged, Sound, AppliedIsTarget
<1> QED BY <1>1, TripStarts, TripStep, PTL DEF TripSpec

\* On intact data an image can be read exactly when the scan finds what it needs.
LEMMA IntactIsReadable ==
  ASSUME TripInv, Intact, NEW i \in Images
  PROVE  Readable(i) <=> Resolvable(i)
<1> DEFINE err(d) == GetBlob(i, d).err
<1>1. \A d \in DOMAIN entries : entries[d].encoding \in {"full", "patch"}
  BY DEF TripInv, Bundled, Honest, Full, Patch
<1>2. \A d : Verified(d, Decoded(d)).err = "none"
  BY DEF Intact, Verified, Decoded, Data
<1>3. \A d : Fetchable(i, d) <=> d \in Held(i)
  BY DEF Intact, Fetchable
<1>4. ServeError("reuseLayer").err # "none" /\ ServeError("patchSource").err # "none"
      /\ \A d : Data(d).err = "none"
  BY DEF ServeError, Data
<1>5. \A d : d \notin DOMAIN entries => (err(d) = "none" <=> d \in Held(i))
  BY <1>3, <1>4 DEF GetBlob, ServeReuse
<1>6. \A d \in DOMAIN entries : entries[d].encoding = "full" => err(d) = "none"
  BY <1>2 DEF GetBlob, ServeFull
<1>7. \A d \in DOMAIN entries :
        entries[d].encoding = "patch" => (err(d) = "none" <=> entries[d].from \in Held(i))
  BY <1>2, <1>3, <1>4 DEF GetBlob, ServePatch
<1>8. Readable(i) <=> \A d \in Range(target[i]) : err(d) = "none"
  BY DEF Readable
<1> HIDE DEF err
<1> QED BY <1>1, <1>5, <1>6, <1>7, <1>8 DEF Resolvable, PatchSources, ReuseLayers

\* On intact data the scan passes exactly the images that every layer can be
\* served of, for any number of images and layers.
THEOREM ScanIsExact == TripSpec => []ScanForesees
<1>1. TripInv => ScanForesees
  <2> SUFFICES ASSUME TripInv, Intact, Done, NEW i \in Images, given[i] = "same"
               PROVE  /\ status[i] # "failed"
                      /\ status[i] = "applied" <=> Readable(i)
    BY DEF ScanForesees
  <2>1. Readable(i) <=> Resolvable(i)
    BY IntactIsReadable
  <2>2. Sound(i) /\ status[i] \in Verdict /\ status[i] \notin {"unseen", "ok"}
    BY DEF TripInv, Planned, Judged, Done
  <2> QED BY <2>1, <2>2 DEF Sound, Verdict
<1> QED BY <1>1, TripStarts, TripStep, PTL DEF TripSpec

\* A layer that two images ship, or one twice, has a count above one.
LEMMA ShippedTwice ==
  ASSUME TripInv, NEW d,
         NEW i \in Images, NEW h \in Images, i # h,
         d \in MissingLayers(i), d \in MissingLayers(h)
  PROVE  RefCount(d) > 1
<1> DEFINE S == {o \in Images \X (1..MaxLayers) :
                   o[2] \in Shipped(o[1]) /\ target[o[1]][o[2]] = d}
<1>1. ASSUME NEW x \in Images, d \in MissingLayers(x)
      PROVE  \E k \in 1..MaxLayers : <<x, k>> \in S
  <2>1. PICK k \in Shipped(x) : target[x][k] = d
    BY <1>1 DEF MissingLayers
  <2>2. target[x] \in Seq(Digests) /\ Len(target[x]) <= MaxLayers /\ MaxLayers \in Nat
    BY BoundAssumption DEF TripInv, Planned
  <2>3. k \in 1..Len(target[x])
    BY <2>2 DEF Shipped
  <2>4. k \in 1..MaxLayers
    BY <2>2, <2>3
  <2> QED BY <2>1, <2>4
<1>2. PICK k \in 1..MaxLayers : <<i, k>> \in S
  BY <1>1
<1>3. PICK m \in 1..MaxLayers : <<h, m>> \in S
  BY <1>1
<1>4. IsFiniteSet(S)
  <2>1. IsFiniteSet(1..MaxLayers)
    BY BoundAssumption, FS_Interval
  <2>2. IsFiniteSet(Images \X (1..MaxLayers))
    <3>1. IsFiniteSet(Images)
      BY BoundAssumption
    <3> QED BY <2>1, <3>1, FS_Product
  <2> QED BY <2>2, FS_Subset
<1>5. RefCount(d) = Cardinality(S)
  BY DEF RefCount
<1> HIDE DEF S
<1>6. Cardinality(S) \in Nat
  BY <1>4, FS_CardinalityType
<1>7. S # {} /\ ~ \E x : S = {x}
  BY <1>2, <1>3
<1>8. Cardinality(S) # 0 /\ Cardinality(S) # 1
  BY <1>4, <1>7, FS_EmptySet, FS_Singleton
<1> QED BY <1>5, <1>6, <1>8

\* With the recorded baseline, an image that is handed no patch made for another
\* one finds every layer, in the bundle or in its baseline.
LEMMA NothingMissing ==
  ASSUME TripInv, step = "apply", NEW i \in Images, given[i] = "same",
         \A d \in Digests : ~ForeignPatch(i, d)
  PROVE  Resolvable(i)
<1>1. Held(i) = base[i]
  BY DEF Held
<1>2. target[i] \in Seq(Digests) /\ todo = {}
  BY DEF TripInv, Planned, Bundled
<1>3. \A d \in Range(target[i]) : d \in Digests /\ (d \in base[i] \/ d \in MissingLayers(i))
  BY <1>2 DEF Range, MissingLayers, Shipped
<1>4. ReuseLayers(i) \subseteq base[i]
  <2> SUFFICES ASSUME NEW d \in Range(target[i]), d \notin DOMAIN entries PROVE d \in base[i]
    BY DEF ReuseLayers
  <2>1. d \notin MissingLayers(i)
    BY <1>2 DEF TripInv, Bundled
  <2> QED BY <1>3, <2>1
<1>5. PatchSources(i) \subseteq base[i]
  <2> SUFFICES ASSUME NEW d \in Range(target[i]), d \in DOMAIN entries,
                      entries[d].encoding = "patch"
               PROVE  entries[d].from \in base[i]
    BY DEF PatchSources
  <2>1. d \in MissingLayers(i)
    BY <1>3 DEF ForeignPatch
  <2>2. Honest(d)
    BY DEF TripInv, Bundled
  <2>3. entries[d] # Full
    BY DEF Full
  <2>4. PICK h \in Images : \E f \in base[h] : d \in MissingLayers(h) /\ entries[d] = Patch(f)
    BY <2>2, <2>3 DEF Honest
  <2>5. ~(RefCount(d) > 1)
    BY <2>2, <2>3 DEF Honest
  <2>6. h = i
    BY <2>1, <2>4, <2>5, ShippedTwice
  <2> QED BY <2>4, <2>6 DEF Patch
<1> QED BY <1>1, <1>4, <1>5 DEF Resolvable

\* With its recorded baseline and an intact bundle an image is applied, unless a
\* layer of its baseline travels as a patch made for another image.
THEOREM RoundTripWorks == TripSpec => []RoundTripHolds
<1>1. TripInv => RoundTripHolds
  <2> SUFFICES ASSUME TripInv, Intact, Done, NEW i \in Images, given[i] = "same",
                      \A d \in Digests : ~ForeignPatch(i, d)
               PROVE  status[i] = "applied"
    BY DEF RoundTripHolds
  <2>1. Resolvable(i)
    BY NothingMissing DEF Done
  <2>2. Readable(i)
    BY <2>1, IntactIsReadable
  <2>3. Sound(i) /\ status[i] \in Verdict /\ status[i] \notin {"unseen", "ok"}
    BY DEF TripInv, Planned, Judged, Done
  <2> QED BY <2>1, <2>2, <2>3 DEF Sound, Verdict
<1> QED BY <1>1, TripStarts, TripStep, PTL DEF TripSpec
===============================================================================
