--------------------------- MODULE CommandRunProofs ---------------------------
(***************************************************************************)
(* What a command line does, whatever is on it and in the images.          *)
(*                                                                         *)
(* No task asks for more than the budget. Nothing is submitted before the  *)
(* last step of an export, so what it needs from the steps before is that  *)
(* the comparison with the budget was made of the very plans it reads,     *)
(* under the same invocation: Checked.                                     *)
(*                                                                         *)
(* A misused command touches nothing, unless the code overlooks what is    *)
(* wrong with it: what a run has opened or created tells how far its       *)
(* checks had come, RInv.                                                  *)
(*                                                                         *)
(* A layer is encoded against the baseline layers that have most of it:    *)
(* the order the planner sorts by is a linear one, and a sort that counts  *)
(* who comes first picks the first of it. What the steps before provide is *)
(* KInv: plans, fingerprints and ranks are of the images that were opened. *)
(*                                                                         *)
(* The last part is about ExportRun, from the spool to the archive.        *)
(***************************************************************************)
EXTENDS CommandRun, ExportRun, FiniteSetTheorems, SequenceTheorems, WellFoundedInduction, TLAPS

Checked ==
  at \in {"prime", "rank"} =>
    /\ LayersFit(plans, WindowLog(inv), MemoryBudget(inv))
    /\ tasks = {}

\* What holds before the check: nothing is submitted.
Idle == at \in {"parse", "prepare", "doctor", "plan", "import"} => tasks = {}

IInv == Checked /\ Idle /\ NeverClamped

LEMMA InitIsChecked == Init => IInv
  BY DEF Init, IInv, Checked, Idle, NeverClamped

\* A task of an export is the estimate of a layer that the check has seen.
LEMMA TasksWereChecked ==
  ASSUME LayersFit(plans, WindowLog(inv), MemoryBudget(inv)), MemoryBudget(inv) > 0,
         NEW j \in Jobs
  PROVE  Estimate(WindowLog(inv), Layer(j)) <= MemoryBudget(inv)
<1>1. PICK i \in DOMAIN plans : j \in {<<i, k>> : k \in DOMAIN plans[i].shipped}
  BY DEF Jobs
<1>2. PICK k \in DOMAIN plans[i].shipped : j = <<i, k>>
  BY <1>1
<1>3. Layer(j) = plans[i].shipped[k]
  BY <1>2 DEF Layer
<1> QED BY <1>3 DEF LayersFit

LEMMA StepKeepsChecked == IInv /\ [Next]_vars => IInv'
<1> SUFFICES ASSUME IInv, [Next]_vars PROVE IInv'
  OBVIOUS
<1> USE DEF IInv, Checked, Idle, NeverClamped
<1>1. CASE Parse
  BY <1>1 DEF Parse, End, Unplanned
<1>2. CASE Doctor
  BY <1>2 DEF Doctor, End, Unplanned
<1>3. CASE Prepare
  BY <1>3 DEF Prepare, End, Unplanned
<1>4. CASE Plan
  BY <1>4 DEF Plan, PlanPair, End
<1>5. CASE Budget
  BY <1>5 DEF Budget, End, Unplanned
<1>6. CASE Prime
  BY <1>6 DEF Prime
<1>7. CASE Rank
  <2>1. /\ at' = "done" /\ inv' = inv /\ at = "rank"
        /\ tasks' = {[key |-> Layer(j).digest, est |-> Estimate(WindowLog(inv), Layer(j))] :
                       j \in Jobs}
    BY <1>7 DEF Rank
  <2>2. ASSUME MemoryBudget(inv) > 0, NEW t \in tasks' PROVE t.est <= MemoryBudget(inv)
    <3>1. PICK j \in Jobs :
            t = [key |-> Layer(j).digest, est |-> Estimate(WindowLog(inv), Layer(j))]
      BY <2>1, <2>2
    <3> QED BY <2>1, <2>2, <3>1, TasksWereChecked
  <2> QED BY <2>1, <2>2
<1>8. CASE Import
  <2>1. at' = "done" /\ inv' = inv
    BY <1>8 DEF Import, End
  <2>2. ASSUME MemoryBudget(inv) > 0, NEW t \in tasks' PROVE t.est <= MemoryBudget(inv)
    <3>1. PICK bundle \in Bundles :
            \E ready \in SUBSET DOMAIN bundle :
              LET est == [i \in DOMAIN bundle |->
                            ImageEstimate(bundle[i].layers, bundle[i].bundled)]
              IN  IF \A i \in DOMAIN bundle : est[i] <= MemoryBudget(inv)
                    THEN tasks' = IF Setting(inv, "workers") <= 1 THEN {}
                                  ELSE {[key |-> i, est |-> est[i]] : i \in ready}
                    ELSE tasks' = tasks
      BY <1>8, <2>2 DEF Import
    <3> DEFINE est == [i \in DOMAIN bundle |->
                         ImageEstimate(bundle[i].layers, bundle[i].bundled)]
    <3>2. PICK ready \in SUBSET DOMAIN bundle :
            IF \A i \in DOMAIN bundle : est[i] <= MemoryBudget(inv)
              THEN tasks' = IF Setting(inv, "workers") <= 1 THEN {}
                            ELSE {[key |-> i, est |-> est[i]] : i \in ready}
              ELSE tasks' = tasks
      BY <3>1
    <3>3. CASE \A i \in DOMAIN bundle : est[i] <= MemoryBudget(inv)
      <4>1. PICK i \in ready : t = [key |-> i, est |-> est[i]]
        BY <2>2, <3>2, <3>3
      <4> QED BY <3>3, <4>1
    <3>4. CASE ~ \A i \in DOMAIN bundle : est[i] <= MemoryBudget(inv)
      BY <1>8, <2>2, <3>2, <3>4 DEF Import
    <3> QED BY <3>3, <3>4
  <2> QED BY <2>1, <2>2
<1>9. CASE Unopened
  BY <1>9 DEF Unopened, End, Unplanned
<1>10. CASE UNCHANGED vars
  BY <1>10 DEF vars
<1> QED BY <1>1, <1>2, <1>3, <1>4, <1>5, <1>6, <1>7, <1>8, <1>9, <1>10 DEF Next

\* The estimates that are submitted are the estimates that were checked, so the
\* pool never has to clamp one.
THEOREM TasksFitTheBudget == Spec => []NeverClamped
<1>1. IInv => NeverClamped
  BY DEF IInv
<1> QED BY <1>1, InitIsChecked, StepKeepsChecked, PTL DEF Spec
-----------------------------------------------------------------------------
(* Misuse is refused, and nothing else is, before anything is touched.     *)

\* A set of natural numbers has a least one.
LEMMA LeastOf ==
  ASSUME NEW T \in SUBSET Nat, T # {}
  PROVE  \E m \in T : \A k \in T : m <= k
<1>1. PICK m \in T : \A k \in T : ~ (<<k, m>> \in OpToRel(<, Nat))
  BY WFMin, NatLessThanWellFounded DEF OpToRel
<1>2. \A k \in T : ~ (k < m)
  BY <1>1 DEF OpToRel
<1> QED BY <1>2

\* The errors the checks of the command line return, nil among them.
Refusals ==
  {NoError, Usage, InvalidSpec, Typed("ErrDuplicateBundleName"),
   Typed("ErrBundleSpecMissingTransport")}

LEMMA RefusalsAreOfUser ==
  \A e \in Refusals : e = NoError \/ (e # NoError /\ Exit(e) = 2)
<1>1. \A e \in Refusals \ {NoError} :
        e.cat = "user" /\ e = [cat |-> e.cat, wraps |-> e.wraps, says |-> e.says]
  BY DEF Refusals, Usage, Plain, InvalidSpec, Typed, UserErrors, KeyErrors
<1>2. NoError.cat = "nil"
  BY DEF NoError
<1> QED BY <1>1, <1>2 DEF Exit, ExitCode, Classify

\* A check of one thing returns an error when it does not hold.
LEMMA UnlessFails ==
  ASSUME NEW e \in Refusals, e # NoError, NEW ok \in BOOLEAN
  PROVE  /\ Unless(ok, e) \in Refusals
         /\ Unless(ok, e) = NoError <=> ok
BY DEF Unless, Refusals

LEMMA RefusalsAreErrors ==
  /\ Usage \in Refusals /\ Usage # NoError
  /\ InvalidSpec \in Refusals /\ InvalidSpec # NoError
  /\ Typed("ErrDuplicateBundleName") \in Refusals
  /\ Typed("ErrDuplicateBundleName") # NoError
  /\ Typed("ErrBundleSpecMissingTransport") \in Refusals
  /\ Typed("ErrBundleSpecMissingTransport") # NoError
  /\ NoError \in Refusals
<1>1. /\ Usage.cat = "user" /\ InvalidSpec.cat = "user"
      /\ Typed("ErrDuplicateBundleName").cat = "user"
      /\ Typed("ErrBundleSpecMissingTransport").cat = "user"
      /\ NoError.cat = "nil"
  BY DEF Usage, Plain, InvalidSpec, Typed, UserErrors, KeyErrors, NoError
<1> QED BY <1>1 DEF Refusals

\* First returns an error exactly when a check does, and it is one of theirs.
LEMMA FirstOfChecks ==
  ASSUME NEW checks \in Seq(Refusals)
  PROVE  /\ First(checks) \in Refusals
         /\ First(checks) = NoError <=> \A k \in DOMAIN checks : checks[k] = NoError
<1>1. CASE \A k \in DOMAIN checks : checks[k] = NoError
  BY <1>1, RefusalsAreErrors DEF First
<1>2. CASE ~ \A k \in DOMAIN checks : checks[k] = NoError
  <2> DEFINE T == {k \in DOMAIN checks : checks[k] # NoError}
  <2>1. DOMAIN checks = 1..Len(checks) /\ Len(checks) \in Nat
        /\ \A k \in DOMAIN checks : checks[k] \in Refusals
    OBVIOUS
  <2>2. T \in SUBSET Nat /\ T # {}
    BY <1>2, <2>1
  <2> HIDE DEF T
  <2>3. PICK m \in T : \A k \in T : m <= k
    BY <2>2, LeastOf
  <2>4. m \in DOMAIN checks /\ checks[m] # NoError
    BY <2>3 DEF T
  <2>5. \A h \in 1..(m - 1) : checks[h] = NoError
    <3> SUFFICES ASSUME NEW h \in 1..(m - 1) PROVE checks[h] = NoError
      OBVIOUS
    <3>1. h \in DOMAIN checks /\ ~ (m <= h)
      BY <2>1, <2>4
    <3> QED BY <2>3, <3>1 DEF T
  <2> DEFINE n == CHOOSE k \in DOMAIN checks :
                    checks[k] # NoError /\ \A h \in 1..(k - 1) : checks[h] = NoError
  <2>6. n \in DOMAIN checks /\ checks[n] # NoError
    BY <2>4, <2>5
  <2>7. First(checks) = checks[n]
    BY <1>2 DEF First
  <2> QED BY <1>2, <2>1, <2>6, <2>7
<1> QED BY <1>1, <1>2

\* Some checks in a row.
LEMMA FirstTwo ==
  ASSUME NEW a \in Refusals, NEW b \in Refusals
  PROVE  /\ First(<<a, b>>) \in Refusals
         /\ First(<<a, b>>) = NoError <=> a = NoError /\ b = NoError
<1>1. PICK s : s = <<a, b>>
  OBVIOUS
<1>2. s \in Seq(Refusals) /\ DOMAIN s = 1..2
      /\ s[1] = a /\ s[2] = b
  BY <1>1
<1>3. /\ First(s) \in Refusals
      /\ First(s) = NoError <=> \A k \in 1..2 : s[k] = NoError
  BY <1>2, FirstOfChecks
<1> QED BY ONLY <1>1, <1>2, <1>3

LEMMA FirstThree ==
  ASSUME NEW a \in Refusals, NEW b \in Refusals, NEW c \in Refusals
  PROVE  /\ First(<<a, b, c>>) \in Refusals
         /\ First(<<a, b, c>>) = NoError <=> a = NoError /\ b = NoError /\ c = NoError
<1>1. PICK s : s = <<a, b, c>>
  OBVIOUS
<1>2. s \in Seq(Refusals) /\ DOMAIN s = 1..3
      /\ s[1] = a /\ s[2] = b /\ s[3] = c
  BY <1>1
<1>3. /\ First(s) \in Refusals
      /\ First(s) = NoError <=> \A k \in 1..3 : s[k] = NoError
  BY <1>2, FirstOfChecks
<1> QED BY ONLY <1>1, <1>2, <1>3

LEMMA FirstFour ==
  ASSUME NEW a \in Refusals, NEW b \in Refusals, NEW c \in Refusals,
         NEW d \in Refusals
  PROVE  /\ First(<<a, b, c, d>>) \in Refusals
         /\ First(<<a, b, c, d>>) = NoError <=>
              a = NoError /\ b = NoError /\ c = NoError /\ d = NoError
<1>1. PICK s : s = <<a, b, c, d>>
  OBVIOUS
<1>2. s \in Seq(Refusals) /\ DOMAIN s = 1..4
      /\ s[1] = a /\ s[2] = b /\ s[3] = c /\ s[4] = d
  BY <1>1
<1>3. /\ First(s) \in Refusals
      /\ First(s) = NoError <=> \A k \in 1..4 : s[k] = NoError
  BY <1>2, FirstOfChecks
<1> QED BY ONLY <1>1, <1>2, <1>3

LEMMA FirstFive ==
  ASSUME NEW a \in Refusals, NEW b \in Refusals, NEW c \in Refusals,
         NEW d \in Refusals, NEW e \in Refusals
  PROVE  /\ First(<<a, b, c, d, e>>) \in Refusals
         /\ First(<<a, b, c, d, e>>) = NoError <=>
              a = NoError /\ b = NoError /\ c = NoError /\ d = NoError /\ e = NoError
<1>1. PICK s : s = <<a, b, c, d, e>>
  OBVIOUS
<1>2. s \in Seq(Refusals) /\ DOMAIN s = 1..5
      /\ s[1] = a /\ s[2] = b /\ s[3] = c /\ s[4] = d /\ s[5] = e
  BY <1>1
<1>3. /\ First(s) \in Refusals
      /\ First(s) = NoError <=> \A k \in 1..5 : s[k] = NoError
  BY <1>2, FirstOfChecks
<1> QED BY ONLY <1>1, <1>2, <1>3

LEMMA FirstSix ==
  ASSUME NEW a \in Refusals, NEW b \in Refusals, NEW c \in Refusals,
         NEW d \in Refusals, NEW e \in Refusals, NEW f \in Refusals
  PROVE  /\ First(<<a, b, c, d, e, f>>) \in Refusals
         /\ First(<<a, b, c, d, e, f>>) = NoError <=>
              /\ a = NoError /\ b = NoError /\ c = NoError
              /\ d = NoError /\ e = NoError /\ f = NoError
<1>1. PICK s : s = <<a, b, c, d, e, f>>
  OBVIOUS
<1>2. s \in Seq(Refusals) /\ DOMAIN s = 1..6
      /\ s[1] = a /\ s[2] = b /\ s[3] = c /\ s[4] = d /\ s[5] = e /\ s[6] = f
  BY <1>1
<1>3. /\ First(s) \in Refusals
      /\ First(s) = NoError <=> \A k \in 1..6 : s[k] = NoError
  BY <1>2, FirstOfChecks
<1> QED BY ONLY <1>1, <1>2, <1>3

\* What makes the credentials' flags wrong.
BadCredentials(i) ==
  \/ Cardinality(CredentialSources(i.creds)) > 1
  \/ "malformed creds" \in i.creds
  \/ "username" \in i.creds /\ "password" \notin i.creds

LEMMA OneSource ==
  ASSUME NEW creds
  PROVE  Cardinality(CredentialSources(creds)) > 1 <=>
           ~ \A c, e \in CredentialSources(creds) : c = e
<1> DEFINE S == CredentialSources(creds)
<1>1. IsFiniteSet(S)
  <2>1. S \in SUBSET {"creds", "login", "token", "anonymous"}
    BY DEF CredentialSources
  <2>2. IsFiniteSet({"creds", "login", "token", "anonymous"})
    <3>1. IsFiniteSet({"anonymous"} \cup {"token"} \cup {"login"} \cup {"creds"})
      <4>1. IsFiniteSet({"anonymous"})
        BY FS_Singleton
      <4>2. IsFiniteSet({"anonymous"} \cup {"token"})
        BY <4>1, FS_AddElement
      <4>3. IsFiniteSet({"anonymous"} \cup {"token"} \cup {"login"})
        BY <4>2, FS_AddElement
      <4> QED BY <4>3, FS_AddElement
    <3>2. {"creds", "login", "token", "anonymous"} =
            {"anonymous"} \cup {"token"} \cup {"login"} \cup {"creds"}
      OBVIOUS
    <3> QED BY <3>1, <3>2
  <2> QED BY <2>1, <2>2, FS_Subset
<1> HIDE DEF S
<1>2. Cardinality(S) \in Nat
  BY <1>1, FS_CardinalityType
<1>3. CASE \A c, e \in S : c = e
  <2>1. S = {} \/ \E x : S = {x}
    BY <1>3
  <2>2. Cardinality(S) = 0 \/ Cardinality(S) = 1
    BY <1>1, <2>1, FS_EmptySet, FS_Singleton
  <2> QED BY <1>3, <2>2 DEF S
<1>4. CASE ~ \A c, e \in S : c = e
  <2>1. S # {} /\ ~ \E x : S = {x}
    BY <1>4
  <2>2. Cardinality(S) # 0 /\ Cardinality(S) # 1
    BY <1>1, <2>1, FS_EmptySet, FS_Singleton
  <2> QED BY <1>2, <1>4, <2>2 DEF S
<1> QED BY <1>3, <1>4

LEMMA CredentialsRefused ==
  ASSUME NEW i \in Invocations
  PROVE  /\ CheckCredentials(i) \in Refusals
         /\ CheckCredentials(i) = NoError <=> ~BadCredentials(i)
<1> DEFINE one  == \A c, e \in CredentialSources(i.creds) : c = e
           good == "malformed creds" \notin i.creds
           both == "username" \in i.creds => "password" \in i.creds
<1>1. /\ Unless(one, Usage) \in Refusals /\ (Unless(one, Usage) = NoError <=> one)
      /\ Unless(good, Usage) \in Refusals /\ (Unless(good, Usage) = NoError <=> good)
      /\ Unless(both, Usage) \in Refusals /\ (Unless(both, Usage) = NoError <=> both)
  BY RefusalsAreErrors, UnlessFails
<1>2. CheckCredentials(i) = First(<<Unless(one, Usage), Unless(good, Usage), Unless(both, Usage)>>)
  BY DEF CheckCredentials
<1> HIDE DEF one, good, both
<1> DEFINE a == Unless(one, Usage)
           b == Unless(good, Usage)
           c == Unless(both, Usage)
<1>5. CheckCredentials(i) = First(<<a, b, c>>) /\ {a, b, c} \subseteq Refusals
  BY <1>1, <1>2
<1> HIDE DEF a, b, c
<1>6. /\ First(<<a, b, c>>) \in Refusals
      /\ First(<<a, b, c>>) = NoError <=> a = NoError /\ b = NoError /\ c = NoError
  BY <1>5, FirstThree
<1>3. /\ CheckCredentials(i) \in Refusals
      /\ CheckCredentials(i) = NoError <=> one /\ good /\ both
  BY <1>1, <1>5, <1>6 DEF a, b, c
<1>4. one <=> ~(Cardinality(CredentialSources(i.creds)) > 1)
  BY OneSource DEF one
<1> QED BY <1>3, <1>4 DEF BadCredentials, good, both

\* A key that was given is the one that CHOOSE finds.
LEMMA KeyRefused ==
  ASSUME NEW i \in Invocations
  PROVE  /\ CheckVerify(i) \in Refusals
         /\ CheckVerify(i) = NoError <=> "cosign" \notin i.key
<1>1. CASE i.key = {}
  BY <1>1, RefusalsAreErrors DEF CheckVerify
<1>2. CASE i.key # {}
  <2>1. PICK k \in i.key : k = CHOOSE x \in i.key : TRUE
    BY <1>2
  <2>2. \A h \in i.key : h = k
    BY <2>1, InvocationAssumption
  <2>3. CheckVerify(i) = CheckKey(k)
    BY <1>2, <2>1 DEF CheckVerify
  <2>4. "cosign" \in i.key <=> k = "cosign"
    BY <2>1, <2>2
  <2> QED BY <2>3, <2>4, RefusalsAreErrors DEF Unless, CheckKey
<1> QED BY <1>1, <1>2

LEMMA SigningRefused ==
  ASSUME NEW i \in Invocations
  PROVE  /\ CheckSigning(i) \in Refusals
         /\ CheckSigning(i) = NoError <=> ~i.keyless /\ "cosign" \notin i.key
<1> DEFINE a == Unless(~i.keyless, Usage)
           b == CheckVerify(i)
<1>1. a \in Refusals /\ (a = NoError <=> ~i.keyless)
  BY RefusalsAreErrors DEF Unless
<1>2. b \in Refusals /\ (b = NoError <=> "cosign" \notin i.key)
  BY KeyRefused
<1>3. CheckSigning(i) = First(<<a, b>>)
  BY DEF CheckSigning, CheckVerify
<1> HIDE DEF a, b
<1> QED BY <1>1, <1>2, <1>3, FirstTwo

GoodEncoding(i) ==
  /\ Setting(i, "workers") >= 1
  /\ Setting(i, "candidates") >= 1
  /\ Setting(i, "level") \in 1..22
  /\ Setting(i, "window") \in {AutoWindow} \cup 10..31

LEMMA EncodingRefused ==
  ASSUME NEW i \in Invocations
  PROVE  /\ CheckEncoding(i) \in Refusals
         /\ CheckEncoding(i) = NoError <=> GoodEncoding(i)
<1> DEFINE a == Unless(Setting(i, "workers") >= 1, Usage)
           b == Unless(Setting(i, "candidates") >= 1, Usage)
           c == Unless(Setting(i, "level") \in 1..22, Usage)
           d == Unless(Setting(i, "window") \in {AutoWindow} \cup 10..31, Usage)
<1>1. /\ a \in Refusals /\ (a = NoError <=> Setting(i, "workers") >= 1)
      /\ b \in Refusals /\ (b = NoError <=> Setting(i, "candidates") >= 1)
  BY RefusalsAreErrors DEF Unless
<1>2. /\ c \in Refusals /\ (c = NoError <=> Setting(i, "level") \in 1..22)
      /\ d \in Refusals /\ (d = NoError <=> Setting(i, "window") \in {AutoWindow} \cup 10..31)
  BY RefusalsAreErrors DEF Unless
<1>3. CheckEncoding(i) = First(<<a, b, c, d>>)
  BY DEF CheckEncoding
<1> HIDE DEF a, b, c, d
<1>4. /\ First(<<a, b, c, d>>) \in Refusals
      /\ First(<<a, b, c, d>>) = NoError <=>
           a = NoError /\ b = NoError /\ c = NoError /\ d = NoError
  BY <1>1, <1>2, FirstFour
<1> QED BY <1>1, <1>2, <1>3, <1>4 DEF GoodEncoding

LEMMA SpoolAndKeyRefused ==
  ASSUME NEW i \in Invocations
  PROVE  /\ CheckSpool(i) \in Refusals
         /\ CheckSpool(i) = NoError <=> Setting(i, "budget").n >= 0
         /\ ProbeKey(i) \in Refusals
         /\ ProbeKey(i) = NoError <=> (i.dry /\ ~i.keyless => "unreadable" \notin i.key)
<1>1. Setting(i, "budget").n \in Int /\ i.dry \in BOOLEAN /\ i.keyless \in BOOLEAN
  BY InvocationAssumption
<1> QED BY <1>1, RefusalsAreErrors DEF Unless, CheckSpool, ProbeKey

LEMMA ReferencesRefused ==
  ASSUME NEW i \in Invocations
  PROVE  /\ CheckReferences(i) \in Refusals
         /\ CheckReferences(i) = NoError <=>
              {i.pairs[1].baseline, i.pairs[1].target} \cap BadRef = {}
<1> DEFINE a == CheckRef(i.pairs[1].baseline)
           b == CheckRef(i.pairs[1].target)
<1>1. /\ a \in Refusals /\ (a = NoError <=> i.pairs[1].baseline \notin BadRef)
      /\ b \in Refusals /\ (b = NoError <=> i.pairs[1].target \notin BadRef)
  BY RefusalsAreErrors DEF Unless, CheckRef
<1>2. CheckReferences(i) = First(<<a, b>>)
  BY DEF CheckReferences
<1> HIDE DEF a, b
<1>3. /\ First(<<a, b>>) \in Refusals
      /\ First(<<a, b>>) = NoError <=> a = NoError /\ b = NoError
  BY <1>1, FirstTwo
<1> QED BY <1>1, <1>2, <1>3

\* One pair of a bundle specification.
GoodPair(pairs, i) ==
  /\ pairs[i].name # "bad name"
  /\ \A h \in 1..(i - 1) : pairs[h].name # pairs[i].name
  /\ {pairs[i].baseline, pairs[i].target} \cap (BadRef \ {"reserved"}) = {}

LEMMA PairRefused ==
  ASSUME NEW pairs, NEW i
  PROVE  /\ CheckPair(pairs, i) \in Refusals
         /\ CheckPair(pairs, i) = NoError <=> GoodPair(pairs, i)
<1> DEFINE new == \A h \in 1..(i - 1) : pairs[h].name # pairs[i].name
           p == pairs[i]
           a == Unless(p.name # "bad name", InvalidSpec)
           b == Unless(new, Typed("ErrDuplicateBundleName"))
           c == Unless(p.baseline # "" /\ p.target # "", InvalidSpec)
           d == Unless(CheckTransport(p.baseline), Typed("ErrBundleSpecMissingTransport"))
           e == Unless(CheckTransport(p.target), Typed("ErrBundleSpecMissingTransport"))
<1>1. /\ a \in Refusals /\ (a = NoError <=> p.name # "bad name")
      /\ b \in Refusals /\ (b = NoError <=> new)
  BY RefusalsAreErrors DEF Unless
<1>2. c \in Refusals /\ (c = NoError <=> p.baseline # "" /\ p.target # "")
  BY RefusalsAreErrors DEF Unless
<1>3. /\ d \in Refusals /\ (d = NoError <=> p.baseline \notin BadRef \ {"reserved"})
      /\ e \in Refusals /\ (e = NoError <=> p.target \notin BadRef \ {"reserved"})
  BY RefusalsAreErrors DEF Unless, CheckTransport
<1>4. CheckPair(pairs, i) = First(<<a, b, c, d, e>>)
  BY DEF CheckPair
<1> HIDE DEF a, b, c, d, e
<1>5. /\ First(<<a, b, c, d, e>>) \in Refusals
      /\ First(<<a, b, c, d, e>>) = NoError <=>
           a = NoError /\ b = NoError /\ c = NoError /\ d = NoError /\ e = NoError
  <2>1. a \in Refusals /\ b \in Refusals /\ c \in Refusals /\ d \in Refusals /\ e \in Refusals
    BY <1>1, <1>2, <1>3
  <2> QED BY ONLY <2>1, FirstFive
<1>6. "" \in BadRef \ {"reserved"}
  BY DEF BadRef
<1>7. (c = NoError /\ d = NoError /\ e = NoError) <=>
        {p.baseline, p.target} \cap (BadRef \ {"reserved"}) = {}
  BY <1>2, <1>3, <1>6
<1> QED BY <1>1, <1>4, <1>5, <1>7 DEF GoodPair

\* A check in front of a row of checks, as many as there are pairs.
LEMMA FirstOfJoined ==
  ASSUME NEW a \in Refusals, NEW n \in Nat, NEW row \in [1..n -> Refusals]
  PROVE  /\ <<a>> \o row \in Seq(Refusals)
         /\ First(<<a>> \o row) \in Refusals
         /\ First(<<a>> \o row) = NoError <=>
              a = NoError /\ \A k \in 1..n : row[k] = NoError
<1>1. PICK s : s = <<a>> \o row
  OBVIOUS
<1>2. row \in Seq(Refusals) /\ Len(row) = n
  OBVIOUS
<1>a. PICK one : one = <<a>>
  OBVIOUS
<1>3. one \in Seq(Refusals) /\ Len(one) = 1 /\ one[1] = a
  BY <1>a
<1>4. s = one \o row
  BY <1>1, <1>a
<1>5. s \in Seq(Refusals) /\ Len(s) = n + 1
      /\ s[1] = a /\ \A k \in 1..n : s[k + 1] = row[k]
  <2>1. /\ s \in Seq(Refusals) /\ Len(s) = 1 + n
        /\ \A k \in 1..(1 + n) : s[k] = IF k <= 1 THEN one[k] ELSE row[k - 1]
    <3>1. /\ one \o row \in Seq(Refusals) /\ Len(one \o row) = Len(one) + Len(row)
          /\ \A k \in 1..(Len(one) + Len(row)) :
               (one \o row)[k] = IF k <= Len(one) THEN one[k] ELSE row[k - Len(one)]
      BY ONLY <1>2, <1>3, ConcatProperties
    <3> QED BY ONLY <1>2, <1>3, <1>4, <3>1
  <2>2. \A k \in 1..n : k + 1 \in 1..(1 + n) /\ ~(k + 1 <= 1) /\ (k + 1) - 1 = k
    OBVIOUS
  <2>3. 1 \in 1..(1 + n) /\ n + 1 = 1 + n
    OBVIOUS
  <2> QED BY ONLY <1>3, <2>1, <2>2, <2>3
<1>6. /\ First(s) \in Refusals
      /\ First(s) = NoError <=> \A k \in 1..(n + 1) : s[k] = NoError
  BY <1>5, FirstOfChecks
<1>7. (\A k \in 1..(n + 1) : s[k] = NoError) <=>
        a = NoError /\ \A k \in 1..n : row[k] = NoError
  <2>1. ASSUME \A k \in 1..(n + 1) : s[k] = NoError
        PROVE  a = NoError /\ \A k \in 1..n : row[k] = NoError
    BY ONLY <1>5, <2>1, n \in Nat
  <2>2. ASSUME a = NoError, \A k \in 1..n : row[k] = NoError,
               NEW k \in 1..(n + 1)
        PROVE  s[k] = NoError
    <3>1. CASE k = 1
      BY <1>5, <2>2, <3>1
    <3>2. CASE k # 1
      <4>1. k - 1 \in 1..n /\ (k - 1) + 1 = k
        BY <3>2
      <4> QED BY <1>5, <2>2, <4>1
    <3> QED BY <3>1, <3>2
  <2> QED BY <2>1, <2>2
<1> QED BY <1>1, <1>5, <1>6, <1>7

Pairs(i) == 1..Len(i.pairs)

LEMMA DocumentRefused ==
  ASSUME NEW i \in Invocations
  PROVE  /\ CheckDocument(i) \in Refusals
         /\ CheckDocument(i) = NoError <=> i.defect \notin SpecDefect /\ i.pairs # <<>>
BY RefusalsAreErrors DEF CheckDocument, Unless

LEMMA BundleSpecRefused ==
  ASSUME NEW i \in Invocations
  PROVE  /\ CheckBundleSpec(i) \in Refusals
         /\ CheckBundleSpec(i) = NoError <=>
              /\ i.defect \notin SpecDefect /\ i.pairs # <<>>
              /\ \A k \in Pairs(i) : GoodPair(i.pairs, k)
<1> DEFINE u   == CheckDocument(i)
           row == [k \in DOMAIN i.pairs |-> CheckPair(i.pairs, k)]
<1>1. u \in Refusals /\ (u = NoError <=> i.defect \notin SpecDefect /\ i.pairs # <<>>)
  BY DocumentRefused
<1>2. PICK n \in Nat : n = Len(i.pairs) /\ DOMAIN i.pairs = 1..n
  BY InvocationAssumption
<1>3. row \in [1..n -> Refusals] /\ \A k \in 1..n : row[k] = CheckPair(i.pairs, k)
  BY <1>2, PairRefused
<1>4. CheckBundleSpec(i) = First(<<u>> \o row)
  BY DEF CheckBundleSpec
<1> HIDE DEF u, row
<1>5. /\ First(<<u>> \o row) \in Refusals
      /\ First(<<u>> \o row) = NoError <=> u = NoError /\ \A k \in 1..n : row[k] = NoError
  BY <1>1, <1>3, FirstOfJoined
<1> QED BY <1>1, <1>2, <1>3, <1>4, <1>5, PairRefused DEF Pairs

\* One entry of a baseline and an output specification.
GoodNames(p) ==
  p.name # "bad name" /\ {p.baseline, p.target} \cap (BadRef \ {"reserved"}) = {}

LEMMA NamesRefused ==
  ASSUME NEW i \in Invocations
  PROVE  /\ CheckNames(i) \in Refusals
         /\ CheckNames(i) = NoError <=>
              /\ i.defect \notin SpecDefect /\ i.pairs # <<>>
              /\ \A k \in Pairs(i) : GoodNames(i.pairs[k])
<1> DEFINE u == CheckDocument(i)
           row == [k \in DOMAIN i.pairs |->
                     Unless(i.pairs[k].name # "bad name"
                              /\ CheckTransport(i.pairs[k].baseline), InvalidSpec)]
           outputs == [k \in DOMAIN i.pairs |->
                         Unless(CheckTransport(i.pairs[k].target), InvalidSpec)]
<1>1. u \in Refusals /\ (u = NoError <=> i.defect \notin SpecDefect /\ i.pairs # <<>>)
  BY DocumentRefused
<1>2. PICK n \in Nat : n = Len(i.pairs) /\ DOMAIN i.pairs = 1..n
  BY InvocationAssumption
<1>3. row \in [1..n -> Refusals] /\
      \A k \in 1..n : row[k] = NoError <=>
        i.pairs[k].name # "bad name" /\ i.pairs[k].baseline \notin BadRef \ {"reserved"}
  BY <1>2, RefusalsAreErrors DEF Unless, CheckTransport
<1>4. outputs \in [1..n -> Refusals] /\
      \A k \in 1..n : outputs[k] = NoError <=> i.pairs[k].target \notin BadRef \ {"reserved"}
  BY <1>2, RefusalsAreErrors DEF Unless, CheckTransport
<1>5. CheckNames(i) = First((<<u>> \o row) \o outputs)
  BY DEF CheckNames
<1> HIDE DEF u, row, outputs
<1>6. PICK both : both = [k \in 1..(n + n) |-> IF k <= n THEN row[k] ELSE outputs[k - n]]
  OBVIOUS
<1>7. both \in [1..(n + n) -> Refusals] /\ n + n \in Nat
  <2>1. row \in [1..n -> Refusals] /\ outputs \in [1..n -> Refusals]
    BY <1>3, <1>4
  <2> QED BY ONLY <1>6, <2>1, n \in Nat
<1>8. row \in Seq(Refusals) /\ outputs \in Seq(Refusals) /\ Len(row) = n /\ Len(outputs) = n
  <2>1. row \in [1..n -> Refusals] /\ outputs \in [1..n -> Refusals]
    BY <1>3, <1>4
  <2> QED BY ONLY <2>1, n \in Nat
<1>9. row \o outputs = both
  <2>1. /\ row \o outputs \in Seq(Refusals) /\ Len(row \o outputs) = n + n
        /\ \A k \in 1..(n + n) :
             (row \o outputs)[k] = IF k <= n THEN row[k] ELSE outputs[k - n]
    BY ONLY <1>8, ConcatProperties
  <2>2. both \in Seq(Refusals) /\ Len(both) = n + n
    BY ONLY <1>7
  <2> QED BY ONLY <1>6, <2>1, <2>2, SeqEqual
<1>10. (<<u>> \o row) \o outputs = <<u>> \o both
  <2>1. PICK one : one = <<u>>
    OBVIOUS
  <2>3. one \in Seq(Refusals)
    BY <1>1, <2>1
  <2>2. (one \o row) \o outputs = one \o (row \o outputs)
    BY ONLY <1>8, <2>3, ConcatAssociative
  <2> QED BY <1>9, <2>1, <2>2
<1>11. /\ First(<<u>> \o both) \in Refusals
       /\ First(<<u>> \o both) = NoError <=>
            u = NoError /\ \A k \in 1..(n + n) : both[k] = NoError
  BY <1>1, <1>7, FirstOfJoined
<1>12. (\A k \in 1..(n + n) : both[k] = NoError) <=>
         \A k \in 1..n : row[k] = NoError /\ outputs[k] = NoError
  <2>1. ASSUME \A k \in 1..(n + n) : both[k] = NoError, NEW k \in 1..n
        PROVE  row[k] = NoError /\ outputs[k] = NoError
    <3>1. k \in 1..(n + n) /\ k + n \in 1..(n + n) /\ k <= n /\ ~(k + n <= n)
          /\ (k + n) - n = k
      OBVIOUS
    <3> QED BY <1>6, <2>1, <3>1
  <2>2. ASSUME \A k \in 1..n : row[k] = NoError /\ outputs[k] = NoError,
               NEW k \in 1..(n + n)
        PROVE  both[k] = NoError
    <3>1. CASE k <= n
      BY <1>6, <2>2, <3>1
    <3>2. CASE ~(k <= n)
      <4>1. k - n \in 1..n
        BY <3>2
      <4> QED BY <1>6, <2>2, <3>2, <4>1
    <3> QED BY <3>1, <3>2
  <2> QED BY <2>1, <2>2
<1>13. \A k \in 1..n : (row[k] = NoError /\ outputs[k] = NoError) <=> GoodNames(i.pairs[k])
  BY <1>3, <1>4 DEF GoodNames
<1> QED BY <1>1, <1>2, <1>5, <1>10, <1>11, <1>12, <1>13 DEF Pairs

\* What is wrong with an invocation, verb by verb.
ExportsWrongly(i) ==
  \/ BadCredentials(i) \/ "cosign" \in i.key \/ Setting(i, "budget").n < 0
  \/ i.keyless
  \/ i.dry /\ "unreadable" \in i.key
  \/ ~GoodEncoding(i)

ImportsWrongly(i) ==
  BadCredentials(i) \/ "cosign" \in i.key \/ Setting(i, "budget").n < 0

BadReferences(i) == {i.pairs[1].baseline, i.pairs[1].target} \cap BadRef # {}

LEMMA DiffRefused ==
  ASSUME NEW i \in Invocations
  PROVE  /\ DiffOptions(i) \in Refusals
         /\ DiffOptions(i) = NoError <=> ~(BadReferences(i) \/ ExportsWrongly(i))
<1> DEFINE a == CheckReferences(i)
           b == CheckCredentials(i)
           c == CheckSigning(i)
           d == CheckEncoding(i)
           e == CheckSpool(i)
           f == ProbeKey(i)
<1>1. DiffOptions(i) = First(<<a, b, c, d, e, f>>)
  BY DEF DiffOptions
<1>2. /\ a \in Refusals /\ (a = NoError <=> ~BadReferences(i))
      /\ b \in Refusals /\ (b = NoError <=> ~BadCredentials(i))
      /\ c \in Refusals /\ (c = NoError <=> ~i.keyless /\ "cosign" \notin i.key)
  BY ReferencesRefused, CredentialsRefused, SigningRefused DEF BadReferences
<1>3. /\ d \in Refusals /\ (d = NoError <=> GoodEncoding(i))
      /\ e \in Refusals /\ (e = NoError <=> Setting(i, "budget").n >= 0)
      /\ f \in Refusals
      /\ f = NoError <=> (i.dry /\ ~i.keyless => "unreadable" \notin i.key)
  BY EncodingRefused, SpoolAndKeyRefused
<1> HIDE DEF a, b, c, d, e, f
<1>4. /\ First(<<a, b, c, d, e, f>>) \in Refusals
      /\ First(<<a, b, c, d, e, f>>) = NoError <=>
           /\ a = NoError /\ b = NoError /\ c = NoError
           /\ d = NoError /\ e = NoError /\ f = NoError
  BY ONLY <1>2, <1>3, FirstSix
<1>5. (Setting(i, "budget").n >= 0) <=> ~(Setting(i, "budget").n < 0)
  BY InvocationAssumption
<1> QED BY <1>1, <1>2, <1>3, <1>4, <1>5 DEF ExportsWrongly

GoodSpec(i) ==
  /\ i.defect \notin SpecDefect /\ i.pairs # <<>>
  /\ \A k \in Pairs(i) : GoodPair(i.pairs, k)

LEMMA BundleRefused ==
  ASSUME NEW i \in Invocations
  PROVE  /\ BundleOptions(i) \in Refusals
         /\ BundleOptions(i) = NoError <=> ~(~GoodSpec(i) \/ ExportsWrongly(i))
<1> DEFINE a == CheckBundleSpec(i)
           b == CheckCredentials(i)
           c == CheckSigning(i)
           d == CheckEncoding(i)
           e == CheckSpool(i)
           f == ProbeKey(i)
<1>1. BundleOptions(i) = First(<<a, b, c, d, e, f>>)
  BY DEF BundleOptions
<1>2. /\ a \in Refusals /\ (a = NoError <=> GoodSpec(i))
      /\ b \in Refusals /\ (b = NoError <=> ~BadCredentials(i))
      /\ c \in Refusals /\ (c = NoError <=> ~i.keyless /\ "cosign" \notin i.key)
  BY BundleSpecRefused, CredentialsRefused, SigningRefused DEF GoodSpec
<1>3. /\ d \in Refusals /\ (d = NoError <=> GoodEncoding(i))
      /\ e \in Refusals /\ (e = NoError <=> Setting(i, "budget").n >= 0)
      /\ f \in Refusals
      /\ f = NoError <=> (i.dry /\ ~i.keyless => "unreadable" \notin i.key)
  BY EncodingRefused, SpoolAndKeyRefused
<1> HIDE DEF a, b, c, d, e, f
<1>4. /\ First(<<a, b, c, d, e, f>>) \in Refusals
      /\ First(<<a, b, c, d, e, f>>) = NoError <=>
           /\ a = NoError /\ b = NoError /\ c = NoError
           /\ d = NoError /\ e = NoError /\ f = NoError
  BY ONLY <1>2, <1>3, FirstSix
<1>5. (Setting(i, "budget").n >= 0) <=> ~(Setting(i, "budget").n < 0)
  BY InvocationAssumption
<1> QED BY <1>1, <1>2, <1>3, <1>4, <1>5 DEF ExportsWrongly

GoodLists(i) ==
  /\ i.defect \notin SpecDefect /\ i.pairs # <<>>
  /\ \A k \in Pairs(i) : GoodNames(i.pairs[k])

LEMMA ApplyRefused ==
  ASSUME NEW i \in Invocations
  PROVE  /\ ApplyOptions(i) \in Refusals
         /\ ApplyOptions(i) = NoError <=> ~(BadReferences(i) \/ ImportsWrongly(i))
         /\ UnbundleOptions(i) \in Refusals
         /\ UnbundleOptions(i) = NoError <=> ~(~GoodLists(i) \/ ImportsWrongly(i))
<1> DEFINE a == CheckReferences(i)
           n == CheckNames(i)
           b == CheckCredentials(i)
           c == CheckVerify(i)
           d == CheckSpool(i)
<1>1. /\ ApplyOptions(i) = First(<<a, b, c, d>>)
      /\ UnbundleOptions(i) = First(<<n, b, c, d>>)
  BY DEF ApplyOptions, UnbundleOptions
<1>2. /\ a \in Refusals /\ (a = NoError <=> ~BadReferences(i))
      /\ n \in Refusals /\ (n = NoError <=> GoodLists(i))
      /\ b \in Refusals /\ (b = NoError <=> ~BadCredentials(i))
  BY ReferencesRefused, NamesRefused, CredentialsRefused DEF BadReferences, GoodLists
<1>3. /\ c \in Refusals /\ (c = NoError <=> "cosign" \notin i.key)
      /\ d \in Refusals /\ (d = NoError <=> Setting(i, "budget").n >= 0)
  BY KeyRefused, SpoolAndKeyRefused
<1> HIDE DEF a, b, c, d, n
<1>4. /\ First(<<a, b, c, d>>) \in Refusals
      /\ First(<<a, b, c, d>>) = NoError <=>
           a = NoError /\ b = NoError /\ c = NoError /\ d = NoError
  BY ONLY <1>2, <1>3, FirstFour
<1>5. /\ First(<<n, b, c, d>>) \in Refusals
      /\ First(<<n, b, c, d>>) = NoError <=>
           n = NoError /\ b = NoError /\ c = NoError /\ d = NoError
  BY ONLY <1>2, <1>3, FirstFour
<1>6. (Setting(i, "budget").n >= 0) <=> ~(Setting(i, "budget").n < 0)
  BY InvocationAssumption
<1> QED BY <1>1, <1>2, <1>3, <1>4, <1>5, <1>6 DEF ImportsWrongly

\* The pairs of a bundle specification fail one by one exactly when one of them
\* is wrong in itself or two have a name in common.
LEMMA PairsWrong ==
  ASSUME NEW i \in Invocations
  PROVE  ~GoodSpec(i) <=>
           \/ i.defect \in SpecDefect \/ i.pairs = <<>>
           \/ \E k \in DOMAIN i.pairs :
                \/ i.pairs[k].name = "bad name"
                \/ {i.pairs[k].baseline, i.pairs[k].target} \cap (BadRef \ {"reserved"}) # {}
           \/ \E k, h \in DOMAIN i.pairs : k # h /\ i.pairs[k].name = i.pairs[h].name
<1>1. PICK n \in Nat : n = Len(i.pairs) /\ DOMAIN i.pairs = 1..n
  BY InvocationAssumption
<1>2. ASSUME NEW k \in 1..n, NEW h \in 1..n, k # h, i.pairs[k].name = i.pairs[h].name
      PROVE  ~GoodSpec(i)
  <2>1. CASE k < h
    <3>1. k \in 1..(h - 1)
      BY <2>1
    <3> QED BY <1>1, <1>2, <3>1 DEF GoodSpec, GoodPair, Pairs
  <2>2. CASE h < k
    <3>1. h \in 1..(k - 1)
      BY <2>2
    <3> QED BY <1>1, <1>2, <3>1 DEF GoodSpec, GoodPair, Pairs
  <2> QED BY <1>2, <2>1, <2>2
<1>3. ASSUME NEW k \in 1..n, NEW h \in 1..(k - 1), i.pairs[h].name = i.pairs[k].name
      PROVE  \E x, y \in 1..n : x # y /\ i.pairs[x].name = i.pairs[y].name
  <2>1. h \in 1..n /\ h # k
    OBVIOUS
  <2> QED BY <1>3, <2>1
<1> QED BY <1>1, <1>2, <1>3 DEF GoodSpec, GoodPair, Pairs

\* What Parse looks at after the types of the flags' values, in the order it does.
Refusal == First(<<CheckArguments(inv), PreRun(inv), Options(inv)>>)

Untyped == ~inv.typed /\ inv.verb \notin Removed

\* The checks of a verb turn away exactly what is misused.
LEMMA MisuseIsRefused ==
  ASSUME inv \in Invocations, ~Untyped
  PROVE  /\ Refusal \in Refusals
         /\ Refusal = NoError <=> ~Noticed
<1>1. PICK i \in Invocations : i = inv
  OBVIOUS
<1>2. /\ i.verb \in Verb
      /\ i.arguments \in BOOLEAN /\ i.config.reads \in BOOLEAN
      /\ Setting(i, "workers") \in Int /\ Setting(i, "candidates") \in Int
  BY InvocationAssumption
<1> DEFINE a == CheckArguments(i)
           b == Unless(i.format \in {"text", "json"}, Usage)
           c == LoadConfig(i)
           d == Options(i)
<1>3. /\ a \in Refusals /\ (a = NoError <=> i.arguments)
      /\ b \in Refusals /\ (b = NoError <=> i.format \in {"text", "json"})
      /\ c \in Refusals /\ (c = NoError <=> i.verb = "doctor" \/ i.config.reads)
  BY <1>2, RefusalsAreErrors DEF CheckArguments, LoadConfig, Unless
<1> DEFINE Wrong ==
      \/ i.verb = "diff" /\ (BadReferences(i) \/ ExportsWrongly(i))
      \/ i.verb = "bundle" /\ (~GoodSpec(i) \/ ExportsWrongly(i))
      \/ i.verb = "apply" /\ (BadReferences(i) \/ ImportsWrongly(i))
      \/ i.verb = "unbundle" /\ (~GoodLists(i) \/ ImportsWrongly(i))
      \/ i.verb \in Removed
<1>4. d \in Refusals /\ (d = NoError <=> ~Wrong)
  <2>1. CASE i.verb = "diff"
    BY <2>1, DiffRefused DEF Options, Removed
  <2>2. CASE i.verb = "bundle"
    BY <2>2, BundleRefused DEF Options, Removed
  <2>3. CASE i.verb = "apply"
    BY <2>3, ApplyRefused DEF Options, Removed
  <2>4. CASE i.verb = "unbundle"
    BY <2>4, ApplyRefused DEF Options, Removed
  <2>5. CASE i.verb = "doctor"
    BY <2>5, RefusalsAreErrors DEF Options, Removed
  <2>6. CASE i.verb \in Removed
    BY <2>6, RefusalsAreErrors DEF Options, Removed
  <2> QED BY <1>2, <2>1, <2>2, <2>3, <2>4, <2>5, <2>6
           DEF Verb, Exporting, Importing, Removed
<1>5. Refusal = First(<<a, First(<<b, c>>), d>>)
  BY <1>1 DEF Refusal, PreRun
<1> DEFINE bc == First(<<b, c>>)
<1> HIDE DEF a, b, c, d, Wrong
<1>6. bc \in Refusals /\ (bc = NoError <=> b = NoError /\ c = NoError)
  BY ONLY <1>3, FirstTwo
<1>7. Refusal = First(<<a, bc, d>>)
  BY <1>5
<1> HIDE DEF bc
<1>8. /\ First(<<a, bc, d>>) \in Refusals
      /\ First(<<a, bc, d>>) = NoError <=> a = NoError /\ bc = NoError /\ d = NoError
  BY ONLY <1>3, <1>4, <1>6, FirstThree
<1>9. Noticed <=>
        ~i.arguments \/ i.format \notin {"text", "json"}
          \/ (i.verb # "doctor" /\ ~i.config.reads) \/ Wrong
  <2>1. ExportsWrongly(i) <=>
          \/ Cardinality(CredentialSources(i.creds)) > 1
          \/ "malformed creds" \in i.creds
          \/ "username" \in i.creds /\ "password" \notin i.creds
          \/ "cosign" \in i.key
          \/ Setting(i, "budget").n < 0
          \/ i.keyless
          \/ i.dry /\ "unreadable" \in i.key
          \/ Setting(i, "workers") < 1
          \/ Setting(i, "candidates") < 1
          \/ Setting(i, "level") \notin 1..22
          \/ Setting(i, "window") \notin {AutoWindow} \cup 10..31
    <3>1. /\ (Setting(i, "workers") >= 1) <=> ~(Setting(i, "workers") < 1)
          /\ (Setting(i, "candidates") >= 1) <=> ~(Setting(i, "candidates") < 1)
      BY <1>2
    <3> QED BY ONLY <3>1 DEF ExportsWrongly, BadCredentials, GoodEncoding
  <2>2. ImportsWrongly(i) <=>
          \/ Cardinality(CredentialSources(i.creds)) > 1
          \/ "malformed creds" \in i.creds
          \/ "username" \in i.creds /\ "password" \notin i.creds
          \/ "cosign" \in i.key
          \/ Setting(i, "budget").n < 0
    BY DEF ImportsWrongly, BadCredentials
  <2>3. ~GoodLists(i) <=>
          \/ i.defect \in SpecDefect \/ i.pairs = <<>>
          \/ \E k \in DOMAIN i.pairs :
               \/ i.pairs[k].name = "bad name"
               \/ {i.pairs[k].baseline, i.pairs[k].target} \cap (BadRef \ {"reserved"}) # {}
    BY InvocationAssumption DEF GoodLists, GoodNames, Pairs
  <2>4. i.verb \in {"diff", "bundle", "apply", "unbundle", "doctor"} \cup Removed
    BY <1>2 DEF Verb, Exporting, Importing
  <2>5. CASE i.verb = "diff"
    BY <1>1, <2>1, <2>5 DEF Noticed, Untyped, Wrong, BadReferences, Exporting, Importing, Removed
  <2>6. CASE i.verb = "bundle"
    BY <1>1, <2>1, <2>6, PairsWrong DEF Noticed, Untyped, Wrong, Exporting, Importing, Removed
  <2>7. CASE i.verb = "apply"
    BY <1>1, <2>2, <2>7 DEF Noticed, Untyped, Wrong, BadReferences, Exporting, Importing, Removed
  <2>8. CASE i.verb = "unbundle"
    BY <1>1, <2>2, <2>3, <2>8 DEF Noticed, Untyped, Wrong, Exporting, Importing, Removed
  <2>9. CASE i.verb = "doctor"
    BY <1>1, <2>9 DEF Noticed, Untyped, Wrong, Exporting, Importing, Removed
  <2>10. CASE i.verb \in Removed
    BY <1>1, <2>10 DEF Noticed, Untyped, Wrong, Exporting, Importing, Removed
  <2> QED BY <2>4, <2>5, <2>6, <2>7, <2>8, <2>9, <2>10
<1> QED BY <1>3, <1>4, <1>6, <1>7, <1>8, <1>9

\* First passes over a check that passed.
LEMMA FirstSkips ==
  ASSUME NEW a, NEW b, NEW c
  PROVE  First(<<NoError, a, b, c>>) = First(<<a, b, c>>)
<1>1. PICK s : s = <<NoError, a, b, c>>
  OBVIOUS
<1>2. PICK r : r = <<a, b, c>>
  OBVIOUS
<1>3. /\ DOMAIN s = 1..4 /\ s[1] = NoError /\ s[2] = a /\ s[3] = b /\ s[4] = c
      /\ DOMAIN r = 1..3 /\ r[1] = a /\ r[2] = b /\ r[3] = c
  BY <1>1, <1>2
<1>4. First(s) = IF a # NoError THEN a ELSE IF b # NoError THEN b ELSE c
  <2> DEFINE n == CHOOSE k \in DOMAIN s :
                    s[k] # NoError /\ \A h \in 1..(k - 1) : s[h] = NoError
  <2>1. CASE a # NoError
    <3>1. 2 \in DOMAIN s /\ s[2] # NoError /\ \A h \in 1..(2 - 1) : s[h] = NoError
      BY <1>3, <2>1
    <3>2. n \in 1..4 /\ s[n] # NoError /\ \A h \in 1..(n - 1) : s[h] = NoError
      BY <1>3, <3>1
    <3>3. First(s) = s[n]
      BY <3>1 DEF First
    <3> HIDE DEF n
    <3>4. n = 2
      <4>1. n # 1
        BY <1>3, <3>2
      <4>2. n \in 3..4 => 2 \in 1..(n - 1)
        OBVIOUS
      <4> QED BY <3>1, <3>2, <4>1, <4>2
    <3> QED BY <1>3, <2>1, <3>3, <3>4
  <2>2. CASE a = NoError /\ b # NoError
    <3>1. 3 \in DOMAIN s /\ s[3] # NoError /\ \A h \in 1..(3 - 1) : s[h] = NoError
      BY <1>3, <2>2
    <3>2. n \in 1..4 /\ s[n] # NoError /\ \A h \in 1..(n - 1) : s[h] = NoError
      BY <1>3, <3>1
    <3>3. First(s) = s[n]
      BY <3>1 DEF First
    <3> HIDE DEF n
    <3>4. n = 3
      <4>1. n # 1 /\ n # 2
        BY <1>3, <2>2, <3>2
      <4>2. n = 4 => 3 \in 1..(n - 1)
        OBVIOUS
      <4> QED BY <3>1, <3>2, <4>1, <4>2
    <3> QED BY <1>3, <2>2, <3>3, <3>4
  <2>3. CASE a = NoError /\ b = NoError /\ c # NoError
    <3>1. 4 \in DOMAIN s /\ s[4] # NoError /\ \A h \in 1..(4 - 1) : s[h] = NoError
      BY <1>3, <2>3
    <3>2. n \in 1..4 /\ s[n] # NoError
      BY <1>3, <3>1
    <3>3. First(s) = s[n]
      BY <3>1 DEF First
    <3> HIDE DEF n
    <3>4. n = 4
      BY <1>3, <2>3, <3>2
    <3> QED BY <1>3, <2>3, <3>3, <3>4
  <2>4. CASE a = NoError /\ b = NoError /\ c = NoError
    BY <1>3, <2>4 DEF First
  <2> QED BY <2>1, <2>2, <2>3, <2>4
<1>5. First(r) = IF a # NoError THEN a ELSE IF b # NoError THEN b ELSE c
  <2> DEFINE n == CHOOSE k \in DOMAIN r :
                    r[k] # NoError /\ \A h \in 1..(k - 1) : r[h] = NoError
  <2>1. CASE a # NoError
    <3>1. 1 \in DOMAIN r /\ r[1] # NoError /\ \A h \in 1..(1 - 1) : r[h] = NoError
      BY <1>3, <2>1
    <3>2. n \in 1..3 /\ r[n] # NoError /\ \A h \in 1..(n - 1) : r[h] = NoError
      BY <1>3, <3>1
    <3>3. First(r) = r[n]
      BY <3>1 DEF First
    <3> HIDE DEF n
    <3>4. n = 1
      <4>1. n \in 2..3 => 1 \in 1..(n - 1)
        OBVIOUS
      <4> QED BY <3>1, <3>2, <4>1
    <3> QED BY <1>3, <2>1, <3>3, <3>4
  <2>2. CASE a = NoError /\ b # NoError
    <3>1. 2 \in DOMAIN r /\ r[2] # NoError /\ \A h \in 1..(2 - 1) : r[h] = NoError
      BY <1>3, <2>2
    <3>2. n \in 1..3 /\ r[n] # NoError /\ \A h \in 1..(n - 1) : r[h] = NoError
      BY <1>3, <3>1
    <3>3. First(r) = r[n]
      BY <3>1 DEF First
    <3> HIDE DEF n
    <3>4. n = 2
      <4>1. n # 1
        BY <1>3, <2>2, <3>2
      <4>2. n = 3 => 2 \in 1..(n - 1)
        OBVIOUS
      <4> QED BY <3>1, <3>2, <4>1, <4>2
    <3> QED BY <1>3, <2>2, <3>3, <3>4
  <2>3. CASE a = NoError /\ b = NoError /\ c # NoError
    <3>1. 3 \in DOMAIN r /\ r[3] # NoError /\ \A h \in 1..(3 - 1) : r[h] = NoError
      BY <1>3, <2>3
    <3>2. n \in 1..3 /\ r[n] # NoError
      BY <1>3, <3>1
    <3>3. First(r) = r[n]
      BY <3>1 DEF First
    <3> HIDE DEF n
    <3>4. n = 3
      BY <1>3, <2>3, <3>2
    <3> QED BY <1>3, <2>3, <3>3, <3>4
  <2>4. CASE a = NoError /\ b = NoError /\ c = NoError
    BY <1>3, <2>4 DEF First
  <2> QED BY <2>1, <2>2, <2>3, <2>4
<1> QED BY <1>1, <1>2, <1>4, <1>5

\* A value of the wrong type is noticed before all else, and is no user's error.
LEMMA UntypedFirst ==
  ASSUME Untyped, NEW a, NEW b, NEW c
  PROVE  First(<<CheckTypes(inv), a, b, c>>) = Plain /\ Plain # NoError
<1>1. PICK s : s = <<CheckTypes(inv), a, b, c>>
  OBVIOUS
<1>2. DOMAIN s = 1..4 /\ s[1] = Plain
  BY <1>1 DEF CheckTypes, Unless, Untyped
<1>3. Plain # NoError
  <2>1. Plain.cat = "none" /\ NoError.cat = "nil"
    BY DEF Plain, NoError
  <2> QED BY <2>1
<1> DEFINE n == CHOOSE k \in DOMAIN s :
                  s[k] # NoError /\ \A h \in 1..(k - 1) : s[h] = NoError
<1>4. 1 \in DOMAIN s /\ s[1] # NoError /\ \A h \in 1..(1 - 1) : s[h] = NoError
  BY <1>2, <1>3
<1>5. n \in 1..4 /\ \A h \in 1..(n - 1) : s[h] = NoError
  BY <1>2, <1>4
<1>6. First(s) = s[n]
  BY <1>4 DEF First
<1> HIDE DEF n
<1>7. n = 1
  <2>1. n # 1 => 1 \in 1..(n - 1)
    BY <1>5
  <2> QED BY <1>4, <1>5, <2>1
<1> QED BY <1>1, <1>2, <1>3, <1>6, <1>7

LEMMA PlainIsInternal == Exit(Plain) = 1
<1>1. /\ Plain.cat = "none" /\ Plain.wraps = {} /\ "usage" \notin Plain.says
      /\ Plain # NoError
  <2>1. NoError.cat = "nil" /\ Plain.cat = "none" /\ Plain.wraps = {} /\ Plain.says = {}
    BY DEF Plain, NoError
  <2> QED BY <2>1
<1> QED BY <1>1 DEF Exit, ExitCode, Classify

\* A first check that passed is as good as none.
LEMMA TypedLast ==
  ASSUME ~Untyped, inv \in Invocations
  PROVE  First(<<CheckTypes(inv), CheckArguments(inv), PreRun(inv), Options(inv)>>) = Refusal
<1>0. CheckTypes(inv) = NoError
  BY InvocationAssumption DEF CheckTypes, Unless, Untyped
<1> QED BY <1>0, FirstSkips DEF Refusal

\* Where a misused invocation can be, and what every other one has touched.
Weeded ==
  /\ inv \in Invocations
  /\ at \in Place
  /\ at \in {"parse", "doctor"} => touched = {}
  /\ at = "doctor" => inv.verb = "doctor"
  /\ at \in {"plan", "prime", "rank"} => touched # {}
  /\ at \notin {"parse", "done"} => ~Noticed

RInv == Weeded /\ RefusedCleanly

LEMMA MisusedStays ==
  ASSUME inv' = inv
  PROVE  (Noticed' <=> Noticed) /\ (Misused' <=> Misused)
BY DEF Noticed, Misused, Overlooked, Setting

LEMMA InitIsWeeded == Init => RInv
  BY DEF Init, RInv, Weeded, Place, RefusedCleanly

LEMMA StepKeepsWeeded == RInv /\ [Next]_vars => RInv'
<1> SUFFICES ASSUME RInv, [Next]_vars PROVE RInv'
  OBVIOUS
<1>1. inv' = inv
  BY DEF Next, Parse, Doctor, Prepare, Plan, PlanPair, Budget, Prime, Rank, Unopened,
         Import, vars
<1>2. Noticed' <=> Noticed
  BY <1>1, MisusedStays
<1>a. MisuseExit' = MisuseExit
  BY <1>1 DEF MisuseExit
<1>b. Overlooked => inv.verb # "doctor"
  BY DEF Overlooked, Exporting, Importing
<1>c. Misused' <=> Misused
  BY <1>1, MisusedStays
<1>d. Overlooked' <=> Overlooked
  BY <1>1 DEF Overlooked
<1>e. Noticed => Misused
  BY DEF Misused
<1> USE <1>1, <1>2, <1>a, <1>b, <1>c, <1>d, <1>e DEF RInv, Weeded, RefusedCleanly, Place
<1>3. CASE Parse
  <2> DEFINE err == First(<<CheckTypes(inv), CheckArguments(inv), PreRun(inv), Options(inv)>>)
  <2>1. /\ at = "parse" /\ touched' = touched
        /\ IF err # NoError THEN at' = "done" /\ ret' = err
           ELSE at' = IF inv.verb \in Exporting THEN "prepare"
                      ELSE IF inv.verb \in Importing THEN "import" ELSE "doctor"
    BY <1>3 DEF Parse, End
  <2> HIDE DEF err
  <2>2. CASE Untyped
    <3>1. err = Plain /\ err # NoError
      BY <2>2, UntypedFirst DEF err
    <3>2. Noticed /\ MisuseExit' = 1
      BY <2>2 DEF Noticed, Untyped, MisuseExit
    <3> QED BY <2>1, <3>1, <3>2, PlainIsInternal
  <2>3. CASE ~Untyped
    <3>1. err = Refusal
      BY <2>3, TypedLast DEF err
    <3>2. /\ Refusal \in Refusals
          /\ Refusal = NoError <=> ~Noticed
      BY <2>3, MisuseIsRefused
    <3>3. MisuseExit' = 2
      BY <2>3, InvocationAssumption DEF Untyped, MisuseExit
    <3>4. CASE Refusal # NoError
      BY <2>1, <3>1, <3>2, <3>3, <3>4, RefusalsAreOfUser
    <3>5. CASE Refusal = NoError
      <4>1. inv.verb \notin Removed
        BY <3>2, <3>5 DEF Noticed
      <4>2. inv.verb \in Verb
        BY InvocationAssumption
      <4> QED BY <2>1, <3>1, <3>2, <3>5, <4>1, <4>2 DEF Verb
    <3> QED BY <3>4, <3>5
  <2> QED BY <2>2, <2>3
<1>4. CASE Doctor
  <2>1. at = "doctor" /\ at' = "done" /\ touched' = touched
    BY <1>4 DEF Doctor, End
  <2> QED BY <2>1
<1>5. CASE Prepare
  <2>1. at = "prepare" /\ at' \in {"done", "plan"} /\ touched' # {}
    BY <1>5 DEF Prepare, End
  <2> QED BY <2>1
<1>6. CASE Plan
  <2>1. at = "plan" /\ at' \in {"done", "plan"} /\ touched' # {}
    BY <1>6 DEF Plan, PlanPair, End
  <2> QED BY <2>1
<1>7. CASE Budget
  <2>1. at = "plan" /\ at' \in {"done", "prime"} /\ touched' = touched
    BY <1>7 DEF Budget, End
  <2> QED BY <2>1
<1>8. CASE Prime
  <2>1. at = "prime" /\ at' = "rank" /\ touched' = touched
    BY <1>8 DEF Prime
  <2> QED BY <2>1
<1>9. CASE Rank
  <2>1. at = "rank" /\ at' = "done" /\ touched' = touched
    BY <1>9 DEF Rank
  <2> QED BY <2>1
<1>10. CASE Import
  <2>1. at = "import" /\ at' = "done" /\ touched' # {}
    BY <1>10 DEF Import, End
  <2> QED BY <2>1
<1>11. CASE Unopened
  <2>1. at = "import" /\ at' = "done" /\ touched' # {}
    BY <1>11 DEF Unopened, End
  <2> QED BY <2>1
<1>12. CASE UNCHANGED vars
  BY <1>12 DEF vars
<1> QED BY <1>3, <1>4, <1>5, <1>6, <1>7, <1>8, <1>9, <1>10, <1>11, <1>12 DEF Next

\* Whatever else is wrong with it, a command whose misuse is noticed ends with the
\* exit code of misuse before anything is opened or created; one whose misuse the
\* code overlooks goes ahead; and only a misused command, or doctor, ends without
\* having touched anything.
THEOREM MisuseTouchesNothing == Spec => []RefusedCleanly
<1>1. RInv => RefusedCleanly
  BY DEF RInv
<1> QED BY <1>1, InitIsWeeded, StepKeepsWeeded, PTL DEF Spec
-----------------------------------------------------------------------------
(* A layer is encoded against the baseline layers that have most of it.    *)

\* Among goes through the list from its first layer on.
GoesThrough(list, digests, g) ==
  g = [k \in 0..Len(list) |->
         IF k = 0 THEN <<>>
         ELSE IF list[k].digest \in digests THEN Append(g[k - 1], list[k])
         ELSE g[k - 1]]

GoesThroughTo(list, digests, n, g) ==
  /\ DOMAIN g = 0..Len(list)
  /\ \A k \in 0..n : g[k] = IF k = 0 THEN <<>>
                            ELSE IF list[k].digest \in digests THEN Append(g[k - 1], list[k])
                            ELSE g[k - 1]

\* There is such a function: as far as one goes, another goes one step further.
LEMMA SomeGoesThrough ==
  ASSUME NEW list, Len(list) \in Nat, NEW digests
  PROVE  \E g : GoesThrough(list, digests, g)
<1> DEFINE T == {n \in 0..Len(list) : ~ \E g : GoesThroughTo(list, digests, n, g)}
<1>1. T = {}
  <2> SUFFICES ASSUME T # {} PROVE FALSE
    OBVIOUS
  <2>1. T \in SUBSET Nat
    OBVIOUS
  <2> HIDE DEF T
  <2>2. PICK n \in T : \A m \in T : n <= m
    BY <2>1, LeastOf
  <2> USE DEF T
  <2>3. n \in 0..Len(list) /\ ~ \E g : GoesThroughTo(list, digests, n, g)
    BY <2>2
  <2>4. CASE n = 0
    <3> DEFINE g == [k \in 0..Len(list) |-> <<>>]
    <3>1. GoesThroughTo(list, digests, n, g)
      BY <2>4 DEF GoesThroughTo
    <3> QED BY <2>3, <3>1
  <2>5. CASE n # 0
    <3>1. n - 1 \in 0..Len(list) /\ ~ (n <= n - 1)
      BY <2>3, <2>5
    <3>2. PICK g : GoesThroughTo(list, digests, n - 1, g)
      BY <2>2, <3>1
    <3> DEFINE h == [k \in 0..Len(list) |->
                       IF k = 0 THEN <<>>
                       ELSE IF list[k].digest \in digests THEN Append(g[k - 1], list[k])
                       ELSE g[k - 1]]
    <3>3. \A k \in 0..(n - 1) : h[k] = g[k]
      BY <2>3, <3>2 DEF GoesThroughTo
    <3>4. ASSUME NEW k \in 0..n, k # 0 PROVE h[k - 1] = g[k - 1]
      <4>1. k - 1 \in 0..(n - 1)
        BY <2>3, <3>4
      <4> HIDE DEF h
      <4> QED BY <3>3, <4>1
    <3>5. \A k \in 0..n : k \in 0..Len(list)
      BY <2>3
    <3>6. \A k \in 0..n : h[k] = IF k = 0 THEN <<>>
                                ELSE IF list[k].digest \in digests THEN Append(h[k - 1], list[k])
                                ELSE h[k - 1]
      <4> SUFFICES ASSUME NEW k \in 0..n
                   PROVE  h[k] = IF k = 0 THEN <<>>
                                 ELSE IF list[k].digest \in digests
                                        THEN Append(h[k - 1], list[k])
                                 ELSE h[k - 1]
        OBVIOUS
      <4>1. h[k] = IF k = 0 THEN <<>>
                   ELSE IF list[k].digest \in digests THEN Append(g[k - 1], list[k])
                   ELSE g[k - 1]
        BY <3>5
      <4> HIDE DEF h
      <4> QED BY <3>4, <4>1
    <3>7. DOMAIN h = 0..Len(list)
      OBVIOUS
    <3> HIDE DEF h
    <3>8. GoesThroughTo(list, digests, n, h)
      BY <3>6, <3>7 DEF GoesThroughTo
    <3> QED BY <2>3, <3>8
  <2> QED BY <2>4, <2>5
<1>2. PICK g : GoesThroughTo(list, digests, Len(list), g)
  BY <1>1
<1>3. GoesThrough(list, digests, [k \in 0..Len(list) |-> g[k]])
  BY <1>2 DEF GoesThroughTo, GoesThrough
<1> QED BY <1>3

\* What Among picks from a list of layers is a list of layers.
LEMMA AmongIsList ==
  ASSUME NEW S, NEW list \in Seq(S), NEW digests
  PROVE  Among(list, digests) \in Seq(S)
<1> DEFINE g == CHOOSE f : GoesThrough(list, digests, f)
<1>1. Among(list, digests) = g[Len(list)]
  BY DEF Among, GoesThrough
<1>2. GoesThrough(list, digests, g)
  BY SomeGoesThrough
<1> HIDE DEF g
<1> DEFINE T == {n \in 0..Len(list) : g[n] \notin Seq(S)}
<1>3. T = {}
  <2> SUFFICES ASSUME T # {} PROVE FALSE
    OBVIOUS
  <2>1. T \in SUBSET Nat
    OBVIOUS
  <2> HIDE DEF T
  <2>2. PICK n \in T : \A m \in T : n <= m
    BY <2>1, LeastOf
  <2> USE DEF T
  <2>3. n \in 0..Len(list) /\ g[n] \notin Seq(S)
    BY <2>2
  <2>4. n # 0
    BY <1>2, <2>3 DEF GoesThrough
  <2>5. n - 1 \in 0..Len(list) /\ ~ (n <= n - 1) /\ n \in 1..Len(list)
    BY <2>3, <2>4
  <2>6. g[n - 1] \in Seq(S)
    BY <2>2, <2>5
  <2>7. g[n] = Append(g[n - 1], list[n]) \/ g[n] = g[n - 1]
    BY <1>2, <2>3, <2>4 DEF GoesThrough
  <2>8. list[n] \in S
    BY <2>5
  <2>9. Append(g[n - 1], list[n]) \in Seq(S)
    BY <2>6, <2>8, AppendProperties
  <2> QED BY <2>3, <2>6, <2>7, <2>9
<1>4. Len(list) \in 0..Len(list)
  OBVIOUS
<1> QED BY <1>1, <1>3, <1>4

\* A sum goes through its set element by element.
Sums(f, S, g) ==
  g = [s \in SUBSET S |-> IF s = {} THEN 0
                          ELSE f[CHOOSE x \in s : TRUE] + g[s \ {CHOOSE x \in s : TRUE}]]

SumsTo(f, S, n, g) ==
  /\ DOMAIN g = SUBSET S
  /\ \A s \in SUBSET S : Cardinality(s) <= n =>
       g[s] = IF s = {} THEN 0
              ELSE f[CHOOSE x \in s : TRUE] + g[s \ {CHOOSE x \in s : TRUE}]

LEMMA OneLess ==
  ASSUME NEW S, IsFiniteSet(S), NEW s \in SUBSET S
  PROVE  /\ Cardinality(s) \in 0..Cardinality(S) /\ Cardinality(S) \in Nat
         /\ (Cardinality(s) = 0) = (s = {})
         /\ s # {} =>
              /\ (CHOOSE x \in s : TRUE) \in s
              /\ s \ {CHOOSE x \in s : TRUE} \in SUBSET S
              /\ Cardinality(s \ {CHOOSE x \in s : TRUE}) = Cardinality(s) - 1
<1>1. IsFiniteSet(s) /\ Cardinality(s) <= Cardinality(S)
  BY FS_Subset
<1>2. Cardinality(s) \in Nat /\ Cardinality(S) \in Nat
  BY <1>1, FS_CardinalityType
<1>3. (Cardinality(s) = 0) = (s = {})
  BY <1>1, FS_EmptySet
<1>4. ASSUME s # {}
      PROVE  /\ (CHOOSE x \in s : TRUE) \in s
             /\ Cardinality(s \ {CHOOSE x \in s : TRUE}) = Cardinality(s) - 1
  <2>1. PICK x \in s : x = CHOOSE y \in s : TRUE
    BY <1>4
  <2>2. Cardinality(s \ {x}) = Cardinality(s) - 1
    BY <1>1, FS_RemoveElement
  <2> QED BY <2>1, <2>2
<1> QED BY <1>1, <1>2, <1>3, <1>4

LEMMA SomeSums ==
  ASSUME NEW S, IsFiniteSet(S), NEW f
  PROVE  \E g : Sums(f, S, g)
<1>0. Cardinality(S) \in Nat
  BY FS_CardinalityType
<1> DEFINE T == {n \in 0..Cardinality(S) : ~ \E g : SumsTo(f, S, n, g)}
<1>1. T = {}
  <2> SUFFICES ASSUME T # {} PROVE FALSE
    OBVIOUS
  <2>1. T \in SUBSET Nat
    BY <1>0
  <2> HIDE DEF T
  <2>2. PICK n \in T : \A m \in T : n <= m
    BY <2>1, LeastOf
  <2> USE DEF T
  <2>3. n \in 0..Cardinality(S) /\ ~ \E g : SumsTo(f, S, n, g)
    BY <2>2
  <2>4. CASE n = 0
    <3> DEFINE g == [s \in SUBSET S |-> 0]
    <3>0. \A s \in SUBSET S : Cardinality(s) <= n => s = {}
      <4> SUFFICES ASSUME NEW s \in SUBSET S, Cardinality(s) <= n PROVE s = {}
        OBVIOUS
      <4>1. Cardinality(s) \in Nat
        BY FS_Subset, FS_CardinalityType
      <4>2. Cardinality(s) = 0
        BY <2>4, <4>1
      <4> QED BY <4>2, OneLess
    <3>1. SumsTo(f, S, n, g)
      BY <3>0 DEF SumsTo
    <3> QED BY <2>3, <3>1
  <2>5. CASE n # 0
    <3>1. n - 1 \in 0..Cardinality(S) /\ ~ (n <= n - 1)
      BY <1>0, <2>3, <2>5
    <3>2. PICK g : SumsTo(f, S, n - 1, g)
      BY <2>2, <3>1
    <3> DEFINE h == [s \in SUBSET S |->
                       IF s = {} THEN 0
                       ELSE f[CHOOSE x \in s : TRUE] + g[s \ {CHOOSE x \in s : TRUE}]]
    <3>3. \A s \in SUBSET S : Cardinality(s) <= n - 1 => h[s] = g[s]
      BY <3>2 DEF SumsTo
    <3>4. \A s \in SUBSET S : Cardinality(s) <= n /\ s # {} =>
            h[s \ {CHOOSE x \in s : TRUE}] = g[s \ {CHOOSE x \in s : TRUE}]
      <4> SUFFICES ASSUME NEW s \in SUBSET S, Cardinality(s) <= n, s # {}
                   PROVE  h[s \ {CHOOSE x \in s : TRUE}] = g[s \ {CHOOSE x \in s : TRUE}]
        OBVIOUS
      <4>1. PICK t : t = s \ {CHOOSE x \in s : TRUE}
        OBVIOUS
      <4>2. t \in SUBSET S /\ Cardinality(t) <= n - 1
        BY <1>0, <2>3, <4>1, OneLess
      <4> HIDE DEF h
      <4> QED BY <3>3, <4>1, <4>2
    <3>5. \A s \in SUBSET S :
            h[s] = IF s = {} THEN 0
                   ELSE f[CHOOSE x \in s : TRUE] + g[s \ {CHOOSE x \in s : TRUE}]
      OBVIOUS
    <3>6. DOMAIN h = SUBSET S
      OBVIOUS
    <3> HIDE DEF h
    <3>7. \A s \in SUBSET S : Cardinality(s) <= n =>
            h[s] = IF s = {} THEN 0
                   ELSE f[CHOOSE x \in s : TRUE] + h[s \ {CHOOSE x \in s : TRUE}]
      BY <3>4, <3>5
    <3>8. SumsTo(f, S, n, h)
      BY <3>6, <3>7 DEF SumsTo
    <3> QED BY <2>3, <3>8
  <2> QED BY <2>4, <2>5
<1>2. PICK g : SumsTo(f, S, Cardinality(S), g)
  BY <1>0, <1>1
<1>3. \A s \in SUBSET S : Cardinality(s) <= Cardinality(S)
  BY FS_Subset
<1>4. Sums(f, S, [s \in SUBSET S |-> g[s]])
  <2> DEFINE h == [s \in SUBSET S |-> g[s]]
  <2>1. \A s \in SUBSET S : s # {} => s \ {CHOOSE x \in s : TRUE} \in SUBSET S
    OBVIOUS
  <2>2. \A s \in SUBSET S :
          h[s] = IF s = {} THEN 0
                 ELSE f[CHOOSE x \in s : TRUE] + h[s \ {CHOOSE x \in s : TRUE}]
    BY <1>2, <1>3, <2>1 DEF SumsTo
  <2>3. h = [s \in SUBSET S |-> h[s]]
    OBVIOUS
  <2> HIDE DEF h
  <2>4. Sums(f, S, h)
    BY <2>2, <2>3 DEF Sums
  <2> QED BY <2>4 DEF h
<1> QED BY <1>4

\* The sum of natural numbers over a finite set is one; over none it is 0.
LEMMA SumIsNat ==
  ASSUME NEW S, IsFiniteSet(S), NEW f, \A x \in S : f[x] \in Nat
  PROVE  /\ FoldFunctionOnSet(+, 0, f, S) \in Nat
         /\ S = {} => FoldFunctionOnSet(+, 0, f, S) = 0
<1> DEFINE g == CHOOSE h : Sums(f, S, h)
<1>1. FoldFunctionOnSet(+, 0, f, S) = g[S]
  BY DEF FoldFunctionOnSet, MapThenFoldSet, Sums
<1>2. Sums(f, S, g)
  BY SomeSums
<1> HIDE DEF g
<1>0. Cardinality(S) \in Nat
  BY FS_CardinalityType
<1> DEFINE T == {n \in 0..Cardinality(S) : \E s \in SUBSET S : Cardinality(s) = n /\ g[s] \notin Nat}
<1>3. T = {}
  <2> SUFFICES ASSUME T # {} PROVE FALSE
    OBVIOUS
  <2>1. T \in SUBSET Nat
    BY <1>0
  <2> HIDE DEF T
  <2>2. PICK n \in T : \A m \in T : n <= m
    BY <2>1, LeastOf
  <2> USE DEF T
  <2>3. PICK s \in SUBSET S : Cardinality(s) = n /\ g[s] \notin Nat
    BY <2>2
  <2>4. s # {}
    BY <1>2, <2>3 DEF Sums
  <2>5. PICK x \in s : x = CHOOSE y \in s : TRUE
    BY <2>4
  <2>6. s \ {x} \in SUBSET S /\ Cardinality(s \ {x}) = n - 1 /\ n \in 0..Cardinality(S)
    BY <2>3, <2>4, <2>5, OneLess
  <2>7. n # 0
    BY <2>3, <2>4, OneLess
  <2>8. n - 1 \in 0..Cardinality(S) /\ ~ (n <= n - 1)
    BY <1>0, <2>6, <2>7
  <2>9. g[s \ {x}] \in Nat
    BY <2>2, <2>6, <2>8
  <2>10. g[s] = f[x] + g[s \ {x}]
    BY <1>2, <2>4, <2>5 DEF Sums
  <2> QED BY <2>3, <2>9, <2>10
<1>4. \A s \in SUBSET S : g[s] \in Nat
  BY <1>3, <1>0, OneLess
<1>5. S = {} => g[S] = 0
  BY <1>2 DEF Sums
<1> QED BY <1>1, <1>4, <1>5

\* A strict order of the places 1..n.
Linear(n, R) ==
  /\ \A i \in 1..n : <<i, i>> \notin R
  /\ \A i, k, h \in 1..n : <<i, k>> \in R /\ <<k, h>> \in R => <<i, h>> \in R
  /\ \A i, k \in 1..n : i # k => <<i, k>> \in R \/ <<k, i>> \in R

Ahead(n, R, i) == {h \in 1..n : <<h, i>> \in R}

\* What is before a place is fewer than all, and more for a later place.
LEMMA CountsGrow ==
  ASSUME NEW n \in Nat, NEW R, Linear(n, R)
  PROVE  /\ \A i \in 1..n : Cardinality(Ahead(n, R, i)) \in 0..(n - 1)
         /\ \A i, k \in 1..n : <<i, k>> \in R =>
              Cardinality(Ahead(n, R, i)) < Cardinality(Ahead(n, R, k))
<1>0. IsFiniteSet(1..n) /\ Cardinality(1..n) = n
  BY FS_Interval
<1>1. \A i \in 1..n : /\ IsFiniteSet(Ahead(n, R, i)) /\ Cardinality(Ahead(n, R, i)) \in Nat
  BY <1>0, FS_Subset, FS_CardinalityType DEF Ahead
<1>2. ASSUME NEW i \in 1..n, NEW T \in SUBSET (1..n), Ahead(n, R, i) \subseteq T \ {i}, i \in T
      PROVE  Cardinality(Ahead(n, R, i)) < Cardinality(T)
  <2>0. IsFiniteSet(T)
    BY <1>0, FS_Subset
  <2>1. IsFiniteSet(T \ {i}) /\ Cardinality(T \ {i}) = Cardinality(T) - 1
    BY <1>2, <2>0, FS_RemoveElement
  <2>2. Cardinality(Ahead(n, R, i)) <= Cardinality(T \ {i})
    BY <1>2, <2>1, FS_Subset
  <2>3. Cardinality(T) \in Nat
    BY <2>0, FS_CardinalityType
  <2> QED BY <2>1, <2>2, <2>3, <1>1
<1>3. \A i \in 1..n : Cardinality(Ahead(n, R, i)) < n
  <2> TAKE i \in 1..n
  <2>1. Ahead(n, R, i) \subseteq (1..n) \ {i}
    BY DEF Ahead, Linear
  <2> QED BY <2>1, <1>0, <1>2
<1>4. ASSUME NEW i \in 1..n, NEW k \in 1..n, <<i, k>> \in R
      PROVE  Cardinality(Ahead(n, R, i)) < Cardinality(Ahead(n, R, k))
  <2>1. Ahead(n, R, i) \subseteq Ahead(n, R, k) \ {i} /\ i \in Ahead(n, R, k)
    BY <1>4 DEF Ahead, Linear
  <2>2. Ahead(n, R, k) \in SUBSET (1..n)
    BY DEF Ahead
  <2> QED BY <1>2, <2>1, <2>2
<1> QED BY <1>1, <1>3, <1>4

\* Counting what is before them puts the places in order.
LEMMA PlacesInOrder ==
  ASSUME NEW n \in Nat, NEW R, Linear(n, R),
         NEW r, r = [p \in 1..n |-> CHOOSE i \in 1..n : Cardinality(Ahead(n, R, i)) = p - 1]
  PROVE  /\ r \in [1..n -> 1..n]
         /\ \A i \in 1..n : \E p \in 1..n : r[p] = i
         /\ \A p, q \in 1..n : p < q => <<r[p], r[q]>> \in R
<1> DEFINE rank == [i \in 1..n |-> Cardinality(Ahead(n, R, i))]
<1>1. /\ rank \in [1..n -> 0..(n - 1)]
      /\ \A i \in 1..n : rank[i] = Cardinality(Ahead(n, R, i))
      /\ \A i, k \in 1..n : <<i, k>> \in R => rank[i] < rank[k]
  BY CountsGrow
<1>2. \A i, k \in 1..n : rank[i] = rank[k] => i = k
  <2> SUFFICES ASSUME NEW i \in 1..n, NEW k \in 1..n, rank[i] = rank[k], i # k PROVE FALSE
    OBVIOUS
  <2>1. rank[i] < rank[k] \/ rank[k] < rank[i]
    BY <1>1 DEF Linear
  <2>2. rank[i] \in Nat /\ rank[k] \in Nat
    BY <1>1
  <2> QED BY <2>1, <2>2
<1> HIDE DEF rank
<1>3. rank \in Injection(1..n, 0..(n - 1))
  BY <1>1, <1>2 DEF Injection, IsInjective
<1>4. IsFiniteSet(0..(n - 1)) /\ Cardinality(0..(n - 1)) = n
      /\ IsFiniteSet(1..n) /\ Cardinality(1..n) = n
  <2>1. 0 \in Int /\ n - 1 \in Int /\ 1 \in Int /\ n \in Int
    OBVIOUS
  <2>2. IsFiniteSet(0..(n - 1)) /\ Cardinality(0..(n - 1)) = IF 0 > n - 1 THEN 0 ELSE (n - 1) - 0 + 1
    BY <2>1, FS_Interval
  <2>3. IsFiniteSet(1..n) /\ Cardinality(1..n) = IF 1 > n THEN 0 ELSE n - 1 + 1
    BY <2>1, FS_Interval
  <2> QED BY <2>2, <2>3
<1>5. rank \in Surjection(1..n, 0..(n - 1))
  BY <1>3, <1>4, FS_Injection
<1>6. ASSUME NEW p \in 1..n PROVE r[p] \in 1..n /\ rank[r[p]] = p - 1
  <2>1. p - 1 \in 0..(n - 1)
    OBVIOUS
  <2>2. \E i \in 1..n : rank[i] = p - 1
    BY <1>5, <2>1 DEF Surjection
  <2>3. r[p] = CHOOSE i \in 1..n : rank[i] = p - 1
    BY <1>1
  <2> QED BY <2>2, <2>3
<1>7. ASSUME NEW i \in 1..n PROVE \E p \in 1..n : r[p] = i
  <2>1. rank[i] + 1 \in 1..n
    BY <1>1
  <2>2. rank[r[rank[i] + 1]] = rank[i] /\ r[rank[i] + 1] \in 1..n
    BY <1>1, <1>6, <2>1
  <2> QED BY <1>2, <2>1, <2>2
<1>8. ASSUME NEW p \in 1..n, NEW q \in 1..n, p < q PROVE <<r[p], r[q]>> \in R
  <2>1. r[p] \in 1..n /\ r[q] \in 1..n /\ rank[r[p]] = p - 1 /\ rank[r[q]] = q - 1
    BY <1>6
  <2>2. ~ <<r[q], r[p]>> \in R /\ r[p] # r[q]
    <3>1. ~ (rank[r[q]] < rank[r[p]]) /\ rank[r[p]] # rank[r[q]]
      BY <1>8, <2>1
    <3> QED BY <1>1, <2>1, <3>1
  <2> QED BY <2>1, <2>2 DEF Linear
<1>9. r \in [1..n -> 1..n]
  BY <1>6
<1> QED BY <1>7, <1>8, <1>9

\* Where PickTopK puts a layer of the list before another.
Orders(baseline, fps, target, size) ==
  {e \in (DOMAIN baseline) \X (DOMAIN baseline) : Before(baseline, fps, target, size, e[1], e[2])}

LEMMA OrdersMeans ==
  ASSUME NEW baseline, NEW fps, NEW target, NEW size,
         NEW i \in DOMAIN baseline, NEW k \in DOMAIN baseline
  PROVE  <<i, k>> \in Orders(baseline, fps, target, size)
           <=> Before(baseline, fps, target, size, i, k)
BY DEF Orders

LEMMA OrdersIsLinear ==
  ASSUME NEW baseline \in Seq(LayerSet), NEW fps, NEW target, NEW size \in Nat,
         \A d \in Digests(baseline) : Score(target, fps[d]) \in Nat
  PROVE  Linear(Len(baseline), Orders(baseline, fps, target, size))
<1> DEFINE n == Len(baseline)
           s(i) == Score(target, fps[baseline[i].digest])
           a(i) == Distance(baseline[i].size, size)
<1>1. n \in Nat /\ DOMAIN baseline = 1..n
  OBVIOUS
<1>2. ASSUME NEW i \in 1..n
      PROVE  s(i) \in Nat /\ a(i) \in Nat /\ baseline[i].digest \in Int
  <2>1. baseline[i] \in LayerSet
    BY <1>1
  <2>2. baseline[i].digest \in Int /\ baseline[i].size \in Nat
    BY <2>1, BlobAssumption DEF LayerSet
  <2>3. a(i) \in Nat
    BY <2>2 DEF Distance
  <2>4. s(i) \in Nat
    BY <1>1 DEF Digests
  <2> QED BY <2>2, <2>3, <2>4
<1>3. \A i, k \in 1..n : <<i, k>> \in Orders(baseline, fps, target, size) <=>
        \/ s(i) > s(k)
        \/ s(i) = s(k) /\ a(i) < a(k)
        \/ s(i) = s(k) /\ a(i) = a(k) /\ baseline[i].digest < baseline[k].digest
        \/ s(i) = s(k) /\ a(i) = a(k) /\ baseline[i].digest = baseline[k].digest /\ i < k
  BY <1>1, OrdersMeans DEF Before
<1> HIDE DEF n, s, a
<1>4. Linear(n, Orders(baseline, fps, target, size))
  <2>1. ASSUME NEW i \in 1..n PROVE <<i, i>> \notin Orders(baseline, fps, target, size)
    <3>1. s(i) \in Nat /\ a(i) \in Nat /\ baseline[i].digest \in Int
      BY <1>2
    <3> QED BY <1>1, <1>3, <3>1
  <2>2. ASSUME NEW i \in 1..n, NEW k \in 1..n, i # k
        PROVE  \/ <<i, k>> \in Orders(baseline, fps, target, size)
               \/ <<k, i>> \in Orders(baseline, fps, target, size)
    <3>1. /\ s(i) \in Nat /\ a(i) \in Nat /\ baseline[i].digest \in Int
          /\ s(k) \in Nat /\ a(k) \in Nat /\ baseline[k].digest \in Int
      BY <1>2
    <3> QED BY <1>1, <1>3, <2>2, <3>1
  <2>3. ASSUME NEW i \in 1..n, NEW k \in 1..n, NEW h \in 1..n,
               <<i, k>> \in Orders(baseline, fps, target, size),
               <<k, h>> \in Orders(baseline, fps, target, size)
        PROVE  <<i, h>> \in Orders(baseline, fps, target, size)
    <3>1. /\ s(i) \in Nat /\ a(i) \in Nat /\ baseline[i].digest \in Int
          /\ s(k) \in Nat /\ a(k) \in Nat /\ baseline[k].digest \in Int
          /\ s(h) \in Nat /\ a(h) \in Nat /\ baseline[h].digest \in Int
      BY <1>2
    <3>2. /\ \/ s(i) > s(k)
             \/ s(i) = s(k) /\ a(i) < a(k)
             \/ s(i) = s(k) /\ a(i) = a(k) /\ baseline[i].digest < baseline[k].digest
             \/ s(i) = s(k) /\ a(i) = a(k) /\ baseline[i].digest = baseline[k].digest /\ i < k
          /\ \/ s(k) > s(h)
             \/ s(k) = s(h) /\ a(k) < a(h)
             \/ s(k) = s(h) /\ a(k) = a(h) /\ baseline[k].digest < baseline[h].digest
             \/ s(k) = s(h) /\ a(k) = a(h) /\ baseline[k].digest = baseline[h].digest /\ k < h
      BY <1>3, <2>3
    <3>3. \/ s(i) > s(h)
          \/ s(i) = s(h) /\ a(i) < a(h)
          \/ s(i) = s(h) /\ a(i) = a(h) /\ baseline[i].digest < baseline[h].digest
          \/ s(i) = s(h) /\ a(i) = a(h) /\ baseline[i].digest = baseline[h].digest /\ i < h
      BY <1>1, <3>1, <3>2
    <3> QED BY <1>3, <3>3
  <2> QED BY <2>1, <2>2, <2>3 DEF Linear
<1> QED BY <1>4 DEF n

\* The first k of the list in this order.
FirstOf(baseline, R, k, chosen) ==
  /\ Len(chosen) = Least(k, Len(baseline))
  /\ DOMAIN chosen = 1..Least(k, Len(baseline))
  /\ \E r \in [1..Len(baseline) -> 1..Len(baseline)] :
       /\ \A i \in 1..Len(baseline) : \E p \in 1..Len(baseline) : r[p] = i
       /\ \A p, q \in 1..Len(baseline) : p < q => <<r[p], r[q]>> \in R
       /\ \A p \in DOMAIN chosen : chosen[p] = baseline[r[p]]

Scored(baseline, fps, target) ==
  \A d \in Digests(baseline) : Score(target, fps[d]) \in Nat

LEMMA PicksTheFirst ==
  ASSUME NEW baseline \in Seq(LayerSet), NEW fps, NEW target, NEW size \in Nat,
         NEW k \in Nat \ {0}, Scored(baseline, fps, target),
         NEW chosen, chosen = PickTopK(baseline, fps, target, size, k)
  PROVE  FirstOf(baseline, Orders(baseline, fps, target, size), k, chosen)
<1> DEFINE n == Len(baseline)
           R == Orders(baseline, fps, target, size)
           r == [p \in 1..n |-> CHOOSE i \in 1..n : Cardinality(Ahead(n, R, i)) = p - 1]
           m == Least(k, n)
<1>1. n \in Nat /\ DOMAIN baseline = 1..n
  OBVIOUS
<1>2. Linear(n, R)
  BY OrdersIsLinear DEF Scored
<1>3. m \in Nat /\ m <= n
  BY <1>1 DEF Least
<1>4. \A i \in 1..n : Ahead(n, R, i) =
        {h \in DOMAIN baseline : Before(baseline, fps, target, size, h, i)}
  BY <1>1, OrdersMeans DEF Ahead
<1>5. \A p \in 1..m : chosen[p] = baseline[r[p]]
  <2> SUFFICES ASSUME NEW p \in 1..m PROVE chosen[p] = baseline[r[p]]
    OBVIOUS
  <2>1. chosen[p] = baseline[CHOOSE i \in DOMAIN baseline :
           Cardinality({h \in DOMAIN baseline :
              Before(baseline, fps, target, size, h, i)}) = p - 1]
    BY DEF PickTopK
  <2>2. (CHOOSE i \in DOMAIN baseline :
           Cardinality({h \in DOMAIN baseline :
              Before(baseline, fps, target, size, h, i)}) = p - 1)
          = CHOOSE i \in 1..n : Cardinality(Ahead(n, R, i)) = p - 1
    BY <1>1, <1>4
  <2>3. p \in 1..n
    BY <1>1, <1>3
  <2> QED BY <2>1, <2>2, <2>3
<1>6. DOMAIN chosen = 1..m
  BY DEF PickTopK
<1>7. /\ r \in [1..n -> 1..n]
      /\ \A i \in 1..n : \E p \in 1..n : r[p] = i
      /\ \A p, q \in 1..n : p < q => <<r[p], r[q]>> \in R
  <2> HIDE DEF n, R
  <2>1. PICK f : f = r
    OBVIOUS
  <2> HIDE DEF r
  <2>2. f = [p \in 1..n |-> CHOOSE i \in 1..n : Cardinality(Ahead(n, R, i)) = p - 1]
    BY <2>1 DEF r
  <2> QED BY ONLY <1>1, <1>2, <2>1, <2>2, PlacesInOrder
<1>8. Len(chosen) = m
  <2>1. \A p \in 1..m : baseline[r[p]] \in LayerSet
    <3> HIDE DEF r
    <3> SUFFICES ASSUME NEW p \in 1..m PROVE baseline[r[p]] \in LayerSet
      OBVIOUS
    <3>1. p \in 1..n
      BY <1>1, <1>3
    <3>2. r[p] \in 1..n
      BY <1>7, <3>1
    <3> QED BY <1>1, <3>2
  <2>2. chosen = [p \in 1..m |-> chosen[p]]
    BY DEF PickTopK
  <2>3. chosen \in [1..m -> LayerSet]
    BY ONLY <1>5, <1>6, <2>1, <2>2
  <2>4. chosen \in Seq(LayerSet)
    BY ONLY <1>3, <2>3
  <2> QED BY ONLY <1>3, <1>6, <2>4
<1> HIDE DEF r
<1> QED BY <1>5, <1>6, <1>7, <1>8 DEF FirstOf

PlanSet == [baseline : Seq(LayerSet), required : Seq(LayerSet), shipped : Seq(LayerSet)]

Fingerprinted ==
  \A d \in DOMAIN fingerprints :
    /\ \E p \in DOMAIN plans : d \in Digests(plans[p].baseline)
    /\ fingerprints[d] = Fingerprint(Blobs[d], Listed(d).media)

AsRanked ==
  \A j \in DOMAIN ranked : /\ j \in Jobs /\ ranked[j] = Candidates(j)
                           /\ Setting(inv, "candidates") \in Nat \ {0}

\* What the export has at each place.
KInv ==
  /\ plans \in Seq(PlanSet)
  /\ at \in {"prepare", "plan", "prime", "rank"} => inv.verb \in Exporting
  /\ at \notin {"rank", "done"} => fingerprints = <<>>
  /\ at # "done" => ranked = <<>>
  /\ Fingerprinted
  /\ AsRanked

LEMMA InitIsPlanned == Init => KInv
<1>1. DOMAIN <<>> = {}
  OBVIOUS
<1> QED BY <1>1 DEF Init, KInv, Fingerprinted, AsRanked

\* No error of the registry becomes the nil error.
LEMMA StaysAnError ==
  ASSUME NEW e \in Error PROVE ClassifyRegistryErr(e) # NoError
<1>1. NoError.cat = "nil"
  BY DEF NoError
<1>2. /\ Typed("ErrRegistryAuth").cat # "nil"
      /\ Typed("ErrRegistryManifestMissing").cat # "nil"
      /\ Wrap(Typed("ErrRegistryManifestInvalid"), e.says).cat # "nil"
  BY DEF Typed, Wrap, UserErrors, KeyErrors
<1>3. e.cat # "nil" /\ RegistryNetwork(e).cat # "nil"
  BY DEF Error, Category, RegistryNetwork
<1> QED BY <1>1, <1>2, <1>3 DEF ClassifyRegistryErr

LEMMA AllThree ==
  ASSUME NEW a, NEW b, NEW c, First(<<a, b, c>>) = NoError
  PROVE  a = NoError /\ b = NoError
<1>1. PICK s : s = <<a, b, c>>
  OBVIOUS
<1>2. DOMAIN s = 1..3 /\ s[1] = a /\ s[2] = b /\ s[3] = c
  BY <1>1
<1>3. First(s) = NoError
  BY <1>1
<1>4. ASSUME ~ \A k \in DOMAIN s : s[k] = NoError PROVE FALSE
  <2>1. \E k \in DOMAIN s : s[k] # NoError /\ \A h \in 1..(k - 1) : s[h] = NoError
    <3>1. CASE s[1] # NoError
      BY <1>2, <3>1
    <3>2. CASE s[1] = NoError /\ s[2] # NoError
      <4>1. \A h \in 1..(2 - 1) : s[h] = NoError
        BY <3>2
      <4> QED BY <1>2, <3>2, <4>1
    <3>3. CASE s[1] = NoError /\ s[2] = NoError
      <4>1. s[3] # NoError
        BY <1>2, <1>4, <3>3
      <4>2. \A h \in 1..(3 - 1) : s[h] = NoError
        BY <3>3
      <4> QED BY <1>2, <4>1, <4>2
    <3> QED BY <3>1, <3>2, <3>3
  <2>2. First(s) # NoError
    BY <1>4, <2>1 DEF First
  <2> QED BY <1>3, <2>2
<1> QED BY <1>2, <1>4

\* A source that planPair goes on with has a list of layers.
LEMMA ReadableHasLayers ==
  ASSUME NEW r \in DOMAIN Sources, NEW s \in Sources[r], NEW platform,
         ManifestError(s, platform, Platforms) = NoError
  PROVE  Layers(s, platform) \in Seq(LayerSet)
<1>1. /\ s.fails \in Error \cup {NoError} /\ s.list \in BOOLEAN
      /\ s.fails = NoError /\ ~s.list => "any" \in DOMAIN s.images
      /\ \A p \in DOMAIN s.images : s.images[p] \in Seq(LayerSet)
  BY SourceAssumption
<1>2. s.fails = NoError
  BY <1>1, StaysAnError DEF ManifestError
<1>3. Plain # NoError /\ Typed("ErrManifestListUnselected") # NoError
  <2>1. /\ Plain.cat = "none" /\ NoError.cat = "nil"
        /\ Typed("ErrManifestListUnselected").cat \in {"user", "content"}
    BY DEF Plain, NoError, Typed
  <2> QED BY <2>1
<1>4. s.list => platform \in DOMAIN s.images
  BY <1>1, <1>2, <1>3 DEF ManifestError
<1> QED BY <1>1, <1>2, <1>4 DEF Layers

LEMMA PairHasSources ==
  ASSUME RInv, KInv, at = "plan", NEW n \in DOMAIN inv.pairs
  PROVE  inv.pairs[n].baseline \in DOMAIN Sources /\ inv.pairs[n].target \in DOMAIN Sources
<1>1. inv \in Invocations /\ ~Noticed /\ inv.verb \in {"diff", "bundle"}
  BY DEF RInv, Weeded, KInv, Exporting
<1>2. {inv.pairs[n].baseline, inv.pairs[n].target} \subseteq
        DOMAIN Sources \cup (BadRef \ {"reserved"})
  BY <1>1, SourceAssumption
<1>3. {inv.pairs[n].baseline, inv.pairs[n].target} \cap (BadRef \ {"reserved"}) = {}
  <2>1. CASE inv.verb = "diff"
    <3>1. n = 1
      <4>1. DOMAIN inv.pairs = 1..1
        BY <1>1, <2>1, InvocationAssumption
      <4> QED BY <4>1
    <3> QED BY <1>1, <2>1, <3>1 DEF Noticed
  <2>2. CASE inv.verb = "bundle"
    BY <1>1, <2>2 DEF Noticed
  <2> QED BY <1>1, <2>1, <2>2
<1> QED BY <1>2, <1>3

\* planPair adds a plan made of lists of layers.
LEMMA PlanAddsLists ==
  ASSUME RInv, KInv, Plan PROVE plans' \in Seq(PlanSet)
<1>1. at = "plan" /\ Len(plans) < Len(inv.pairs)
  BY DEF Plan
<1>2. Len(plans) + 1 \in DOMAIN inv.pairs
  <2>1. DOMAIN inv.pairs = 1..Len(inv.pairs) /\ Len(inv.pairs) \in Nat
    BY InvocationAssumption DEF RInv, Weeded
  <2>2. Len(plans) \in Nat
    BY DEF KInv
  <2> QED BY <1>1, <2>1, <2>2
<1> DEFINE pair == inv.pairs[Len(plans) + 1]
           platform == Setting(inv, "platform")
<1>3. pair.baseline \in DOMAIN Sources /\ pair.target \in DOMAIN Sources
  BY <1>1, <1>2, PairHasSources
<1>4. PICK b \in Sources[pair.baseline], t \in Sources[pair.target],
           c \in {NoError, Raw({"url"}, {})} : PlanPair(b, t, c)
  BY DEF Plan
<1> DEFINE err == First(<<ManifestError(b, platform, Platforms),
                          ManifestError(t, platform, Platforms), ClassifyRegistryErr(c)>>)
<1>5. IF err # NoError THEN plans' = plans
      ELSE plans' = Append(plans, ComputePlan(Layers(t, platform), Layers(b, platform)))
  BY <1>4 DEF PlanPair
<1>6. CASE err # NoError
  BY <1>5, <1>6 DEF KInv
<1>7. CASE err = NoError
  <2>1. Layers(b, platform) \in Seq(LayerSet) /\ Layers(t, platform) \in Seq(LayerSet)
    BY <1>3, <1>7, AllThree, ReadableHasLayers
  <2>2. ComputePlan(Layers(t, platform), Layers(b, platform)) \in PlanSet
    BY <2>1, AmongIsList DEF ComputePlan, PlanSet
  <2>3. plans' = Append(plans, ComputePlan(Layers(t, platform), Layers(b, platform)))
    BY <1>5, <1>7
  <2> QED BY <2>2, <2>3, AppendProperties DEF KInv
<1> QED BY <1>6, <1>7

LEMMA FingerprintedStays ==
  ASSUME Fingerprinted, plans' = plans, fingerprints' = fingerprints PROVE Fingerprinted'
<1>1. \A d : Listed(d)' = Listed(d)
  BY DEF Listed
<1> QED BY <1>1 DEF Fingerprinted

LEMMA RankedStays ==
  ASSUME AsRanked, UNCHANGED <<inv, plans, fingerprints, ranked>> PROVE AsRanked'
<1>1. \A j : Candidates(j)' = Candidates(j)
  BY DEF Candidates, Setting, Layer
<1>2. Setting(inv, "candidates")' = Setting(inv, "candidates") /\ Jobs' = Jobs
  BY DEF Setting, Jobs
<1> QED BY <1>1, <1>2 DEF AsRanked

LEMMA StepKeepsPlanned == RInv /\ KInv /\ [Next]_vars => KInv'
<1> SUFFICES ASSUME RInv, KInv, [Next]_vars PROVE KInv'
  OBVIOUS
<1>0. DOMAIN <<>> = {}
  OBVIOUS
<1>1. ASSUME at # "done", UNCHANGED <<inv, plans, fingerprints, ranked>>,
             at' \in {"prepare", "plan", "prime", "rank"} => inv.verb \in Exporting,
             at = "rank" => at' \in {"rank", "done"}
      PROVE  KInv'
  <2>1. ranked' = <<>> /\ (at \notin {"rank", "done"} => fingerprints' = <<>>)
    BY <1>1 DEF KInv
  <2>2. AsRanked'
    BY <1>0, <2>1 DEF AsRanked
  <2>3. Fingerprinted'
    BY <1>1, FingerprintedStays DEF KInv
  <2> QED BY <1>1, <2>1, <2>2, <2>3 DEF KInv
<1>2. CASE Parse
  <2>1. /\ at = "parse" /\ UNCHANGED <<inv, plans, fingerprints, ranked>>
        /\ at' \in {"prepare", "plan", "prime", "rank"} => inv.verb \in Exporting
    BY <1>2 DEF Parse, End, Unplanned
  <2> QED BY <1>1, <2>1
<1>3. CASE Doctor
  <2>1. at = "doctor" /\ at' = "done" /\ UNCHANGED <<inv, plans, fingerprints, ranked>>
    BY <1>3 DEF Doctor, End, Unplanned
  <2> QED BY <1>1, <2>1
<1>4. CASE Prepare
  <2>1. at = "prepare" /\ UNCHANGED <<inv, plans, fingerprints, ranked>>
    BY <1>4 DEF Prepare, Unplanned
  <2> QED BY <1>1, <2>1 DEF KInv
<1>5. CASE Plan
  <2>1. /\ at = "plan" /\ UNCHANGED <<inv, fingerprints, ranked>>
        /\ at' \in {"plan", "done"}
    BY <1>5 DEF Plan, PlanPair, End
  <2>2. fingerprints' = <<>> /\ ranked' = <<>>
    BY <2>1 DEF KInv
  <2>3. AsRanked' /\ Fingerprinted'
    BY <1>0, <2>2 DEF AsRanked, Fingerprinted
  <2>4. plans' \in Seq(PlanSet)
    BY <1>5, PlanAddsLists
  <2> QED BY <2>1, <2>2, <2>3, <2>4 DEF KInv
<1>6. CASE Budget
  <2>1. at = "plan" /\ UNCHANGED <<inv, plans, fingerprints, ranked>>
    BY <1>6 DEF Budget, Unplanned
  <2> QED BY <1>1, <2>1 DEF KInv
<1>7. CASE Import
  <2>1. at = "import" /\ at' = "done" /\ UNCHANGED <<inv, plans, fingerprints, ranked>>
    BY <1>7 DEF Import, End
  <2> QED BY <1>1, <2>1
<1>a. CASE Unopened
  <2>1. at = "import" /\ at' = "done" /\ UNCHANGED <<inv, plans, fingerprints, ranked>>
    BY <1>a DEF Unopened, End, Unplanned
  <2> QED BY <1>1, <2>1
<1>8. CASE Prime
  <2>1. PICK fetched \in SUBSET BaselineDigests :
          fingerprints' = [d \in fetched |-> Fingerprint(Blobs[d], Listed(d).media)]
    BY <1>8 DEF Prime
  <2>2. at = "prime" /\ at' = "rank" /\ UNCHANGED <<inv, plans, ranked>>
    BY <1>8 DEF Prime
  <2>3. ranked' = <<>>
    BY <2>2 DEF KInv
  <2>4. AsRanked'
    BY <1>0, <2>3 DEF AsRanked
  <2>5. Fingerprinted'
    <3>1. \A d : Listed(d)' = Listed(d)
      BY <2>2 DEF Listed
    <3>2. \A d \in fetched : \E p \in DOMAIN plans : d \in Digests(plans[p].baseline)
      BY DEF BaselineDigests
    <3> QED BY <2>1, <2>2, <3>1, <3>2 DEF Fingerprinted
  <2> QED BY <2>2, <2>3, <2>4, <2>5 DEF KInv
<1>9. CASE Rank
  <2>1. /\ at = "rank" /\ at' = "done" /\ UNCHANGED <<inv, plans, fingerprints>>
        /\ ranked' = [j \in {h \in Jobs : ~Whole(h)} |-> Candidates(j)]
    BY <1>9 DEF Rank
  <2>2. Setting(inv, "candidates") \in Nat \ {0}
    <3>1. ~Noticed /\ inv.verb \in Exporting /\ inv \in Invocations
      BY <2>1 DEF RInv, Weeded, KInv
    <3>2. Setting(inv, "candidates") \in Int
      BY <3>1, InvocationAssumption
    <3>3. ~ (Setting(inv, "candidates") < 1)
      BY <3>1 DEF Noticed
    <3> QED BY <3>2, <3>3
  <2>3. Setting(inv, "candidates")' = Setting(inv, "candidates") /\ Jobs' = Jobs
        /\ \A j : Candidates(j)' = Candidates(j)
    BY <2>1 DEF Setting, Jobs, Candidates, Layer
  <2>4. AsRanked'
    BY <2>1, <2>2, <2>3 DEF AsRanked
  <2>5. Fingerprinted'
    BY <2>1, FingerprintedStays DEF KInv
  <2> QED BY <2>1, <2>4, <2>5 DEF KInv
<1>10. CASE UNCHANGED vars
  <2>1. UNCHANGED <<inv, at, plans, fingerprints, ranked>>
    BY <1>10 DEF vars
  <2>2. Fingerprinted'
    BY <2>1, FingerprintedStays DEF KInv
  <2>3. AsRanked'
    BY <2>1, RankedStays DEF KInv
  <2> QED BY <2>1, <2>2, <2>3 DEF KInv
<1> QED BY <1>2, <1>3, <1>4, <1>5, <1>6, <1>7, <1>a, <1>8, <1>9, <1>10 DEF Next

LEMMA PlanHasLists ==
  ASSUME plans \in Seq(PlanSet), NEW p \in DOMAIN plans
  PROVE  plans[p].baseline \in Seq(LayerSet) /\ plans[p].shipped \in Seq(LayerSet)
<1>1. plans[p] \in PlanSet
  OBVIOUS
<1> QED BY <1>1 DEF PlanSet

\* A fingerprint has finitely many files, each with its size.
LEMMA FingerprintIsFinite ==
  ASSUME NEW d \in DOMAIN Blobs, NEW media
  PROVE  LET fp == Fingerprint(Blobs[d], media)
         IN  IsFiniteSet(DOMAIN fp) /\ \A f \in DOMAIN fp : fp[f] \in Nat
<1>1. DOMAIN Failed = {} /\ IsFiniteSet({})
  BY FS_EmptySet DEF Failed
<1> QED BY <1>1, BlobAssumption DEF Fingerprint

LEMMA ScoreIsNat ==
  ASSUME NEW fp, NEW other, IsFiniteSet(DOMAIN fp), \A f \in DOMAIN fp : fp[f] \in Nat
  PROVE  /\ Score(fp, other) \in Nat
         /\ DOMAIN fp \cap DOMAIN other = {} => Score(fp, other) = 0
<1> DEFINE S == DOMAIN fp \cap DOMAIN other
<1>1. IsFiniteSet(S) /\ \A f \in S : fp[f] \in Nat
  BY FS_Subset
<1>2. Score(fp, other) = FoldFunctionOnSet(+, 0, fp, S)
  BY DEF Score
<1> HIDE DEF S
<1>3. FoldFunctionOnSet(+, 0, fp, S) \in Nat /\ (S = {} => FoldFunctionOnSet(+, 0, fp, S) = 0)
  BY <1>1, SumIsNat
<1> QED BY <1>2, <1>3 DEF S

\* What is read is what the media type says, docker's gzip apart.
LEMMA FingerprintIsOfReadable ==
  ASSUME NEW d, NEW media
  PROVE  Fingerprint(Blobs[d], media) = IF Readable(d, media) THEN Blobs[d].files ELSE Failed
BY DEF Fingerprint, Readable, Reading

\* What PickTopK scores by is the bytes the two layers share, as far as known.
LEMMA ScoreIsShared ==
  ASSUME KInv, NEW p \in DOMAIN plans, NEW i \in DOMAIN plans[p].baseline,
         NEW t \in LayerSet
  PROVE  Score(Fingerprint(Blobs[t.digest], t.media),
               Seeded(plans[p].baseline, fingerprints)[plans[p].baseline[i].digest])
           = Shared(t, plans[p].baseline[i])
<1> DEFINE l == plans[p].baseline[i]
           d == l.digest
           fp == Fingerprint(Blobs[t.digest], t.media)
           other == Seeded(plans[p].baseline, fingerprints)[d]
<1>1. t.digest \in DOMAIN Blobs
  BY DEF LayerSet
<1>2. IsFiniteSet(DOMAIN fp) /\ \A f \in DOMAIN fp : fp[f] \in Nat
  BY <1>1, FingerprintIsFinite
<1>3. other = IF d \in DOMAIN fingerprints THEN fingerprints[d] ELSE Failed
  BY DEF Seeded, Digests
<1>4. d \in DOMAIN fingerprints => fingerprints[d] = Fingerprint(Blobs[d], Listed(d).media)
  BY DEF KInv, Fingerprinted
<1>5. DOMAIN Failed = {}
  BY DEF Failed
<1>6. CASE Readable(t.digest, t.media) /\ d \in DOMAIN fingerprints
               /\ Readable(d, Listed(d).media)
  <2>1. fp = Blobs[t.digest].files /\ other = Blobs[d].files
    BY <1>3, <1>4, <1>6, FingerprintIsOfReadable
  <2>2. Score(fp, other) = FoldFunctionOnSet(+, 0, Blobs[t.digest].files,
                             DOMAIN Blobs[t.digest].files \cap DOMAIN Blobs[d].files)
    BY <2>1 DEF Score
  <2>3. {f \in DOMAIN Blobs[t.digest].files : f \in DOMAIN Blobs[d].files}
          = DOMAIN Blobs[t.digest].files \cap DOMAIN Blobs[d].files
    OBVIOUS
  <2>4. Shared(t, l) = MapThenSumSet(LAMBDA f : Blobs[t.digest].files[f],
                          {f \in DOMAIN Blobs[t.digest].files : f \in DOMAIN Blobs[d].files})
    BY <1>6 DEF Shared
  <2>5. Shared(t, l) = MapThenSumSet(LAMBDA f : Blobs[t.digest].files[f],
                          DOMAIN Blobs[t.digest].files \cap DOMAIN Blobs[d].files)
    BY <2>3, <2>4
  <2>6. FoldFunctionOnSet(+, 0, Blobs[t.digest].files,
          DOMAIN Blobs[t.digest].files \cap DOMAIN Blobs[d].files)
        = MapThenSumSet(LAMBDA f : Blobs[t.digest].files[f],
            DOMAIN Blobs[t.digest].files \cap DOMAIN Blobs[d].files)
    BY DEF FoldFunctionOnSet, MapThenSumSet
  <2> QED BY ONLY <2>2, <2>5, <2>6
<1>7. CASE ~ (Readable(t.digest, t.media) /\ d \in DOMAIN fingerprints
                 /\ Readable(d, Listed(d).media))
  <2>1. fp = Failed \/ other = Failed
    BY <1>3, <1>4, <1>7, FingerprintIsOfReadable
  <2>2. DOMAIN fp \cap DOMAIN other = {}
    BY <1>5, <2>1
  <2>3. Score(fp, other) = 0
    <3> HIDE DEF fp, other
    <3> QED BY <1>2, <2>2, ScoreIsNat
  <2>4. Shared(t, l) = 0
    BY <1>7 DEF Shared
  <2> QED BY <2>3, <2>4
<1> QED BY <1>6, <1>7

\* The order of PickTopK puts no layer before a better one.
LEMMA OrderIsBest ==
  ASSUME KInv, NEW p \in DOMAIN plans, NEW t \in LayerSet,
         NEW i \in DOMAIN plans[p].baseline, NEW k \in DOMAIN plans[p].baseline,
         <<i, k>> \in Orders(plans[p].baseline, Seeded(plans[p].baseline, fingerprints),
                             Fingerprint(Blobs[t.digest], t.media), t.size)
  PROVE  ~ Better(t, plans[p].baseline[k], plans[p].baseline[i])
<1> DEFINE list == plans[p].baseline
           fp == Fingerprint(Blobs[t.digest], t.media)
           fps == Seeded(list, fingerprints)
<1>1. Before(list, fps, fp, t.size, i, k)
  BY OrdersMeans
<1>2. /\ Score(fp, fps[list[i].digest]) = Shared(t, list[i])
      /\ Score(fp, fps[list[k].digest]) = Shared(t, list[k])
  BY ScoreIsShared
<1>3. IsFiniteSet(DOMAIN fp) /\ \A f \in DOMAIN fp : fp[f] \in Nat
  BY FingerprintIsFinite DEF LayerSet
<1>4. Score(fp, fps[list[i].digest]) \in Nat /\ Score(fp, fps[list[k].digest]) \in Nat
  BY <1>3, ScoreIsNat
<1>5. list[i] \in LayerSet /\ list[k] \in LayerSet
  <2>1. list \in Seq(LayerSet)
    BY PlanHasLists DEF KInv
  <2> QED BY <2>1
<1>6. Distance(list[i].size, t.size) \in Nat /\ Distance(list[k].size, t.size) \in Nat
  <2>1. list[i].size \in Nat /\ list[k].size \in Nat /\ t.size \in Nat
    BY <1>5 DEF LayerSet
  <2> HIDE DEF list
  <2> QED BY <2>1 DEF Distance
<1> HIDE DEF list, fp, fps
<1>7. \/ Shared(t, list[i]) > Shared(t, list[k])
      \/ /\ Shared(t, list[i]) = Shared(t, list[k])
         /\ Distance(list[i].size, t.size) <= Distance(list[k].size, t.size)
  BY <1>1, <1>2, <1>6 DEF Before
<1> QED BY <1>2, <1>4, <1>6, <1>7 DEF Better, list

LEMMA RankedByOrder ==
  ASSUME KInv, NEW j \in DOMAIN ranked
  PROVE  LET baseline == plans[j[1]].baseline
             chosen   == ranked[j]
             left     == ToSet(baseline) \ ToSet(chosen)
         IN  /\ Len(chosen) = Min({Setting(inv, "candidates"), Len(baseline)})
             /\ \E place \in Injection(DOMAIN chosen, DOMAIN baseline) :
                  \A k \in DOMAIN chosen : chosen[k] = baseline[place[k]]
             /\ \A k \in DOMAIN chosen : \A m \in left : ~Better(Layer(j), m, chosen[k])
             /\ \A k, h \in DOMAIN chosen : k < h => ~Better(Layer(j), chosen[h], chosen[k])
<1>1. PICK p \in DOMAIN plans : \E k \in DOMAIN plans[p].shipped : j = <<p, k>>
  BY DEF KInv, AsRanked, Jobs
<1>2. PICK q \in DOMAIN plans[p].shipped : j = <<p, q>>
  BY <1>1
<1> DEFINE list == plans[p].baseline
           t == plans[p].shipped[q]
           K == Setting(inv, "candidates")
           chosen == ranked[j]
           fp == Fingerprint(Blobs[t.digest], t.media)
           fps == Seeded(list, fingerprints)
<1>3. plans[j[1]].baseline = list /\ Layer(j) = t
  BY <1>2 DEF Layer
<1>4. list \in Seq(LayerSet) /\ t \in LayerSet /\ K \in Nat \ {0}
  <2>1. list \in Seq(LayerSet) /\ plans[p].shipped \in Seq(LayerSet)
    BY PlanHasLists DEF KInv
  <2> QED BY <2>1 DEF KInv, AsRanked
<1>5. chosen = PickTopK(list, fps, fp, t.size, K)
  BY <1>3 DEF KInv, AsRanked, Candidates
<1>6. IsFiniteSet(DOMAIN fp) /\ \A f \in DOMAIN fp : fp[f] \in Nat
  BY <1>4, FingerprintIsFinite DEF LayerSet
<1>7. \A d \in Digests(list) : Score(fp, fps[d]) \in Nat
  BY <1>6, ScoreIsNat
<1>8. t.size \in Nat
  BY <1>4 DEF LayerSet
<1> DEFINE n == Len(list)
           R == Orders(list, fps, fp, t.size)
<1>9. /\ Len(chosen) = Least(K, n)
      /\ DOMAIN chosen = 1..Least(K, n)
      /\ \E r \in [1..n -> 1..n] :
           /\ \A i \in 1..n : \E k \in 1..n : r[k] = i
           /\ \A k, h \in 1..n : k < h => <<r[k], r[h]>> \in R
           /\ \A k \in DOMAIN chosen : chosen[k] = list[r[k]]
  <2> HIDE DEF list, t, K, chosen, fp, fps
  <2>1. PICK b, c, f, s, z, k : /\ b = list /\ c = chosen /\ f = fps /\ s = fp
                                /\ z = t.size /\ k = K
    OBVIOUS
  <2>2. /\ b \in Seq(LayerSet) /\ k \in Nat \ {0} /\ z \in Nat
        /\ c = PickTopK(b, f, s, z, k) /\ Scored(b, f, s)
    BY <1>4, <1>5, <1>7, <1>8, <2>1 DEF Scored
  <2>3. FirstOf(b, Orders(b, f, s, z), k, c)
    BY ONLY <2>2, PicksTheFirst
  <2>4. FirstOf(list, R, K, chosen)
    BY ONLY <2>1, <2>3 DEF R
  <2> QED BY ONLY <2>4 DEF FirstOf, n
<1>10. PICK r \in [1..n -> 1..n] :
         /\ \A i \in 1..n : \E k \in 1..n : r[k] = i
         /\ \A k, h \in 1..n : k < h => <<r[k], r[h]>> \in R
         /\ \A k \in DOMAIN chosen : chosen[k] = list[r[k]]
  BY <1>9
<1>11. n \in Nat /\ DOMAIN list = 1..n /\ Least(K, n) \in Nat /\ Least(K, n) <= n
  BY <1>4 DEF Least
<1>12. \A i, k \in 1..n : <<i, k>> \in R => ~Better(t, list[k], list[i])
  BY <1>4, <1>11, OrderIsBest
<1> HIDE DEF list, t, K, chosen, fp, fps, n, R
<1>13. \A k \in DOMAIN chosen : k \in 1..n
  BY <1>9, <1>11
<1>14. Len(chosen) = Min({K, n})
  BY <1>4, <1>9, <1>11 DEF Least, Min
<1>15. \E place \in Injection(DOMAIN chosen, DOMAIN list) :
         \A k \in DOMAIN chosen : chosen[k] = list[place[k]]
  <2> DEFINE place == [k \in DOMAIN chosen |-> r[k]]
  <2>1. place \in [DOMAIN chosen -> DOMAIN list]
    BY <1>10, <1>11, <1>13
  <2>2. \A i, k \in 1..n : <<i, k>> \in R => i # k
    <3>1. Linear(n, R)
      BY <1>4, <1>7, <1>8, OrdersIsLinear DEF n, R
    <3> QED BY <3>1 DEF Linear
  <2>3. ASSUME NEW k \in DOMAIN chosen, NEW h \in DOMAIN chosen, k # h PROVE place[k] # place[h]
    <3>1. k < h \/ h < k
      BY <1>9, <1>11, <2>3
    <3>2. r[k] \in 1..n /\ r[h] \in 1..n
      BY <1>10, <1>13
    <3> QED BY <1>10, <1>13, <2>2, <3>1, <3>2
  <2>4. place \in Injection(DOMAIN chosen, DOMAIN list)
    BY <2>1, <2>3 DEF Injection, IsInjective
  <2>5. \A k \in DOMAIN chosen : chosen[k] = list[place[k]]
    BY <1>10
  <2> QED BY <2>4, <2>5
<1>16. ASSUME NEW k \in DOMAIN chosen, NEW m \in ToSet(list) \ ToSet(chosen)
       PROVE  ~Better(t, m, chosen[k])
  <2>1. PICK i \in 1..n : m = list[i]
    BY <1>11 DEF ToSet
  <2>2. PICK h \in 1..n : r[h] = i
    BY <1>10
  <2>3. h \notin DOMAIN chosen
    BY <1>10, <1>16, <2>1, <2>2 DEF ToSet
  <2>4. k < h
    BY <1>9, <1>11, <1>13, <2>3
  <2>5. r[k] \in 1..n /\ chosen[k] = list[r[k]] /\ <<r[k], r[h]>> \in R
    BY <1>10, <1>13, <2>4
  <2> QED BY <1>12, <2>1, <2>2, <2>5
<1>17. ASSUME NEW k \in DOMAIN chosen, NEW h \in DOMAIN chosen, k < h
       PROVE  ~Better(t, chosen[h], chosen[k])
  <2>1. r[k] \in 1..n /\ r[h] \in 1..n /\ <<r[k], r[h]>> \in R
        /\ chosen[k] = list[r[k]] /\ chosen[h] = list[r[h]]
    BY <1>10, <1>13, <1>17
  <2> QED BY <1>12, <2>1
<1> QED BY ONLY <1>3, <1>14, <1>15, <1>16, <1>17 DEF K, n, chosen

\* A layer is encoded against the baseline layers that share most with it, best
\* first, as many as asked for, whatever media types the manifests give a layer:
\* with the one departure for docker's gzip, and the one for a layer that the
\* pairs' manifests label differently.
THEOREM BestAreRanked == Spec => []RankedIsBest
<1>1. KInv => RankedIsBest
  BY RankedByOrder DEF RankedIsBest
<1>2. Init => RInv /\ KInv
  BY InitIsWeeded, InitIsPlanned
<1>3. RInv /\ KInv /\ [Next]_vars => (RInv /\ KInv)'
  BY StepKeepsWeeded, StepKeepsPlanned
<1> QED BY <1>1, <1>2, <1>3, PTL DEF Spec
-----------------------------------------------------------------------------
(* Export after export of a bundle to one path: ExportRun. The two         *)
(* specifications share no variable; nothing here rests on what is above.  *)

ExportTypes ==
  /\ source \in [BaselineLayers -> SourceKind]
  /\ phase \in Phase
  /\ pos \in 1..(Len(Order) + 1)
  /\ task \in [BaselineLayers -> Location]
  /\ files \in [BaselineLayers -> Content]
  /\ entries \subseteq BaselineLayers /\ unwritten \subseteq BaselineLayers
  /\ runs \in Nat
  /\ sig \in Int
  /\ archive \in [run : Nat, state : Extent]

\* A worker is only there while its run primes.
AtWork == \A d \in BaselineLayers : task[d] \notin {"none", "done"} => phase = "prime"

\* What the loop of primeBaselineSpool has come to: the layers before pos were
\* given to a worker, unless the pool refused one, and no other was.
Submitted ==
  /\ checked => pos <= Len(Order) /\ ~Seen(pos)
  /\ \A k \in 1..(pos - 1) : task[Order[k]] # "none" \/ poolErr # "none"
  /\ \A d \in BaselineLayers : task[d] # "none" => \E k \in 1..(pos - 1) : Order[k] = d
  /\ phase \notin {"plan", "prime"} => pos > Len(Order) /\ poolErr = "none"

\* A layer's file is what its source served, or is short of a write that failed.
Kept(d) ==
  /\ source[d] \in {"whole", "wrong"}
  /\ files[d] = source[d] \/ (d \in unwritten /\ files[d] = "short")

Excused(d) == source[d] \in {"gone", "cut"} \/ cancelled \/ d \in unwritten

\* What a worker has done so far with its layer.
Spooled(d) ==
  /\ task[d] = "stream" => source[d] # "gone"
  /\ task[d] = "commit" => Kept(d)
  /\ task[d] = "fail" => Excused(d)
  /\ task[d] = "done" => d \in entries \/ Excused(d)
  /\ d \in entries => task[d] = "done" /\ Kept(d)

Causes == (poolDone \/ poolErr # "none") => cancelled

\* Between the end of priming and its return no worker is left and none failed.
Priming == phase # "idle" => Submitted /\ \A d \in BaselineLayers : Spooled(d)

\* What is at the output path; a run that is under way has not signed anything.
OnPath ==
  /\ sig <= runs /\ archive.run <= runs
  /\ phase # "idle" => sig < runs
  /\ phase = "write" => archive.run = runs
  /\ phase \in {"sign", "truncate", "writeSig"} =>
       archive.run = runs /\ archive.state \in {"open", "whole"}
  /\ NilMeansComplete
  /\ SignedIsComplete

Emptied == phase = "idle" /\ result \in {"ok", "err"} => files = NoFiles

ExportInv == ExportTypes /\ AtWork /\ Causes /\ Priming /\ OnPath /\ Emptied

LEMMA LayersAreListed ==
  /\ Order \in Seq(BaselineLayers) /\ Len(Order) \in Nat
  /\ \A d \in BaselineLayers : \E k \in 1..Len(Order) : Order[k] = d
<1>1. Order \in Seq(Range(Order))
  BY RunsAssumption
<1> QED BY <1>1 DEF BaselineLayers, Range

LEMMA ExportStarts == ASSUME ExportInit PROVE ExportInv
<1> USE DEF ExportInit
<1>2. ExportTypes
  BY LayersAreListed
     DEF ExportTypes, Phase, Location, NoFiles, Content, Extent
<1>3. AtWork /\ Causes /\ Priming /\ Emptied
  BY DEF AtWork, Causes, Priming, Emptied
<1>4. OnPath
  BY DEF OnPath, NilMeansComplete, SignedIsComplete
<1> QED BY <1>2, <1>3, <1>4 DEF ExportInv

\* A run that begins has everything before it.
LEMMA StepStart == ASSUME ExportInv, Start PROVE ExportInv'
<1>1. /\ phase = "idle" /\ phase' = "plan" /\ runs' = runs + 1 /\ result' = "none"
      /\ cancelled' = FALSE /\ poolDone' = FALSE /\ pos' = 1 /\ checked' = FALSE
      /\ task' = [d \in BaselineLayers |-> "none"] /\ poolErr' = "none" /\ entries' = {}
      /\ unwritten' = {}
      /\ files' \in {files, NoFiles} /\ source' = source /\ archive' = archive /\ sig' = sig
  BY DEF Start, inputs, disk
<1>2. ExportTypes'
  BY <1>1, LayersAreListed
     DEF ExportInv, ExportTypes, Phase, Location, NoFiles, Content, Extent,
         SourceKind
<1>3. AtWork' /\ Causes' /\ Emptied'
  BY <1>1 DEF AtWork, Causes, Emptied
<1>4. Priming'
  BY <1>1, LayersAreListed DEF Priming, Submitted, Spooled, Kept, Excused
<1>5. OnPath'
  BY <1>1 DEF ExportInv, ExportTypes, OnPath, NilMeansComplete, SignedIsComplete
<1> QED BY <1>2, <1>3, <1>4, <1>5 DEF ExportInv

LEMMA StepCancel == ASSUME ExportInv, Cancel PROVE ExportInv'
<1>1. /\ phase # "idle" /\ cancelled' = TRUE
      /\ UNCHANGED <<source, runs, signing, phase, result, poolDone, pos, checked, task,
                     poolErr, files, entries, unwritten, archive, sig>>
  BY DEF Cancel, inputs, pool, disk
<1>2. ExportTypes'
  BY <1>1 DEF ExportInv, ExportTypes, Phase, Location, Content, Extent, SourceKind
<1>3. AtWork' /\ Causes' /\ Emptied'
  BY <1>1 DEF ExportInv, AtWork, Causes, Emptied, NoFiles
<1>4. Priming'
  BY <1>1 DEF ExportInv, Priming, Submitted, Spooled, Kept, Excused, Seen
<1>5. OnPath'
  BY <1>1 DEF ExportInv, OnPath, NilMeansComplete, SignedIsComplete
<1> QED BY <1>2, <1>3, <1>4, <1>5 DEF ExportInv

LEMMA StepPropagate == ASSUME ExportInv, Propagate PROVE ExportInv'
<1>1. /\ cancelled /\ poolDone' = TRUE
      /\ UNCHANGED <<source, runs, signing, phase, result, cancelled, pos, checked, task,
                     poolErr, files, entries, unwritten, archive, sig>>
  BY DEF Propagate, inputs, pool, disk
<1>2. ExportTypes'
  BY <1>1 DEF ExportInv, ExportTypes, Phase, Location, Content, Extent, SourceKind
<1>3. AtWork' /\ Causes' /\ Emptied'
  BY <1>1 DEF ExportInv, AtWork, Causes, Emptied, NoFiles
<1>4. Priming'
  BY <1>1 DEF ExportInv, Priming, Submitted, Spooled, Kept, Excused, Seen
<1>5. OnPath'
  BY <1>1 DEF ExportInv, OnPath, NilMeansComplete, SignedIsComplete
<1> QED BY <1>2, <1>3, <1>4, <1>5 DEF ExportInv

LEMMA StepCrash == ASSUME ExportInv, Crash PROVE ExportInv'
<1>1. /\ phase' = "idle" /\ result' = "crashed" /\ task' = [d \in BaselineLayers |-> "none"]
      /\ UNCHANGED <<source, runs, signing, cancelled, poolDone, pos, checked, poolErr,
                     files, entries, unwritten, archive, sig>>
  BY DEF Crash, inputs, disk
<1>2. ExportTypes'
  BY <1>1 DEF ExportInv, ExportTypes, Phase, Location, Content, Extent, SourceKind
<1>3. AtWork' /\ Causes' /\ Emptied' /\ Priming'
  BY <1>1 DEF ExportInv, AtWork, Causes, Emptied, Priming
<1>4. OnPath'
  BY <1>1 DEF ExportInv, OnPath, NilMeansComplete, SignedIsComplete
<1> QED BY <1>2, <1>3, <1>4 DEF ExportInv

LEMMA StepStay == ASSUME ExportInv, UNCHANGED exportVars PROVE ExportInv'
<1>1. UNCHANGED <<source, runs, signing, phase, result, cancelled, poolDone, pos, checked,
                  task, poolErr, files, entries, unwritten, archive, sig>>
  BY DEF exportVars, inputs, pool, disk
<1>2. ExportTypes'
  BY <1>1 DEF ExportInv, ExportTypes, Phase, Location, Content, Extent, SourceKind
<1>3. AtWork' /\ Causes' /\ Emptied'
  BY <1>1 DEF ExportInv, AtWork, Causes, Emptied, NoFiles
<1>4. Priming'
  BY <1>1 DEF ExportInv, Priming, Submitted, Spooled, Kept, Excused, Seen
<1>5. OnPath'
  BY <1>1 DEF ExportInv, OnPath, NilMeansComplete, SignedIsComplete
<1> QED BY <1>2, <1>3, <1>4, <1>5 DEF ExportInv

\* No worker is under way.
Calm == \A d \in BaselineLayers : task[d] \in {"none", "done"}

\* The deferred cleanup, whatever the run comes to: only what is at the output
\* path is left to look at.
LEMMA LeaveKeeps ==
  ASSUME ExportInv, Calm, NEW r \in {"ok", "err"}, Leave(r),
         UNCHANGED <<source, runs, cancelled, poolDone, pos, checked, task, poolErr, entries,
                   unwritten>>
  PROVE  AtWork' /\ Causes' /\ Priming' /\ Emptied' /\ files' \in [BaselineLayers -> Content]
<1>1. phase' = "idle" /\ files' = NoFiles
  BY DEF Leave
<1>2. NoFiles' = NoFiles
  BY DEF NoFiles
<1> QED BY <1>1, <1>2 DEF ExportInv, Calm, AtWork, Causes, Priming, Emptied, NoFiles, Content

\* A step from one phase after priming to the next.
LEMMA GotoKeeps ==
  ASSUME ExportInv, Calm, NEW p, Goto(p), phase # "idle",
         p = "prime" \/ (p # "idle" /\ pos > Len(Order) /\ poolErr = "none"),
         UNCHANGED <<source, runs, cancelled, poolDone, pos, checked, task, poolErr, entries,
                   unwritten>>
  PROVE  AtWork' /\ Causes' /\ Priming' /\ Emptied' /\ files' \in [BaselineLayers -> Content]
<1>1. phase' = p /\ files' = files /\ result' = result
  BY DEF Goto
<1>2. AtWork' /\ Causes' /\ Emptied' /\ files' \in [BaselineLayers -> Content]
  BY <1>1 DEF ExportInv, ExportTypes, Calm, AtWork, Causes, Emptied, Content
<1>3. Priming'
  BY <1>1 DEF ExportInv, Priming, Submitted, Spooled, Kept, Excused, Seen
<1> QED BY <1>2, <1>3

LEMMA CalmAfterPriming ==
  ASSUME ExportInv, phase # "prime" PROVE Calm
BY DEF ExportInv, AtWork, Calm

LEMMA StepPlan == ASSUME ExportInv, PlanPairs PROVE ExportInv'
<1>1. /\ phase = "plan"
      /\ Leave("err") \/ Goto("prime")
      /\ UNCHANGED <<source, runs, signing, cancelled, poolDone, pos, checked, task, poolErr,
                     entries, unwritten, archive, sig>>
  BY DEF PlanPairs, inputs, pool, disk
<1>2. Calm
  BY <1>1, CalmAfterPriming
<1>3. AtWork' /\ Causes' /\ Priming' /\ Emptied' /\ files' \in [BaselineLayers -> Content]
  BY <1>1, <1>2, LeaveKeeps, GotoKeeps
<1>4. phase' \in {"idle", "prime"} /\ (phase' = "idle" => result' = "err")
  BY <1>1 DEF Leave, Goto
<1>5. ExportTypes'
  BY <1>1, <1>3, <1>4 DEF ExportInv, ExportTypes, Phase, Location, Extent, SourceKind
<1>6. OnPath'
  BY <1>1, <1>4 DEF ExportInv, OnPath, NilMeansComplete, SignedIsComplete
<1> QED BY <1>3, <1>5, <1>6 DEF ExportInv

LEMMA StepWaitPool == ASSUME ExportInv, Wait PROVE ExportInv'
<1>1. /\ phase = "prime" /\ pos > Len(Order) /\ Running = {}
      /\ Leave("err") \/ (Goto("encode") /\ poolErr = "none")
      /\ UNCHANGED <<source, runs, signing, cancelled, poolDone, pos, checked, task, poolErr,
                     entries, unwritten, archive, sig>>
  BY DEF Wait, inputs, pool, disk
<1>2. Calm
  BY <1>1 DEF Calm, Running
<1>3. AtWork' /\ Causes' /\ Priming' /\ Emptied' /\ files' \in [BaselineLayers -> Content]
  BY <1>1, <1>2, LeaveKeeps, GotoKeeps
<1>4. phase' \in {"idle", "encode"} /\ (phase' = "idle" => result' = "err")
  BY <1>1 DEF Leave, Goto
<1>5. ExportTypes'
  BY <1>1, <1>3, <1>4 DEF ExportInv, ExportTypes, Phase, Location, Extent, SourceKind
<1>6. OnPath'
  BY <1>1, <1>4 DEF ExportInv, OnPath, NilMeansComplete, SignedIsComplete
<1> QED BY <1>3, <1>5, <1>6 DEF ExportInv

\* Every later phase ends in the next one or in the cleanup.
LEMMA LaterKeeps ==
  ASSUME ExportInv, NEW p \in Phase \ {"idle", "plan", "prime"}, NEW r \in {"ok", "err"},
         phase \notin {"idle", "plan", "prime"}, Leave(r) \/ Goto(p),
         UNCHANGED <<source, runs, cancelled, poolDone, pos, checked, task, poolErr, entries,
                   unwritten>>
  PROVE  AtWork' /\ Causes' /\ Priming' /\ Emptied' /\ files' \in [BaselineLayers -> Content]
<1>1. Calm
  BY CalmAfterPriming
<1>2. pos > Len(Order) /\ poolErr = "none"
  BY DEF ExportInv, Priming, Submitted
<1> QED BY <1>1, <1>2, LeaveKeeps, GotoKeeps

LEMMA StepEncodeAll == ASSUME ExportInv, Encode PROVE ExportInv'
<1>1. /\ phase = "encode" /\ (Leave("err") \/ Goto("create"))
      /\ UNCHANGED <<source, runs, signing, cancelled, poolDone, pos, checked, task, poolErr,
                     entries, unwritten, archive, sig>>
  BY DEF Encode, caller, inputs, pool, disk
<1>2. AtWork' /\ Causes' /\ Priming' /\ Emptied' /\ files' \in [BaselineLayers -> Content]
  BY <1>1, LaterKeeps DEF Phase
<1>3. phase' \in {"idle", "create"} /\ (phase' = "idle" => result' = "err")
  BY <1>1 DEF Leave, Goto
<1>4. ExportTypes'
  BY <1>1, <1>2, <1>3 DEF ExportInv, ExportTypes, Phase, Location, Extent, SourceKind
<1>5. OnPath'
  BY <1>1, <1>3 DEF ExportInv, OnPath, NilMeansComplete, SignedIsComplete
<1> QED BY <1>2, <1>4, <1>5 DEF ExportInv

LEMMA StepCreateFile == ASSUME ExportInv, Create PROVE ExportInv'
<1>1. /\ phase = "create"
      /\ \/ Leave("err") /\ archive' = archive
         \/ Goto("write") /\ archive' = [run |-> runs, state |-> "cut"]
      /\ UNCHANGED <<source, runs, signing, cancelled, poolDone, pos, checked, task, poolErr,
                     entries, unwritten, sig>>
  BY DEF Create, caller, inputs, pool
<1>2. AtWork' /\ Causes' /\ Priming' /\ Emptied' /\ files' \in [BaselineLayers -> Content]
  BY <1>1, LaterKeeps DEF Phase
<1>3. \/ phase' = "idle" /\ result' = "err" /\ archive' = archive
      \/ phase' = "write" /\ archive' = [run |-> runs, state |-> "cut"]
  BY <1>1 DEF Leave, Goto
<1>4. ExportTypes'
  BY <1>1, <1>2, <1>3 DEF ExportInv, ExportTypes, Phase, Location, Extent, SourceKind
<1>5. OnPath'
  BY <1>1, <1>3 DEF ExportInv, ExportTypes, OnPath, NilMeansComplete, SignedIsComplete
<1> QED BY <1>2, <1>4, <1>5 DEF ExportInv

LEMMA StepWriteAll == ASSUME ExportInv, Write PROVE ExportInv'
<1>1. /\ phase = "write"
      /\ \/ Leave("err") /\ archive' = archive
         \/ /\ (signing /\ Goto("sign")) \/ (~signing /\ Leave("ok"))
            /\ \E e \in {"open", "whole"} : archive' = [archive EXCEPT !.state = e]
      /\ UNCHANGED <<source, runs, signing, cancelled, poolDone, pos, checked, task, poolErr,
                     entries, unwritten, sig>>
  BY DEF Write, caller, inputs, pool
<1>2. AtWork' /\ Causes' /\ Priming' /\ Emptied' /\ files' \in [BaselineLayers -> Content]
  BY <1>1, LaterKeeps DEF Phase
<1>3. archive \in [run : Nat, state : Extent] /\ archive.run = runs
  BY <1>1 DEF ExportInv, ExportTypes, OnPath
<1>4. \/ phase' = "idle" /\ result' = "err" /\ archive' = archive
      \/ /\ phase' = "sign" \/ (phase' = "idle" /\ ~signing)
         /\ archive'.run = runs /\ archive'.state \in {"open", "whole"}
         /\ archive' \in [run : Nat, state : Extent]
  BY <1>1, <1>3 DEF Leave, Goto, Extent
<1>5. ExportTypes'
  <2>1. phase' \in Phase /\ archive' \in [run : Nat, state : Extent]
    BY <1>3, <1>4 DEF Phase
  <2> QED BY <1>1, <1>2, <2>1 DEF ExportInv, ExportTypes, Phase, Location, Extent, SourceKind
<1>6. OnPath'
  BY <1>1, <1>3, <1>4 DEF ExportInv, ExportTypes, OnPath, NilMeansComplete, SignedIsComplete
<1> QED BY <1>2, <1>5, <1>6 DEF ExportInv

LEMMA StepSignAll == ASSUME ExportInv, Sign PROVE ExportInv'
<1>1. /\ phase = "sign" /\ (Leave("err") \/ Goto("truncate"))
      /\ UNCHANGED <<source, runs, signing, cancelled, poolDone, pos, checked, task, poolErr,
                     entries, unwritten, archive, sig>>
  BY DEF Sign, caller, inputs, pool, disk
<1>2. AtWork' /\ Causes' /\ Priming' /\ Emptied' /\ files' \in [BaselineLayers -> Content]
  BY <1>1, LaterKeeps DEF Phase
<1>3. phase' \in {"idle", "truncate"} /\ (phase' = "idle" => result' = "err")
  BY <1>1 DEF Leave, Goto
<1>4. ExportTypes'
  BY <1>1, <1>2, <1>3 DEF ExportInv, ExportTypes, Phase, Location, Extent, SourceKind
<1>5. OnPath'
  BY <1>1, <1>3 DEF ExportInv, OnPath, NilMeansComplete, SignedIsComplete
<1> QED BY <1>2, <1>4, <1>5 DEF ExportInv

LEMMA StepTruncate == ASSUME ExportInv, Truncate PROVE ExportInv'
<1>1. /\ phase = "truncate"
      /\ (Leave("err") /\ sig' = sig) \/ (Goto("writeSig") /\ sig' = -1)
      /\ UNCHANGED <<source, runs, signing, cancelled, poolDone, pos, checked, task, poolErr,
                     entries, unwritten, archive>>
  BY DEF Truncate, caller, inputs, pool
<1>2. AtWork' /\ Causes' /\ Priming' /\ Emptied' /\ files' \in [BaselineLayers -> Content]
  BY <1>1, LaterKeeps DEF Phase
<1>3. \/ phase' = "idle" /\ result' = "err" /\ sig' = sig
      \/ phase' = "writeSig" /\ sig' = -1
  BY <1>1 DEF Leave, Goto
<1>4. ExportTypes'
  BY <1>1, <1>2, <1>3 DEF ExportInv, ExportTypes, Phase, Location, Extent, SourceKind
<1>5. OnPath'
  BY <1>1, <1>3 DEF ExportInv, ExportTypes, OnPath, NilMeansComplete, SignedIsComplete
<1> QED BY <1>2, <1>4, <1>5 DEF ExportInv

LEMMA StepWriteSig == ASSUME ExportInv, WriteSig PROVE ExportInv'
<1>1. /\ phase = "writeSig"
      /\ (Leave("err") /\ sig' = sig) \/ (Leave("ok") /\ sig' = archive.run)
      /\ UNCHANGED <<source, runs, signing, cancelled, poolDone, pos, checked, task, poolErr,
                     entries, unwritten, archive>>
  BY DEF WriteSig, caller, inputs, pool
<1>2. AtWork' /\ Causes' /\ Priming' /\ Emptied' /\ files' \in [BaselineLayers -> Content]
  <2>1. Calm
    BY <1>1, CalmAfterPriming
  <2> QED BY <1>1, <2>1, LeaveKeeps
<1>3. \/ phase' = "idle" /\ result' = "err" /\ sig' = sig
      \/ phase' = "idle" /\ result' = "ok" /\ sig' = archive.run
  BY <1>1 DEF Leave
<1>4. archive.run = runs /\ archive.state \in {"open", "whole"} /\ runs \in Nat
  BY <1>1 DEF ExportInv, ExportTypes, OnPath
<1>5. ExportTypes'
  BY <1>1, <1>2, <1>3, <1>4
     DEF ExportInv, ExportTypes, Phase, Location, Extent, SourceKind
<1>6. OnPath'
  BY <1>1, <1>3, <1>4 DEF ExportInv, ExportTypes, OnPath, NilMeansComplete, SignedIsComplete
<1> QED BY <1>2, <1>5, <1>6 DEF ExportInv

\* The steps of primeBaselineSpool's loop: what they leave alone, and what is left
\* to show of a step that gives no layer to a worker.
Unmoved ==
  UNCHANGED <<source, runs, signing, phase, result, cancelled, poolDone, files, entries,
              unwritten, archive, sig>>

LEMMA LoopKeeps ==
  ASSUME ExportInv, phase = "prime", Unmoved,
         pos' \in 1..(Len(Order) + 1), task' \in [BaselineLayers -> Location],
         poolErr' # "none" => cancelled, Submitted', \A d \in BaselineLayers : Spooled(d)'
  PROVE  ExportInv'
<1> USE DEF Unmoved
<1>1. ExportTypes'
  BY DEF ExportInv, ExportTypes, Phase, Content, Extent, SourceKind
<1>2. AtWork' /\ Causes' /\ Emptied' /\ Priming'
  BY DEF ExportInv, AtWork, Causes, Emptied, Priming
<1>3. OnPath'
  BY DEF ExportInv, OnPath, NilMeansComplete, SignedIsComplete
<1> QED BY <1>1, <1>2, <1>3 DEF ExportInv

LEMMA SpooledStays ==
  ASSUME NEW d, Spooled(d), UNCHANGED <<task, files, source, entries, cancelled, unwritten>>
  PROVE  Spooled(d)'
BY DEF Spooled, Kept, Excused

\* The loop moves past a layer that a worker has, or that the pool
\* has just refused.
LEMMA Past ==
  ASSUME ExportInv, phase = "prime", pos <= Len(Order),
         task[Order[pos]] # "none" \/ poolErr' # "none",
         pos' = pos + 1, checked' = FALSE, task' = task, Unmoved,
         poolErr' # "none" => cancelled, poolErr # "none" => poolErr' # "none"
  PROVE  ExportInv'
<1>1. pos \in 1..(Len(Order) + 1) /\ Len(Order) \in Nat /\ task \in [BaselineLayers -> Location]
  BY LayersAreListed DEF ExportInv, ExportTypes
<1>2. Submitted /\ \A d \in BaselineLayers : Spooled(d)
  BY DEF ExportInv, Priming
<1>3. \A d \in BaselineLayers : Spooled(d)'
  BY <1>2, SpooledStays DEF Unmoved
<1>4. Submitted'
  <2>1. ~checked' /\ phase' = "prime"
    BY DEF Unmoved
  <2>2. ASSUME NEW k \in 1..(pos' - 1) PROVE task'[Order[k]] # "none" \/ poolErr' # "none"
    <3>1. k \in 1..(pos - 1) \/ k = pos
      BY <1>1
    <3> QED BY <1>2, <3>1 DEF Submitted, Unmoved
  <2>3. ASSUME NEW d \in BaselineLayers, task'[d] # "none"
        PROVE  \E k \in 1..(pos' - 1) : Order[k] = d
    <3>1. PICK k \in 1..(pos - 1) : Order[k] = d
      BY <1>2, <2>3 DEF Submitted
    <3>2. k \in 1..(pos' - 1)
      BY <1>1
    <3> QED BY <3>1, <3>2
  <2> QED BY <2>1, <2>2, <2>3 DEF Submitted
<1>5. pos' \in 1..(Len(Order) + 1)
  BY <1>1
<1> QED BY <1>1, <1>3, <1>4, <1>5, LoopKeeps

LEMMA StepCheck == ASSUME ExportInv, Check PROVE ExportInv'
<1>1. /\ phase = "prime" /\ pos <= Len(Order) /\ ~checked
      /\ Unmoved /\ task' = task
      /\ \/ Seen(pos) /\ pos' = pos + 1 /\ checked' = checked /\ poolErr' = poolErr
         \/ poolDone /\ poolErr' = "ctx" /\ pos' = pos + 1 /\ checked' = FALSE
         \/ ~Seen(pos) /\ checked' = TRUE /\ pos' = pos /\ poolErr' = poolErr
  BY DEF Check, Refuse, inputs, disk, Unmoved
<1>2. pos \in 1..(Len(Order) + 1) /\ task \in [BaselineLayers -> Location] /\ Submitted /\ Causes
      /\ \A d \in BaselineLayers : Spooled(d)
  BY <1>1 DEF ExportInv, ExportTypes, Priming
<1>3. poolErr # "none" => cancelled
  BY <1>2 DEF Causes
<1>4. CASE Seen(pos) /\ pos' = pos + 1 /\ checked' = checked /\ poolErr' = poolErr
  <2>1. PICK h \in 1..(pos - 1) : Order[h] = Order[pos]
    BY <1>4 DEF Seen
  <2>2. task[Order[pos]] # "none" \/ poolErr' # "none"
    BY <1>2, <1>4, <2>1 DEF Submitted
  <2>3. checked' = FALSE
    BY <1>1, <1>4, <1>2 DEF ExportInv
  <2> QED BY <1>1, <1>3, <1>4, <2>2, <2>3, Past
<1>5. CASE poolDone /\ poolErr' = "ctx" /\ pos' = pos + 1 /\ checked' = FALSE
  <2>1. cancelled
    BY <1>2, <1>5 DEF Causes
  <2> QED BY <1>1, <1>5, <2>1, Past
<1>6. CASE ~Seen(pos) /\ checked' = TRUE /\ pos' = pos /\ poolErr' = poolErr
  <2>1. \A d \in BaselineLayers : Spooled(d)'
    BY <1>1, <1>2, SpooledStays DEF Unmoved
  <2>2. Submitted'
    BY <1>1, <1>2, <1>6 DEF Submitted, Unmoved, Seen
  <2>3. pos' \in 1..(Len(Order) + 1) /\ task' \in [BaselineLayers -> Location]
        /\ (poolErr' # "none" => cancelled)
    BY <1>1, <1>2, <1>3, <1>6
  <2> QED BY ONLY ExportInv, <1>1, <2>1, <2>2, <2>3, LoopKeeps
<1> QED BY <1>1, <1>4, <1>5, <1>6

LEMMA StepSelect == ASSUME ExportInv, Select PROVE ExportInv'
<1>1. /\ phase = "prime" /\ checked /\ Unmoved
      /\ pos' = pos + 1 /\ checked' = FALSE
      /\ \/ poolDone /\ poolErr' = "ctx" /\ task' = task
         \/ poolErr' = poolErr /\ task' = [task EXCEPT ![Order[pos]] = "fetch"]
  BY DEF Select, Refuse, inputs, disk, Unmoved
<1>2. pos \in 1..(Len(Order) + 1) /\ task \in [BaselineLayers -> Location] /\ Submitted /\ Causes
      /\ \A d \in BaselineLayers : Spooled(d)
  BY <1>1 DEF ExportInv, ExportTypes, Priming
<1>3. pos <= Len(Order) /\ ~Seen(pos)
  BY <1>1, <1>2 DEF Submitted
<1>4. CASE poolDone /\ poolErr' = "ctx" /\ task' = task
  <2>1. cancelled
    BY <1>2, <1>4 DEF Causes
  <2> QED BY <1>1, <1>3, <1>4, <2>1, Past
<1>5. CASE poolErr' = poolErr /\ task' = [task EXCEPT ![Order[pos]] = "fetch"]
  <2>1. Len(Order) \in Nat /\ Order \in Seq(BaselineLayers)
    BY LayersAreListed
  <2>2. pos \in 1..Len(Order) /\ Order[pos] \in BaselineLayers
    BY <1>2, <1>3, <2>1
  <2>3. task[Order[pos]] = "none"
    BY <1>2, <1>3, <2>2 DEF Submitted, Seen
  <2>4. task' \in [BaselineLayers -> Location]
    BY <1>2, <1>5 DEF Location
  <2>5. ASSUME NEW d \in BaselineLayers PROVE Spooled(d)'
    <3>1. CASE d = Order[pos]
      <4>1. task'[d] = "fetch" /\ d \notin entries
        BY <1>2, <1>5, <2>3, <3>1 DEF Spooled
      <4> QED BY <1>1, <4>1 DEF Spooled, Kept, Excused, Unmoved
    <3>2. CASE d # Order[pos]
      <4>1. task'[d] = task[d]
        BY <1>2, <1>5, <3>2
      <4> QED BY <1>1, <1>2, <4>1 DEF Spooled, Kept, Excused, Unmoved
    <3> QED BY <3>1, <3>2
  <2>6. Submitted'
    <3>1. ~checked' /\ phase' = "prime"
      BY <1>1 DEF Unmoved
    <3>2. ASSUME NEW k \in 1..(pos' - 1) PROVE task'[Order[k]] # "none" \/ poolErr' # "none"
      <4>1. k \in 1..(pos - 1) \/ k = pos
        BY <1>1, <1>2, <2>1
      <4>2. Order[k] \in BaselineLayers
        BY <4>1, <2>1, <2>2
      <4>3. task'[Order[k]] = IF Order[k] = Order[pos] THEN "fetch" ELSE task[Order[k]]
        BY <1>2, <1>5, <4>2
      <4> QED BY <1>1, <1>2, <1>5, <4>1, <4>3 DEF Submitted, Unmoved
    <3>3. ASSUME NEW d \in BaselineLayers, task'[d] # "none"
          PROVE  \E k \in 1..(pos' - 1) : Order[k] = d
      <4>1. CASE d = Order[pos]
        BY <1>1, <2>1, <2>2, <4>1
      <4>2. CASE d # Order[pos]
        <5>1. task[d] # "none"
          BY <1>2, <1>5, <3>3, <4>2
        <5>2. PICK k \in 1..(pos - 1) : Order[k] = d
          BY <1>2, <5>1 DEF Submitted
        <5>3. k \in 1..(pos' - 1)
          BY <1>1, <2>2
        <5> QED BY <5>2, <5>3
      <4> QED BY <4>1, <4>2
    <3> QED BY <3>1, <3>2, <3>3 DEF Submitted
  <2>7. pos' \in 1..(Len(Order) + 1) /\ (poolErr' # "none" => cancelled)
    BY <1>1, <1>2, <1>5, <2>1, <2>2 DEF Causes
  <2> QED BY ONLY ExportInv, <1>1, <2>4, <2>5, <2>6, <2>7, LoopKeeps
<1> QED BY <1>1, <1>4, <1>5

\* A step of one worker: what it leaves alone, and what is left to show of it.
Elsewhere(d, t) ==
  /\ task' = [task EXCEPT ![d] = t]
  /\ UNCHANGED <<source, runs, signing, phase, result, cancelled, poolDone, pos, checked,
                 archive, sig>>
  /\ \A e \in BaselineLayers \ {d} :
       /\ files'[e] = files[e] /\ (e \in entries' <=> e \in entries)
       /\ (e \in unwritten' <=> e \in unwritten)

LEMMA WorkerKeeps ==
  ASSUME ExportInv,
         NEW d \in BaselineLayers, NEW t \in Location \ {"none"}, Elsewhere(d, t),
         task[d] \notin {"none", "done"}, files' \in [BaselineLayers -> Content],
         entries' \subseteq BaselineLayers, unwritten' \subseteq BaselineLayers, Spooled(d)',
         poolErr' # "none" => cancelled, poolErr # "none" => poolErr' # "none"
  PROVE  ExportInv'
<1> USE DEF Elsewhere
<1>1. phase = "prime" /\ task \in [BaselineLayers -> Location] /\ Submitted
      /\ (\A e \in BaselineLayers : Spooled(e)) /\ Order \in Seq(BaselineLayers)
      /\ pos \in 1..(Len(Order) + 1) /\ Len(Order) \in Nat
  BY LayersAreListed DEF ExportInv, ExportTypes, AtWork, Priming
<1>2. task' \in [BaselineLayers -> Location]
      /\ \A e \in BaselineLayers : task'[e] = IF e = d THEN t ELSE task[e]
  BY <1>1
<1>3. ExportTypes'
  BY <1>2 DEF ExportInv, ExportTypes, Phase, Extent, SourceKind
<1>4. AtWork' /\ Causes' /\ Emptied'
  BY <1>1 DEF ExportInv, AtWork, Causes, Emptied
<1>5. Submitted'
  <2>1. \A k \in 1..(pos - 1) : Order[k] \in BaselineLayers
    BY <1>1
  <2>2. \A k \in 1..(pos' - 1) : task'[Order[k]] # "none" \/ poolErr' # "none"
    BY <1>1, <1>2, <2>1 DEF Submitted
  <2>3. \A e \in BaselineLayers : task'[e] # "none" => \E k \in 1..(pos' - 1) : Order[k] = e
    BY <1>1, <1>2 DEF Submitted
  <2> QED BY <1>1, <2>2, <2>3 DEF Submitted, Seen
<1>6. \A e \in BaselineLayers : Spooled(e)'
  <2> TAKE e \in BaselineLayers
  <2>1. CASE e = d
    BY <2>1
  <2>2. CASE e # d
    <3>1. /\ task'[e] = task[e] /\ files'[e] = files[e]
          /\ (e \in entries' <=> e \in entries) /\ (e \in unwritten' <=> e \in unwritten)
      BY <1>2, <2>2
    <3> QED BY <1>1, <3>1 DEF Spooled, Kept, Excused
  <2> QED BY <2>1, <2>2
<1>7. OnPath'
  BY <1>1 DEF ExportInv, OnPath, NilMeansComplete, SignedIsComplete
<1> QED BY <1>3, <1>4, <1>5, <1>6, <1>7 DEF ExportInv, Priming

LEMMA StepFetchLayer ==
  ASSUME ExportInv, NEW d \in BaselineLayers, Fetch(d) PROVE ExportInv'
<1>1. /\ task[d] = "fetch" /\ poolErr' = poolErr /\ entries' = entries
      /\ UNCHANGED <<source, runs, signing, phase, result, cancelled, poolDone, pos,
                     checked, archive, sig>>
      /\ \/ /\ source[d] = "gone" \/ cancelled
            /\ task' = [task EXCEPT ![d] = "fail"] /\ files' = files
            /\ unwritten' = unwritten
         \/ /\ source[d] # "gone" /\ unwritten' = unwritten
            /\ files' = [files EXCEPT ![d] = "part"] /\ task' = [task EXCEPT ![d] = "stream"]
         \/ /\ unwritten' = unwritten \cup {d}
            /\ task' = [task EXCEPT ![d] = "fail"] /\ files' = files
  BY DEF Fetch, WriteFails, At, worker, inputs, disk
<1>2. files \in [BaselineLayers -> Content] /\ task \in [BaselineLayers -> Location]
      /\ Spooled(d) /\ entries \subseteq BaselineLayers /\ unwritten \subseteq BaselineLayers
      /\ (poolErr # "none" => cancelled)
  BY <1>1 DEF ExportInv, ExportTypes, AtWork, Priming, Causes
<1>3. d \notin entries /\ unwritten' \subseteq BaselineLayers
  BY <1>1, <1>2 DEF Spooled
<1>4. CASE /\ source[d] = "gone" \/ cancelled
           /\ task' = [task EXCEPT ![d] = "fail"] /\ files' = files /\ unwritten' = unwritten
  <2>1. Elsewhere(d, "fail")
    BY <1>1, <1>4 DEF Elsewhere
  <2>2. Spooled(d)'
    BY <1>1, <1>2, <1>3, <1>4 DEF Spooled, Excused
  <2>3. "fail" \in Location \ {"none"}
    BY DEF Location
  <2> QED BY <1>1, <1>2, <1>3, <1>4, <2>1, <2>2, <2>3, WorkerKeeps
<1>5. CASE /\ source[d] # "gone" /\ unwritten' = unwritten
           /\ files' = [files EXCEPT ![d] = "part"] /\ task' = [task EXCEPT ![d] = "stream"]
  <2>1. Elsewhere(d, "stream")
    BY <1>1, <1>2, <1>5 DEF Elsewhere
  <2>2. Spooled(d)'
    BY <1>1, <1>2, <1>3, <1>5 DEF Spooled
  <2>3. "stream" \in Location \ {"none"} /\ files' \in [BaselineLayers -> Content]
    BY <1>2, <1>5 DEF Location, Content
  <2> QED BY <1>1, <1>2, <1>3, <2>1, <2>2, <2>3, WorkerKeeps
<1>6. CASE /\ unwritten' = unwritten \cup {d}
           /\ task' = [task EXCEPT ![d] = "fail"] /\ files' = files
  <2>1. Elsewhere(d, "fail")
    BY <1>1, <1>6 DEF Elsewhere
  <2>2. Spooled(d)'
    BY <1>1, <1>2, <1>3, <1>6 DEF Spooled, Excused
  <2>3. "fail" \in Location \ {"none"}
    BY DEF Location
  <2> QED BY <1>1, <1>2, <1>3, <1>6, <2>1, <2>2, <2>3, WorkerKeeps
<1> QED BY <1>1, <1>4, <1>5, <1>6

LEMMA StepStreamLayer ==
  ASSUME ExportInv, NEW d \in BaselineLayers, Stream(d) PROVE ExportInv'
<1>1. /\ task[d] = "stream" /\ poolErr' = poolErr /\ entries' = entries
      /\ UNCHANGED <<source, runs, signing, phase, result, cancelled, poolDone, pos,
                     checked, archive, sig>>
      /\ unwritten' \in {unwritten, unwritten \cup {d}}
      /\ \/ /\ source[d] = "cut" \/ cancelled \/ d \in unwritten'
            /\ task' = [task EXCEPT ![d] = "fail"] /\ files' = [files EXCEPT ![d] = "none"]
         \/ /\ source[d] # "cut" /\ task' = [task EXCEPT ![d] = "commit"]
            /\ \/ files' = [files EXCEPT ![d] = source[d]]
               \/ d \in unwritten' /\ files' = [files EXCEPT ![d] = "short"]
  BY DEF Stream, WriteFails, At, worker, inputs, disk
<1>2. files \in [BaselineLayers -> Content] /\ task \in [BaselineLayers -> Location]
      /\ source \in [BaselineLayers -> SourceKind]
      /\ Spooled(d) /\ entries \subseteq BaselineLayers /\ unwritten \subseteq BaselineLayers
      /\ (poolErr # "none" => cancelled)
  BY <1>1 DEF ExportInv, ExportTypes, AtWork, Priming, Causes
<1>3. d \notin entries /\ source[d] \in {"whole", "wrong", "cut"}
      /\ unwritten' \subseteq BaselineLayers
      /\ \A e \in BaselineLayers \ {d} : e \in unwritten' <=> e \in unwritten
  BY <1>1, <1>2 DEF Spooled, SourceKind
<1>4. CASE /\ source[d] = "cut" \/ cancelled \/ d \in unwritten'
           /\ task' = [task EXCEPT ![d] = "fail"] /\ files' = [files EXCEPT ![d] = "none"]
  <2>1. Elsewhere(d, "fail")
    BY <1>1, <1>2, <1>3, <1>4 DEF Elsewhere
  <2>2. Spooled(d)'
    BY <1>1, <1>2, <1>3, <1>4 DEF Spooled, Excused
  <2>3. "fail" \in Location \ {"none"} /\ files' \in [BaselineLayers -> Content]
    BY <1>2, <1>4 DEF Location, Content
  <2> QED BY <1>1, <1>2, <1>3, <2>1, <2>2, <2>3, WorkerKeeps
<1>5. CASE /\ source[d] # "cut" /\ task' = [task EXCEPT ![d] = "commit"]
           /\ \/ files' = [files EXCEPT ![d] = source[d]]
              \/ d \in unwritten' /\ files' = [files EXCEPT ![d] = "short"]
  <2>1. Elsewhere(d, "commit")
    BY <1>1, <1>2, <1>3, <1>5 DEF Elsewhere
  <2>2. Spooled(d)'
    BY <1>1, <1>2, <1>3, <1>5 DEF Spooled, Kept
  <2>3. "commit" \in Location \ {"none"} /\ files' \in [BaselineLayers -> Content]
    BY <1>2, <1>3, <1>5 DEF Location, Content
  <2> QED BY <1>1, <1>2, <1>3, <2>1, <2>2, <2>3, WorkerKeeps
<1> QED BY <1>1, <1>4, <1>5

LEMMA StepCommitLayer ==
  ASSUME ExportInv, NEW d \in BaselineLayers, Commit(d) PROVE ExportInv'
<1>1. /\ task[d] = "commit" /\ poolErr' = poolErr /\ entries' = entries \cup {d}
      /\ files' = files /\ task' = [task EXCEPT ![d] = "done"]
      /\ UNCHANGED <<source, runs, signing, phase, result, cancelled, poolDone, pos,
                     checked, unwritten, archive, sig>>
  BY DEF Commit, At, worker, inputs, disk
<1>2. files \in [BaselineLayers -> Content] /\ task \in [BaselineLayers -> Location]
      /\ Spooled(d) /\ entries \subseteq BaselineLayers /\ unwritten \subseteq BaselineLayers
      /\ (poolErr # "none" => cancelled)
  BY <1>1 DEF ExportInv, ExportTypes, AtWork, Priming, Causes
<1>3. Elsewhere(d, "done")
  BY <1>1 DEF Elsewhere
<1>4. Spooled(d)'
  BY <1>1, <1>2 DEF Spooled, Kept, Excused
<1>5. "done" \in Location \ {"none"} /\ entries' \subseteq BaselineLayers
  BY <1>1, <1>2 DEF Location
<1> QED BY <1>1, <1>2, <1>3, <1>4, <1>5, WorkerKeeps

LEMMA StepFailLayer ==
  ASSUME ExportInv, NEW d \in BaselineLayers, Fail(d) PROVE ExportInv'
<1>1. /\ task[d] = "fail" /\ poolErr' = (IF poolDone THEN "ctx" ELSE poolErr)
      /\ files' = files /\ entries' = entries /\ task' = [task EXCEPT ![d] = "done"]
      /\ UNCHANGED <<source, runs, signing, phase, result, cancelled, poolDone, pos,
                     checked, unwritten, archive, sig>>
  BY DEF Fail, At, worker, inputs, disk
<1>2. files \in [BaselineLayers -> Content] /\ task \in [BaselineLayers -> Location]
      /\ Spooled(d) /\ entries \subseteq BaselineLayers /\ unwritten \subseteq BaselineLayers
      /\ (poolErr # "none" => cancelled) /\ (poolDone => cancelled)
  BY <1>1 DEF ExportInv, ExportTypes, AtWork, Priming, Causes
<1>3. Elsewhere(d, "done")
  BY <1>1 DEF Elsewhere
<1>4. Spooled(d)'
  BY <1>1, <1>2 DEF Spooled, Kept, Excused
<1>5. "done" \in Location \ {"none"}
  BY DEF Location
<1>6. (poolErr' # "none" => cancelled) /\ (poolErr # "none" => poolErr' # "none")
  BY <1>1, <1>2
<1> QED BY <1>1, <1>2, <1>3, <1>4, <1>5, <1>6, WorkerKeeps

LEMMA ExportStep == ASSUME ExportInv, [ExportNext]_exportVars PROVE ExportInv'
<1>1. CASE Start BY <1>1, StepStart
<1>2. CASE Cancel BY <1>2, StepCancel
<1>3. CASE Propagate BY <1>3, StepPropagate
<1>4. CASE Crash BY <1>4, StepCrash
<1>5. CASE PlanPairs BY <1>5, StepPlan
<1>6. CASE Check BY <1>6, StepCheck
<1>7. CASE Select BY <1>7, StepSelect
<1>8. CASE Wait BY <1>8, StepWaitPool
<1>9. CASE Encode BY <1>9, StepEncodeAll
<1>10. CASE Create BY <1>10, StepCreateFile
<1>11. CASE Write BY <1>11, StepWriteAll
<1>12. CASE Sign BY <1>12, StepSignAll
<1>13. CASE Truncate BY <1>13, StepTruncate
<1>14. CASE WriteSig BY <1>14, StepWriteSig
<1>15. ASSUME NEW d \in BaselineLayers, Worker(d) PROVE ExportInv'
  BY <1>15, StepFetchLayer, StepStreamLayer, StepCommitLayer, StepFailLayer DEF Worker
<1>16. CASE UNCHANGED exportVars BY <1>16, StepStay
<1> QED BY <1>1, <1>2, <1>3, <1>4, <1>5, <1>6, <1>7, <1>8, <1>9, <1>10, <1>11, <1>12,
           <1>13, <1>14, <1>15, <1>16 DEF ExportNext, Main

\* What every state of an export satisfies: the types, the layers the loop has
\* given away, what a worker has done with its layer, and what is on disk.
THEOREM ExportInvariant == ExportSpec => []ExportInv
<1>1. ExportInit => ExportInv BY ExportStarts
<1>2. ExportInv /\ [ExportNext]_exportVars => ExportInv' BY ExportStep
<1> QED BY <1>1, <1>2, PTL DEF ExportSpec

\* A layer the spool remembers is on disk as its source served it in this run,
\* although files have their final names and a crashed run may have left some; but
\* for the bytes that a failed write lost under the fingerprinter.
THEOREM SpoolIsAsServed == ExportSpec => []SpooledAsServed
<1>1. ExportInv => SpooledAsServed
  BY DEF ExportInv, ExportTypes, Priming, Spooled, Kept, SpooledAsServed
<1> QED BY <1>1, ExportInvariant, PTL

\* Priming ends with every layer spooled that can be had and written, whatever
\* became of the others; only a cancellation makes it fail, and one that kept a
\* layer from being tried does.
THEOREM PrimingFailsSoft == ExportSpec => []PrimingIsFailSoft
<1>1. ExportInv => PrimingIsFailSoft
  <2> SUFFICES ASSUME ExportInv PROVE PrimingIsFailSoft
    OBVIOUS
  <2>1. OnlyCancellationEndsPriming
    BY DEF ExportInv, Causes, OnlyCancellationEndsPriming
  <2>2. ASSUME PastPriming PROVE \A d \in BaselineLayers : task[d] = "done" /\ Spooled(d)
    <3>1. Submitted /\ (\A d \in BaselineLayers : Spooled(d)) /\ Calm
          /\ pos \in 1..(Len(Order) + 1)
      BY <2>2, CalmAfterPriming DEF PastPriming, ExportInv, ExportTypes, Priming
    <3>2. pos > Len(Order) /\ Len(Order) \in Nat /\ poolErr = "none"
      BY <2>2, <3>1, LayersAreListed DEF PastPriming, Submitted
    <3> TAKE d \in BaselineLayers
    <3>3. PICK k \in 1..Len(Order) : Order[k] = d
      BY LayersAreListed
    <3>4. k \in 1..(pos - 1)
      BY <3>1, <3>2
    <3> QED BY <3>1, <3>2, <3>3, <3>4 DEF Submitted, Calm
  <2>3. PrimedUnlessCancelled
    <3>1. entries \subseteq BaselineLayers
      BY DEF ExportInv, ExportTypes
    <3> QED BY <2>2, <3>1 DEF PrimedUnlessCancelled, Spooled, Kept, Excused
  <2>4. RefusalReported
    BY <2>2 DEF RefusalReported
  <2> QED BY <2>1, <2>3, <2>4 DEF PrimingIsFailSoft
<1> QED BY <1>1, ExportInvariant, PTL

\* Export returns nil only with this run's whole archive, and its signature when a
\* key was given; and no signature lies beside an archive that misses entries.
THEOREM NilIsAWholeArchive == ExportSpec => []ArchiveIsComplete
<1>1. ExportInv => ArchiveIsComplete
  BY DEF ExportInv, OnPath, ArchiveIsComplete
<1> QED BY <1>1, ExportInvariant, PTL

\* A run that returns leaves nothing in its work directory and no worker.
THEOREM WorkdirIsEmptied == ExportSpec => []WorkdirEmptied
<1>1. ExportInv => WorkdirEmptied
  BY DEF ExportInv, Emptied, AtWork, WorkdirEmptied, Running
<1> QED BY <1>1, ExportInvariant, PTL
===============================================================================
