------------------------------- MODULE Command -------------------------------
(***************************************************************************)
(* The command line (cmd, pkg/config, pkg/diff's spec files,               *)
(* internal/imageio): what the verbs make of their arguments, flags,       *)
(* configuration file and specification files, and what they refuse.       *)
(*                                                                         *)
(* An invocation is a record with one field for each thing a user decides. *)
(* A flag is the set of what follows it, empty when it is not given. Texts *)
(* are abstracted to what the code tells apart: a number, the text auto, a *)
(* text that is neither; a reference that parses or the way it does not.   *)
(*                                                                         *)
(* An operator whose name ends in Faulty is no part of the model: it is    *)
(* the definition after it with a plausible mistake, kept to show which    *)
(* property notices that mistake.                                          *)
(***************************************************************************)
EXTENDS Integers, Sequences, Functions, Errors

CONSTANTS
  Multiplier,  \* [suffixes of --memory-budget -> Nat], in the unit of sizes
  Limit        \* the first number a signed integer of the build cannot hold

ASSUME CommandAssumption ==
  /\ Limit \in Nat \ {0}
  /\ Multiplier \in [DOMAIN Multiplier -> Nat \ {0}]

\* cliErr, and pkg/config's LoadError
Usage == [Plain EXCEPT !.cat = "user"]

Exporting == {"diff", "bundle"}
Importing == {"apply", "unbundle"}
Removed   == {"export", "import"}
Verb      == Exporting \cup Importing \cup Removed \cup {"doctor"}

\* The first error of a sequence of checks, NoError when all of them passed.
First(checks) ==
  IF \A k \in DOMAIN checks : checks[k] = NoError THEN NoError
  ELSE checks[CHOOSE k \in DOMAIN checks :
                checks[k] # NoError /\ \A h \in 1..(k - 1) : checks[h] = NoError]

Unless(ok, err) == IF ok THEN NoError ELSE err
-----------------------------------------------------------------------------
(* Flags and configuration.                                                *)

NoNumber   == -1  \* the text is not a number
AutoWindow == -2  \* the text auto

Default ==
  [platform |-> "linux/amd64", intra |-> "auto", level |-> 22, window |-> AutoWindow,
   workers |-> 8, candidates |-> 3, budget |-> [n |-> 8, suffix |-> "GiB"]]

\* Load: a file that is not there is no error.
LoadConfig(inv) ==
  Unless(inv.verb = "doctor" \/ inv.config.reads, Usage)

\* ApplyTo: the file fills in the flags that were not given.
Setting(inv, o) ==
  IF inv[o] # {} THEN CHOOSE v \in inv[o] : TRUE
  ELSE IF o \in DOMAIN inv.config.sets THEN inv.config.sets[o] ELSE Default[o]

\* n * mult in a signed integer.
Wrapped(n) ==
  LET r == n % (2 * Limit) IN IF r < Limit THEN r ELSE r - 2 * Limit

\* parseMemoryBudget; a negative number is refused before it is multiplied.
MemoryBudget(inv) ==
  LET t == Setting(inv, "budget") IN Wrapped(t.n * Multiplier[t.suffix])

WindowLog(inv) ==
  LET w == Setting(inv, "window") IN IF w = AutoWindow THEN 0 ELSE w

CheckSpool(inv) == Unless(Setting(inv, "budget").n >= 0, Usage)

CheckEncodingFaulty(inv) ==
  First(<<Unless(Setting(inv, "workers") >= 1, Usage),
          Unless(Setting(inv, "candidates") >= 1, Usage),
          Unless(Setting(inv, "level") \in 1..22, Usage),
          Unless(Setting(inv, "window") >= AutoWindow /\ Setting(inv, "window") <= 31, Usage)>>)

CheckEncoding(inv) ==
  First(<<Unless(Setting(inv, "workers") >= 1, Usage),
          Unless(Setting(inv, "candidates") >= 1, Usage),
          Unless(Setting(inv, "level") \in 1..22, Usage),
          Unless(Setting(inv, "window") \in {AutoWindow} \cup 10..31, Usage)>>)
-----------------------------------------------------------------------------
(* Credentials and keys.                                                   *)

\* validateCredentialFlags: one source of credentials at most. A password
\* without a user name counts as one, and is ignored afterwards; an authfile counts
\* as none, and --no-creds drops it.
CredentialSources(creds) ==
  {c \in {"creds", "login", "token", "anonymous"} :
     CASE c = "creds"     -> creds \cap {"creds", "malformed creds"} # {}
       [] c = "login"     -> creds \cap {"username", "password"} # {}
       [] c = "token"     -> "token" \in creds
       [] c = "anonymous" -> "no-creds" \in creds}

CheckCredentials(inv) ==
  LET sources == CredentialSources(inv.creds)
  IN  First(<<Unless(\A c, e \in sources : c = e, Usage),
              Unless("malformed creds" \notin inv.creds, Usage),
              Unless("username" \in inv.creds => "password" \in inv.creds, Usage)>>)

\* rejectKMSURI
CheckKey(key) == Unless(key # "cosign", Usage)

CheckSigning(inv) ==
  First(<<Unless(~inv.keyless, Usage),
          IF inv.key = {} THEN NoError ELSE CheckKey(CHOOSE k \in inv.key : TRUE)>>)

\* A dry run reads the key at once, an export after it wrote the archive.
ProbeKey(inv) ==
  Unless(inv.dry /\ ~inv.keyless => "unreadable" \notin inv.key, Usage)
-----------------------------------------------------------------------------
(* References and specification files.                                     *)

\* ParseImageRef: a good reference is one that is left over.
BadRef == {"", "bare", "reserved", "unsupported", "unparsable"}

CheckRef(ref) == Unless(ref \notin BadRef, Usage)

\* validateTransportRef knows the transports of the library only.
CheckTransport(ref) == ref \notin BadRef \ {"reserved"}

\* The document: unreadable, no JSON, or what it lists.
SpecDefect == {"unreadable", "not json", "directory"}

InvalidSpec == Typed("ErrInvalidBundleSpec")

\* What every document is asked first: that it can be read, and lists something.
CheckDocument(inv) == Unless(inv.defect \notin SpecDefect /\ inv.pairs # <<>>, InvalidSpec)

\* One turn of ParseBundleSpec's loop.
CheckPair(pairs, i) ==
  LET p == pairs[i]
  IN  First(<<Unless(p.name # "bad name", InvalidSpec),
              Unless(\A h \in 1..(i - 1) : pairs[h].name # p.name,
                     Typed("ErrDuplicateBundleName")),
              Unless(p.baseline # "" /\ p.target # "", InvalidSpec),
              Unless(CheckTransport(p.baseline), Typed("ErrBundleSpecMissingTransport")),
              Unless(CheckTransport(p.target), Typed("ErrBundleSpecMissingTransport"))>>)

CheckBundleSpec(inv) ==
  First(<<CheckDocument(inv)>>
        \o [i \in DOMAIN inv.pairs |-> CheckPair(inv.pairs, i)])

\* ParseBaselineSpec and ParseOutputSpec, whose maps are read in any order.
CheckNames(inv) ==
  First(<<CheckDocument(inv)>>
        \o [i \in DOMAIN inv.pairs |->
              Unless(inv.pairs[i].name # "bad name"
                       /\ CheckTransport(inv.pairs[i].baseline), InvalidSpec)]
        \o [i \in DOMAIN inv.pairs |->
              Unless(CheckTransport(inv.pairs[i].target), InvalidSpec)])

\* diff and apply take their two references as arguments.
CheckReferences(inv) ==
  First(<<CheckRef(inv.pairs[1].baseline), CheckRef(inv.pairs[1].target)>>)
-----------------------------------------------------------------------------
(* The verbs, from cobra's parsing to the options they hand on.            *)

\* What follows a flag has to be of the flag's type. The message of pflag has none
\* of the phrases by which a user's error is told. A removed verb parses no flags.
CheckTypes(inv) == Unless(inv.typed \/ inv.verb \in Removed, Plain)

\* The number of arguments is looked at before the hook that loads the file.
CheckArguments(inv) == Unless(inv.arguments, Usage)

PreRun(inv) == First(<<Unless(inv.format \in {"text", "json"}, Usage), LoadConfig(inv)>>)

\* runDiff and buildDiffOptions
DiffOptions(inv) ==
  First(<<CheckReferences(inv), CheckCredentials(inv), CheckSigning(inv),
          CheckEncoding(inv), CheckSpool(inv), ProbeKey(inv)>>)

\* runBundle
BundleOptions(inv) ==
  First(<<CheckBundleSpec(inv), CheckCredentials(inv), CheckSigning(inv),
          CheckEncoding(inv), CheckSpool(inv), ProbeKey(inv)>>)

CheckVerify(inv) ==
  IF inv.key = {} THEN NoError ELSE CheckKey(CHOOSE k \in inv.key : TRUE)

\* runApply and buildApplyOptions; the number of workers is taken as it is.
ApplyOptions(inv) ==
  First(<<CheckReferences(inv), CheckCredentials(inv), CheckVerify(inv),
          CheckSpool(inv)>>)

\* runUnbundle and buildUnbundleOptions
UnbundleOptions(inv) ==
  First(<<CheckNames(inv), CheckCredentials(inv), CheckVerify(inv), CheckSpool(inv)>>)

Options(inv) ==
  CASE inv.verb = "diff"     -> DiffOptions(inv)
    [] inv.verb = "bundle"   -> BundleOptions(inv)
    [] inv.verb = "apply"    -> ApplyOptions(inv)
    [] inv.verb = "unbundle" -> UnbundleOptions(inv)
    [] inv.verb = "doctor"   -> NoError
    [] inv.verb \in Removed  -> Usage

\* runDoctor: every check runs; one that fails, not one that warns, decides.
Diagnosis(verdicts) ==
  Unless(\A k \in DOMAIN verdicts : verdicts[k] # "fail",
         [Plain EXCEPT !.cat = "environment"])
=============================================================================
