------------------------------- MODULE Errors -------------------------------
(***************************************************************************)
(* Errors and what becomes of them: the exit code of the process           *)
(* (pkg/diff/errs), the typed errors and their categories (pkg/diff,       *)
(* pkg/importer, pkg/signer), the registry's errors told apart by what     *)
(* their messages say (pkg/diff/classify_registry.go).                     *)
(*                                                                         *)
(* An error is a chain of wrapped errors. What the code asks of a chain is *)
(* the category its first typed link reports, which errors of the standard *)
(* library are in it, and which of the phrases looked for its message has; *)
(* an error is a record of these three. NoError is the nil error.          *)
(*                                                                         *)
(* An operator whose name ends in Faulty is no part of the model: it is    *)
(* the definition after it with a plausible mistake, kept to show which    *)
(* property notices that mistake.                                          *)
(***************************************************************************)
EXTENDS FiniteSets

Category == {"internal", "user", "environment", "content"}

\* The errors of Go's libraries that the code looks for in a chain.
Foreign == {"canceled", "url", "netop", "path", "permission", "notexist"}

\* The phrases: a name for each list of needles.
Phrase == {"auth", "missing", "invalid", "transient", "unknown blob", "usage"}

Error == [cat : Category \cup {"none"}, wraps : SUBSET Foreign, says : SUBSET Phrase]

NoError == [cat |-> "nil", wraps |-> {}, says |-> {}]

\* An error nobody recognises, and one of each library error and phrase.
Plain == [cat |-> "none", wraps |-> {}, says |-> {}]
Raw(wraps, says) == [Plain EXCEPT !.wraps = wraps, !.says = says]

Canceled == Raw({"canceled"}, {})

-----------------------------------------------------------------------------
(* Exit codes.                                                             *)

ExitCode(c) ==
  CASE c = "internal"    -> 1
    [] c = "user"        -> 2
    [] c = "environment" -> 3
    [] c = "content"     -> 4

\* The typed link that comes first decides; then a context that is done, the
\* network, the file system, cobra's messages.
Classify(e) ==
  CASE e.cat # "none"                                    -> e.cat
    [] e.cat = "none" /\ e.wraps # {}                    -> "environment"
    [] e.cat = "none" /\ e.wraps = {} /\ "usage" \in e.says -> "user"
    [] OTHER                                             -> "internal"

\* classifyAndExit
Exit(e) == IF e = NoError THEN 0 ELSE ExitCode(Classify(e))
-----------------------------------------------------------------------------
(* The typed errors.                                                       *)

UserErrors ==
  {"ErrManifestListUnselected", "ErrBaselineMissingBlob", "ErrIncompatibleOutputFormat",
   "ErrUnknownImageFormat", "ErrBaselineMissingPatchRef", "ErrIntraLayerUnsupported",
   "ErrMultiImageNeedsNamedBaselines", "ErrBaselineNameUnknown", "ErrBaselineMismatch",
   "ErrBaselineMissing", "ErrInvalidBundleSpec", "ErrBundleSpecMissingTransport",
   "ErrDuplicateBundleName", "ErrRegistryAuth"}

ContentErrors ==
  {"ErrSidecarSchema", "ErrNotADiffahArchive", "ErrDigestMismatch",
   "ErrIntraLayerAssemblyMismatch", "ErrBaselineBlobDigestMismatch",
   "ErrShippedBlobDigestMismatch", "ErrPhase1Archive", "ErrUnknownBundleVersion",
   "ErrInvalidBundleFormat", "ErrRegistryManifestMissing", "ErrRegistryManifestInvalid"}

\* pkg/importer/errors.go
ApplyErrors ==
  {"ErrMissingPatchSource", "ErrMissingBaselineReuseLayer", "ErrApplyInvariantFailed"}

\* pkg/signer/errors.go
KeyErrors       == {"ErrKeyEncrypted", "ErrKeyPassphraseIncorrect", "ErrKeyUnsupportedKDF"}
SignatureErrors == {"ErrSignatureInvalid", "ErrArchiveUnsigned"}

ErrorType == UserErrors \cup ContentErrors \cup ApplyErrors \cup KeyErrors \cup SignatureErrors

\* An error of this type. (One of them has a phrase in its own message.)
Typed(t) ==
  [cat   |-> IF t \in UserErrors \cup KeyErrors THEN "user" ELSE "content",
   wraps |-> {},
   says  |-> IF t = "ErrRegistryManifestMissing" THEN {"missing"} ELSE {}]

\* zstdpatch.ErrZstdBinaryMissing
ErrZstdBinaryMissing == [Plain EXCEPT !.cat = "environment"]

\* fmt.Errorf("...: %w", e), where the text put in front may have phrases too.
Wrap(e, says) == [e EXCEPT !.says = @ \cup says]

\* ErrRegistryNetwork keeps its cause.
RegistryNetwork(cause) == [cause EXCEPT !.cat = "environment"]

\* ErrSourceManifestUnreadable takes its category from its cause.
SourceManifestUnreadable(cause) ==
  LET c == Classify(cause)
  IN  [cause EXCEPT !.cat = IF c = "internal" THEN "environment" ELSE c]
-----------------------------------------------------------------------------
(* The registry's errors.                                                  *)

ClassifyRegistryErrFaulty(e) ==
  IF e.wraps \cap {"url", "netop"} # {} THEN RegistryNetwork(e) ELSE e

ClassifyRegistryErr(e) ==
  CASE "auth" \in e.says                          -> Typed("ErrRegistryAuth")
    [] "auth" \notin e.says /\ "missing" \in e.says -> Typed("ErrRegistryManifestMissing")
    [] e.says \cap {"auth", "missing"} = {} /\ "invalid" \in e.says ->
         Wrap(Typed("ErrRegistryManifestInvalid"), e.says)
    [] OTHER -> IF e.wraps \cap {"url", "netop"} # {} THEN RegistryNetwork(e) ELSE e

\* IsRetryableRegistryErr: what a message says, or any error of the network.
IsRetryable(e) == "transient" \in e.says \/ e.wraps \cap {"url", "netop"} # {}

\* isBlobNotFound
IsBlobNotFound(e) == "notexist" \in e.wraps \/ "unknown blob" \in e.says
=============================================================================
