----------------------------- MODULE ImageReview -----------------------------
(***************************************************************************)
(* What the webhook and the background job have in common when they look   *)
(* at one image (pkg/kritis/review, pkg/kritis/metadata): which images     *)
(* need a review, what the metadata client answers, and what becomes of    *)
(* the answer.  "ok" tells whether the call to the server succeeds, occs   *)
(* and vulnz are what the server holds.                                    *)
(*                                                                         *)
(* The Container Analysis client has a cache.  It remembers failed lookups *)
(* only, as empty results, and by image only, so a cache is a set of       *)
(* images.                                                                 *)
(***************************************************************************)
EXTENDS SecurityPolicy, Attestations

CONSTANTS
    Images,            \* image references
    GlobalImageAllowlist, \* images of the repositories that are always allowed
    FullyQualified,    \* images that parse as a digest, WeakValidation
    StrictDigest,      \* images that parse as a digest, StrictValidation
    OnGCR,             \* images hosted on a GCR registry
    Metadata           \* the configured backend

GrafeasMetadata == "grafeas"
ContainerAnalysisMetadata == "containerAnalysis"

ASSUME ImageAssumption ==
    /\ Metadata \in {GrafeasMetadata, ContainerAnalysisMetadata}
    /\ GlobalImageAllowlist \subseteq Images
    /\ StrictDigest \subseteq FullyQualified

\* SplitGloballyAllowedImages, the images that are not allowed.
notGloballyAllowed(images) == images \ GlobalImageAllowlist

\* Container Analysis refuses an image that is not on GCR before it asks.
isServed(image) == Metadata = GrafeasMetadata \/ image \in OnGCR

\* NewVerifier wants a digest.
NewVerifier(image) == image \in StrictDigest

\* GetValidatedAttestations gives up before it asks the client.
noVerifier(a, image) == parsePublicKeys(a.keys) = {} \/ ~NewVerifier(image)

\* isAttestedBy makes a call to the metadata server.
attestationCall(cache, a, image) == ~noVerifier(a, image) /\ image \notin cache

\* That call returns attestations and not an error.
attestationsFetched(occs, a, image, ok) ==
    ok /\ isServed(image) /\ attestationsParse(occs, a.note, image)

\* Mutant: a failed lookup counts as an attestation.
isAttestedBy_errorAttests(cache, occs, a, image, ok) ==
    /\ attestationCall(cache, a, image)
    /\ ~attestationsFetched(occs, a, image, ok) \/ hasValidatedAttestation(a, occs, image)

\* isAttestedBy: any error counts as not attested.
isAttestedBy(cache, occs, a, image, ok) ==
    /\ attestationCall(cache, a, image)
    /\ attestationsFetched(occs, a, image, ok)
    /\ hasValidatedAttestation(a, occs, image)

\* Mutant: the Grafeas client has the cache as well.
attCacheAfter_anyBackend(cache, occs, a, image, ok) ==
    IF attestationCall(cache, a, image) /\ ~attestationsFetched(occs, a, image, ok)
    THEN cache \cup {image}
    ELSE cache

attCacheAfter(cache, occs, a, image, ok) ==
    IF /\ attestationCall(cache, a, image)
       /\ ~attestationsFetched(occs, a, image, ok)
       /\ Metadata = ContainerAnalysisMetadata
    THEN cache \cup {image}
    ELSE cache

\* ValidateImageSecurityPolicy asks the client for vulnerabilities.
vulnerabilityCall(isp, image) ==
    image \notin isp.ImageAllowlist /\ image \in FullyQualified

\* Mutants: a failed lookup means no vulnerabilities, or a violation.
validate_errorIsClean(isp, image, vulnz, ok) ==
    CASE image \in isp.ImageAllowlist -> "clean"
      [] image \notin isp.ImageAllowlist /\ image \notin FullyQualified -> "violation"
      [] OTHER -> validateVulnz(isp, IF ok /\ isServed(image) THEN vulnz ELSE {})

validate_errorIsViolation(isp, image, vulnz, ok) ==
    IF vulnerabilityCall(isp, image) /\ ~ok THEN "violation"
    ELSE validate_errorIsClean(isp, image, vulnz, ok)

\* ValidateImageSecurityPolicy: violations, an error, or neither.
validate(isp, image, vulnz, ok) ==
    CASE image \in isp.ImageAllowlist -> "clean"
      [] image \notin isp.ImageAllowlist /\ image \notin FullyQualified -> "violation"
      [] vulnerabilityCall(isp, image) /\ ~(ok /\ isServed(image)) -> "error"
      [] OTHER -> validateVulnz(isp, vulnz)

=============================================================================
