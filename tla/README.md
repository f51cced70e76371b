# Kritis in TLA+

A verification project for kritis, the admission controller that lets images
into a Kubernetes cluster only when attestations or vulnerability scans vouch
for them. The modules model the Go code at the level of one call to the
outside per step, TLC checks them on small instances, and TLAPS proves the
safety properties of all of them for all sizes. `PROJECT.json` says for every
definition which lines it models, and lists the runs, the mutants, the hazards,
the findings and the theorems.

## The system

| Component | State it keeps | Operations | Module |
|---|---|---|---|
| Admission webhook (`pkg/kritis/admission`) | per request: the response under construction | `ReviewHandler`, owners, breakglass, the two reviews | `Admission` |
| Policy review (`pkg/kritis/review`) | loop positions, bad images | `ReviewGAP`, `ReviewISP`, `addAttestation` | `ImageReview`, `Admission`, `Cron` |
| ImageSecurityPolicy (`crd/securitypolicy`) | none | `ValidateImageSecurityPolicy` | `SecurityPolicy` |
| Attestations (`review/validating_transport.go`, `pkg/attestlib`) | none | which attestations an authority vouches for; signers and verifiers of four kinds | `Attestations`, `Signatures`, `Verification` |
| Container Analysis client (`metadata/containeranalysis`) | the negative cache | lookups, notes, occurrences | `ImageReview` and its users |
| Grafeas client (`metadata/grafeas`) | the pages read so far | set-up, paging, parsing, upload, deletion | `Verification`, `MetadataBackend` |
| Server start-up (`cmd/kritis/admission`, `crd/kritisconfig`) | the configuration | configuration, certificates, background job | `MetadataBackend`, `Verification` |
| Image allowlists (`util/allowlist.go`) | none | matching by reference and by pattern | `Allowlist` |
| Standalone attestor (`docs/standalone`) | none | note, attestation, occurrence | `Verification` |
| Background job (`pkg/kritis/cron`, `cmd/kritis/admission`) | one client per process | passes over all pods | `Cron` |
| Pod marks (`pkg/kritis/violation`, `pkg/kritis/pods`) | labels and annotations of pods | four patches | `Cron` |
| Image signer (`cmd/kritis/signer`, `pkg/kritis/signer`) | per invocation: timer, occurrence found | wait, check, overwrite, upload | `Signer` |
| Cloud Build signer (`cmd/kritis/gcbsigner`, `pkg/kritis/gcbsigner`) | per callback: loops | events to attestations, Ack and Nack | `GcbSigner` |
| Helm hooks (`helm-hooks`, `pkg/kritis/install`) | files in the pod; CSR, secret, CRDs, webhooks in the cluster | preinstall, postinstall, predelete | `Install` |
| `resolve-tags` (`kubectl/plugins/resolve`) | files, documents, resolved images | tags to digests, print or apply | `Resolve` |
| Generated clients, deep copies | – | – | not modelled, see below |

The components do not call each other. They interact through two servers: the
Kubernetes API (policies, authorities, secrets, workloads, pods) and the
metadata server (notes, attestation occurrences, vulnerability and discovery
occurrences). The webhook reads policies and attestations and writes
attestations; the background job reads the same and writes labels; the two
signers write attestations that the webhook later reads; the scanner writes
what all of them judge. What is hard is therefore what happens between two
calls: an edit, a rescan, a failure, another goroutine or process. That is why
one action of every module is one call with the local computation after it.

What makes each part correct:

* webhook: nothing is admitted without grounds, whatever fails or changes under
  way; nothing admissible is denied when nothing fails; a denial is final; an
  attestation is filed only for what was found clean; every request is answered;
* background job: labels only for pods that broke a policy, for every such pod,
  without touching what belongs to others beyond what a null patch takes;
* signers: an attestation means a finished scan or a matching build; success
  means there is one; waits end and events are acknowledged;
* verification: a listing that ends has everything that was there throughout, or has
  broken off with nothing; an
  image counts as attested exactly when such an occurrence vouches for it; exactly
  the images an allowlist stands for are skipped; a server that serves has a client;
* `resolve-tags`: what goes out has every image by a digest its tag really had, and
  all of it goes out or, before the first `kubectl`, nothing;
* Helm hooks: the webhooks trust the certificate the server serves with, since a
  webhook that does not rejects every pod; removal never takes the secret before
  the webhooks; every hook ends.

## Modules

`SecurityPolicy` and `Attestations` are pure: severity thresholds and their
defaults, the choice of usable keys, the match of key, signature and payload.
Cryptography is symbolic: a signature names a key, was really made by a key or
by none, and speaks of an image. A declared key is a ring of fingerprints: none
when it cannot be parsed, and more than one makes it unusable. `ImageReview` adds what webhook and background
job share: which images are reviewed at all, what a lookup returns, and the
cache of the Container Analysis client. The cache remembers failed lookups
only, as empty results and by image, so a cache is a set of images. The note
cache is not modelled: its key is the address of a copy of the authority made
for one call, or of an object fetched for one call, so it is never hit.

`Admission` has one stack frame per request (`loc`): the program counter, the
response (`allowed`, `answer`) and the locals of the two reviews. Every list
the code iterates is a set with the next element chosen by `\E`, so every order
is covered. `seen` and `owed` are history: what has been true since the request
came in, and whether the request was admissible on arrival with nothing failed
or edited since. `AdmissionInvariant` holds the two inductive invariants,
`AdmissionProofs` and `AdmissionContractProofs` the proofs.

`Cron` has one frame per runner, the server or a foreground run. A pod's labels and
its annotations are two maps. A patch carries the keys of each map in which the
modified copy differs from the snapshot; but an empty map is left out of the modified
object (`omitempty`), so that deleting the only key of the snapshot sends `labels: null`
or `annotations: null` and the live pod loses the whole map (`mergeMap`, as
`pods_test.go` expects). `vulnCache` and `attCache` live as long as the client, that is
as long as the process.

`Signer` has one program counter per invocation and the timer of
`WaitForVulnzAnalysis`; attestations are numbered by their maker so that two of
them are two. `GcbSigner` has one frame per callback and a subscription that
delivers at least once.

`Install` has a record for each of the three hook pods (program counter and the
files or variables it keeps) and one for the objects in the cluster. Every
kubectl call is a step that may fail before or after it took effect. Helm starts
the pods without waiting for them and deletes the pod of an earlier run first, as
the chart's `before-hook-creation` says. kubectl is external: `apply` keeps the
request of an existing CSR, `create secret tls` refuses a pair that does not match
and a name that is taken.

`AdmissionContract` is the webhook as the API server may rely on it: per request an
object, a refusal, an answer and the facts learned, and four actions. It knows no
policies. `AdmissionRefinement` instantiates it over the variables of `Admission`: the
refusal is the `Allowed` field of the response under construction, the facts are
`seen`, and `Grounds` is what supports an admission. `RefinesContract` says that every
step of the webhook is a step of the contract or leaves it alone.

`Verification` looks under the lookups that `Admission` and `Cron` take in one step.
Its clients each have one job: review an image, list vulnerabilities, delete an
attestation, or sign and file one. A listing is one step per page. The metadata
server is external and assumed to keep occurrences in the order of creation and to take
a token for a place in that order. It may cut pages as it likes, return an empty page
with a token and more behind it, since only an empty token ends a listing, and honour
filters or not. The loops of the client end at an empty accumulated list all the same
(`brokeOff`).
`there` and `met` are history: what was listed from the first page to the last, and at
some time. `Review == INSTANCE Attestations` is the one-step view of the same lookup,
and `AcceptedMeansSigned` compares the two. The module stands on three pure ones:
`Allowlist` (names as sequences of symbols, so that prefix and last slash are what they
are in the code), `Signatures` (all signers and verifiers, with the scheme, the hash,
the key and the payload of a signature) and `MetadataBackend` (from a KritisConfig to a
client, where a step may also panic; the list of KritisConfigs is a sequence, since two
equal ones are still two).

`Resolve` is the plugin as a sequential program beside a registry whose tags move. A
YAML document is a tree of nodes; the text is the values of its string nodes, and both
walks of the code are recursive functions over the nodes. The parser is external: its
trees are finite, which `TreeAssumption` says by a `Height` for every node. Printing
takes the manifest for a format string: one percent sign, in a string or in a key, may
take the end of its line and change the next one, so what is printed of such a file is
`Garbled`, no manifest at all.

`MC*` modules hold the constants of the runs and the predicate that fixes the
initial states; edits lead from there to the other states. Operators named
`X_something` are mutants of the definition `X` that follows them: each of
them breaks the property it is listed with, which shows that the property
depends on that code.

`*Proofs` modules extend the module they are about with its inductive invariant,
the lemmas and the theorems.

## Runs

Bounds: `MaxFaults` bounds failed calls, lost replies and crashes together,
`MaxEdits` (`MaxScans` in `Signer`) what others change. Two faults and one or
two edits reach a failed lookup followed by a retry through the cache, an edit
between two fetches of the same authority, and a crash after a write. In `Install`
`MaxCommands` bounds the operator; three commands are an installation, its deletion
with or without hooks, and an installation on what is left. `FindTries` stands for
the 10 and 20 attempts of the loops; two distinguish a retry from giving up. In
`Verification` the bounds belong to the initial situation: one fault or one edit where
three clients meet on three or four occurrences with pages of two, both where a server
starts, none where the question is which of all configurations, patterns or algorithms
behaves how. In `Cron` `faults` and `edits` start anywhere below their bounds, so a
situation says how much is still to come: one fault and two edits for the server on one
pod, which reach a label set between the listing and a null patch; one of either for the
server and a foreground run on the same pod, and for three pods in two namespaces. Pages of
one or two cut four occurrences in every way; the code's 100 would need a hundred more
for the same. In `Resolve` two moves of
tags, one there and one back, fall between any of the lookups.

| Run | What it asks | Result |
|---|---|---|
| AdmissionGap | generic attestation policies, owners, breakglass, malformed requests, Grafeas backend: `IInv`, `Justified`, `OwedAdmission` | holds |
| AdmissionIsp | image security policies, scans, attestations filed, Container Analysis backend: `TypeOK`, `Justified`, `OwedAdmission`, `Responds` | holds |
| AdmissionPair | two requests, both policy kinds: `OwedAdmission`, `AttestationsEarned`, `DenialSticks`, `RefinesContract` | holds |
| Cron | two runners, two namespaces, three pods, three images, Container Analysis backend: `TypeOK`, `PassCovers`, `OthersKept`, `LabelsEarned`, `OutOfPolicyMarked` | holds |
| SignerThree | three invocations on two images: `TypeOK`, `SignedAfterScan`, `SuccessMeansAttested`, `WaitEnds` | holds |
| Gcb | two callbacks, four events: `TypeOK`, `AckedIsSigned`, `OnlyBuildsSigned`, `EventsAcked` | holds |
| Install | three commands, the hooks side by side, a failing call: `TypeOK`, `Registered`, `Uninstalled`, `HooksEnd` | holds |
| Resolve | eleven command lines over eight manifests, good, broken and with percent signs, moving tags, failing calls: `TypeOK`, `OutputPinned`, `AllResolvedFirst`, `Finishes` | holds |
| Verification | three clients, pages cut anywhere, start-up with every kind of configuration, every algorithm: `TypeOK`, `FetchComplete`, `AcceptedMeansSigned`, `SkipsTheAllowed`, `DetachedExact`, `ServingMeansClient`, `DeletesTheOne`, `JobsEnd` | holds |
| AdmissionCache | the cache answers for the authority it is asked about | violated |
| SignerTimeout | the timeout ends the wait | violated |
| CronNamespaces | a pod is labelled for policies of its own namespace only: `SameNamespaceOnly` | violated |

`OwedAdmission` is checked with two backends and holds in AdmissionGap for
Grafeas, which has no cache, and in AdmissionIsp and AdmissionPair for Container
Analysis on instances without two authorities in one policy; AdmissionCache
shows what the cache does to it otherwise. The violated properties quote the
comment or the document they come from; `PROJECT.json` explains each one.

`OutOfPolicyMarked` speaks of pods that are reviewable: every policy's authority
exists and no lookup ends in an error. Without that `ReviewISP` returns at the
first policy it cannot evaluate, and the pod is not judged by the others. It also
has the premise `noStaleScan`. The Container Analysis client of the background job
lives as long as the process and remembers a failed vulnerability lookup as an
empty list, so one failed lookup (`cache.go:64`) is enough for a pod to pass for clean
until the server is started again; the run is on that backend and without the premise
TLC finds just that. Every other failure only delays the label.

`OthersKept` names the one way in which a review takes what belongs to others: it
deletes a mark of kritis that was the only one of its map when the pod was listed, and
the null patch removes what a user has set in that map since. `FetchComplete` and
`AcceptedMeansSigned` exempt the one way in which a listing ends early without an error
(`brokeOff`): an empty first page with a token. What they show is that nothing in between
happens, a part of a listing that passes for the whole. `OutputPinned` says nothing of
what is printed of a file with a percent sign.

Limits of the code that no property contradicts, seen while modelling:

* `HandleViolation` deletes the label and adds it again with two patches computed from
  one snapshot. When the snapshot has the label with the same annotation the second
  patch is empty, so a pod that stays out of policy loses its label in every second
  pass; `OutOfPolicyMarked` therefore says "time and again" and not "for good", while
  docs/resources.md:23 has the cron job add "labels and annotations to pods out of
  policy";
* deleting the attestation or violation mark that is a pod's only label, or its only
  annotation, removes the labels or annotations others have set since the pod was listed
  (`pods/pods.go:44`);
* the paging loops stop at an empty first page although a token came with it
  (`grafeas/grafeas.go:240` and `:263`), while the API says that only an empty token
  means that there is no more; on a server that returns such a page an attested image
  is denied and vulnerabilities are overlooked;
* an occurrence without an attestation in it is a nil pointer in
  `GetAttestationsFromOccurrence` (`metadata/metadata.go:135`), and the request is lost;
* two invocations of the signer that both find no attestation both upload one,
  since `uploadAttestation` does not look again; a later overwrite then fails,
  because it wants exactly one;
* `ReviewISP` calls `HandleViolation` only when there are violations, so nothing takes
  the label off a pod that is back in policy, although `HandleViolation` begins by
  removing it "in case it doesn't apply anymore" (`violation/strategy.go:63`);
* `waitForCSR` compares an output that always has two quotes with the empty string, so it
  never waits: a certificate that is issued late makes the preinstall hook fail;
* with `--create-new-csr=false` and a CSR that exists, the preinstall hook deletes the
  secret and then cannot make a new one, because the private key was only in the pod
  of the earlier installation;
* in the predelete hook a failed get passes for an absent object, so the hook may
  succeed and leave a webhook behind; `Uninstalled` is stated for hooks that could read
  every object. A predelete hook that runs beside the hooks of an installation gives
  no guarantee either, and `Registered` and `Uninstalled` exclude it (`undisturbed`);
* a preinstall hook that stops between the creation of the secret and its label leaves
  a secret the documented manual cleanup, by label, does not find; the next
  preinstall hook deletes it;
* two requests that both find no note both create it; the second creation fails
  and the attestation of that request is not filed, though its answer stands;
* a patch addresses the pod by name, so a pod created under the name of a deleted
  one gets the label its predecessor earned. `LabelsEarned` is worded for that:
  a pod of that name ran the images during the pass.
* an interval of the background job that parses but is not positive ("0s") panics in
  `NewTicker` in a goroutine, and takes the server down after it began to serve
  (`CronStart`);
* `NewPublicKey` drops the signature algorithm, and an empty ID of a PKIX key stays empty
  although its comment promises a generated one (`attestlib/public_key.go:48`); both
  are without effect as long as the verifiers of PKIX and JWT are stubs;
* `parsePkixPrivateKeyPem` dereferences nil on an empty key (`attestlib/pkix_key.go:37`),
  modelled as a panic;
* the standalone example files its occurrence under the image without the `https://`
  that every lookup filters by (`docs/standalone/create_attestation.go:158`), so a
  server that honours filters never returns it;
* an empty pattern in a policy's allowlist hides the patterns behind it, which
  `SkipsTheAllowed` allows for;
* `resolve-tags` panics on a key that is not a string and on an image that is not one;
  it prints the manifest as a format string (`cmd/root.go:122`), so that a percent sign
  may garble this line and the next, and nothing is promised of the file; any value of the environment variable, "false" too,
  asks for apply; and a failed `kubectl` leaves the files before it applied.

Deadlock is not checked in the runs whose instances are finite by their bounds:
requests are answered, invocations and hooks exit.

### Fairness

* `Admission`, `Cron`: weak fairness of each goroutine's next step. Go runs every
  runnable goroutine and each call returns, if only with an error, since the
  clients have deadlines in their transport; an endless call is not modelled.
* `Cron`: weak fairness of the start of a server pass, since the ticker never
  stops. Nobody is bound to start a foreground run.
* `Signer`: strong fairness of the timeout branch. A `select` picks at random among
  the ready cases, so a timeout that is ready again and again is taken in the end,
  with probability one.
* `GcbSigner`: strong fairness of the delivery of an event that is not acknowledged,
  the promise of the subscription (at-least-once delivery, external).
* `Verification`, `Resolve`: weak fairness of each client's next step and of the tool's.
  Each call returns, if only with an error. Nobody is bound to file or to delete.
* `Install`: weak fairness of each pod's next call and of the five-minute timer of
  `PollImmediate`. Nobody is bound to run Helm and the cluster need not sign a CSR.

## Proofs

Every safety property of the passing runs is a theorem about all values of the
constants that satisfy the modules' assumptions.

| Module | Invariant | Theorems |
|---|---|---|
| `AdmissionProofs` | `IInv` | `Inductive`, `TypeCorrect`, `AdmissionsAreJustified` (`Justified`), `DenialsStick` (`DenialSticks`), `OnlyEarnedAttestations` (`AttestationsEarned`) |
| `AdmissionContractProofs` | `IInv`, `OwedInv` | `Refinement` (`RefinesContract`), `AdmissionsOwedAreGiven` (`OwedAdmission`) |
| `CronProofs` | `CInv` | `CronInvariant`, `TypeCorrect`, `PassesCover` (`PassCovers`), `OthersAreKept` (`OthersKept`), `LabelsAreEarned` (`LabelsEarned`); of the policies `ThresholdsAreOrdered`, `StricterAcceptsLess` |
| `SignerProofs` | `SInv` | `SignerInvariant`, `TypeCorrect`, `ScanBeforeSignature` (`SignedAfterScan`), `SuccessIsAttested` (`SuccessMeansAttested`) |
| `GcbSignerProofs` | `GInv` | `GcbInvariant`, `TypeCorrect`, `AcknowledgedIsSigned` (`AckedIsSigned`), `SignedBuildsOnly` (`OnlyBuildsSigned`) |
| `VerificationProofs` | `VInv` | `VerificationInvariant`, `TypeCorrect`, `ListingsAreComplete` (`FetchComplete`), `AttestedIsSigned` (`AcceptedMeansSigned`), `AllowlistsAreExact` (`SkipsTheAllowed`), `DetachedSignaturesAreExact` (`DetachedExact`), `ServingHasClient` (`ServingMeansClient`), `DeletionIsOfTheOne` (`DeletesTheOne`) |
| `InstallProofs` | `HInv` | `HooksInvariant`, `TypeCorrect`, `SuccessIsRegistered` (`Registered`), `DeletionIsOrdered` (`Uninstalled`) |
| `ResolveProofs` | `FInv`, `PInv` | `LoopsInvariant`, `ManifestsInvariant`, `TypeCorrect`, `AllOrNothing` (`AllResolvedFirst`), `OutputIsPinned` (`OutputPinned`), `ToolDescends` |

Each invariant has been checked with TLC on the instances of the runs before it
was proved; AdmissionGap keeps `IInv` among its properties. The step lemma of an
invariant has one case per action, and the action properties follow from the
invariant of the state before the step.

**The webhook.** `Justified` only speaks of the last step. To be inductive it needs
what each frame has established so far, relative to the history: the owners already
looked at had the images; the images done with and not bad satisfy one of the listed
policies; of the authorities of the policy under review, each is either still
to be asked or has attested the image, unless one is missing; a request not
denied when the second review begins has passed the first; the security policies
done with are satisfied by all images; and an attestation is under way only for
an image found clean. The conjuncts of `Good` in `AdmissionInvariant` say this,
by program counter. `Current` says that the history contains the present, which
turns a check of the present into a fact about the history; histories only grow,
so facts are never lost (`seen...` operators are monotone, a lemma each).

`Refinement` maps each step of a goroutine to a step of the contract or to a
stutter. `IInv` gives the rule for answers in the state after the step, `Current` that
the facts only grow, and a crash is the contract's loss of all open requests.

`OwedInv` is the mirror image of `IInv`: a request that is still owed its admission
stands where every check that is left will succeed. For each program counter it
says which check that is, and that no failed lookup of an image that is served is in
the cache. The theorem has the premise `NothingHidden`, that the backend is Grafeas or
that every attestation is of a known kind. Without it the statement is false, and not
for want of a proof: that is what the cache does in AdmissionCache.

**The background job.** `CInv` relates each runner's stack to what was there since its
pass began: the pods on it ran those images under that name, the pods of the policies
already listed are reviewed or still to come, and a violation about to be marked is
one of a scan of that time. `OthersKept` needs of it only what a patch does to the
keys of others: they stay, or the patch is null because the snapshot's map held nothing
but the key that is deleted (`MergedMap`).

**The policies.** The same module has two theorems about the pure operators of
`SecurityPolicy`. `ThresholdsAreOrdered` says that severity thresholds form a chain and
that the chain is exact: of two thresholds that parse, one accepts all the other
accepts if and only if it is not below it. ALLOW_ALL stands above CRITICAL because it
also accepts a severity that does not parse, where CRITICAL is an error.
`StricterAcceptsLess` lifts this to whole policies (allowlisted images, allowlisted
CVEs, both thresholds with their defaults) and to any set of vulnerabilities: whoever
relaxes a policy, or fixes a vulnerability, never turns a clean image into a violation
or an error.

**The signers.** In `SInv` the difficult part is `LostInv`, about all the invocations for
one image together: when its attestation is gone, either nobody has reported success
or somebody is on the way to make a new one or has failed. `GInv` says of each callback
that the signatures it owes are those still on its list or on the server.

**Verification.** `VInv` says of a listing that what was there throughout is fetched or
lies behind the token, with the places of occurrences distinct (`PlacesInv`), until the
loop ends, with token 0 or with nothing fetched; the rest is which verdict follows from
what was fetched. `AllowlistsAreExact` rests on lemmas about
the first match of a list and the last slash of a name, for which the least element of
a set of numbers is proved from the well-foundedness of finite sets under inclusion.

**Helm hooks.** `HInv` follows the three pods: at which step of the preinstall pod
the secret is there, labelled, and how many CRDs are; that the postinstall pod of this
release is past its wait only if that pod has succeeded, and which webhook it has
registered with the secret's certificate; and how many of the two webhooks and the
secret the predelete pod has behind it. The postinstall pod of an earlier release may
still run, so the second part is stated for `helm = "deployed"` only.

**`resolve-tags`.** `FInv` counts: the files with a substitute are those before the
current one, and what kubectl has not seen is what is left. `PInv` says what the texts
are: in the file at work, the images of the documents before the current one are
pinned and every other string is the source's; of the current document, each image
not yet on the list of lookups has an answer, a digest its tag has had since the tool
began; and a file that is done has all its documents pinned. What is pinned stays so
because the history of a tag only grows, and one document's replacement does not
touch another's because they share no nodes.

The rest is about the two walks, for documents of any size and shape. That the
recursive functions are what their definitions say is a lemma (`Recursion`): a
definition that looks only at elements of a smaller rank has a solution. It is proved
from the least element of a set of numbers, with the rank as a set-theoretic function
in place of an operator parameter, so that the provers can use it; the rank is
`Height`, the depth below a node. `Flatten` does the same for the community module's
`FlattenSeq`. Induction over a document (`TreeInduction`) then shows that the nodes of the
reference `NodesOf`, an iteration from the root, are the least set closed under kids
(`Reached`), that the first walk meets every image that is no digest (`FirstWalk`) and
returns only images of the document, and that the second rewrites the images of that
set and no others (`SecondWalk`), provided no type assertion fails, which the tool finds
out in the first walk.

`ToolDescends` is the safety half of `Finishes`: with every step of the tool the tuple
`Left` (phases, files, unread file, documents, uncollected document, calls) gets smaller
in the lexicographic order, and no move of a tag changes it. TLC checks on the instance
that the tool also goes on to its end.

The assumptions on constants are what the code and its surroundings guarantee. Of the
webhook: objects run images, policies name authorities, secrets hold real keys, and the
value for "none" is no object. Of the background job: scans are finite, "none" is no
pod. Of `Verification`: the initial occurrences are finitely many with places of their
own, the names in the global allowlist parse, names are sequences of symbols, a key
without a fingerprint does not have the name of one (`wellMade`), and the key management
service has a key of the kind its algorithm wants (`wellFormed`). Of `Resolve`: paths are
strings, and the parser returns finite trees (`Height` decreases towards the scalars,
which have nothing below them) that the documents of a file do not share; an item of a
map has one value; tags that stand in manifests are tags of the registry, which may be
absent there; and no image by digest has a percent sign in it, since the parser of
references admits none, so that resolving a file neither adds nor removes one. TLC evaluates all of them in the runs.

Only model-checked:

* liveness (`Responds`, `OutOfPolicyMarked`, `WaitEnds`, `EventsAcked`, `HooksEnd`, `Finishes`,
  `JobsEnd`): out of TLAPS's reach.

## Not modelled

* The wording of messages, logging, HTTP and TLS details, OpenPGP packets.
* Generated clients and deep copies: no logic of their own.
* The bytes of PEM, JSON, YAML and of JWT segments: what they parse to is modelled.
* `WaitForVulnzAnalysis` of the Grafeas client: only the image signer waits for a scan,
  and it always uses the Container Analysis client, whose loop `Signer` models.
* The unix socket, TLS sessions and reconnection of gRPC: a call returns or fails.
* `unmarshalPod` and `unmarshalDeployment`, and the waits of `pkg/kritis/kubernetes` other
  than `WaitForPodComplete`: at most tests call them.
* A namespace that is not exempt from a leftover webhook, whose pods, the hook pods
  included, the API server then refuses to create.
* A discovery occurrence without discovery details, which makes the signer wait for
  the next tick as if it were pending.
* Two occurrences with the same content in `Admission` and `GcbSigner`: the webhook and
  the Cloud Build signer never look at how many there are.

## Plan

Every component with state is modelled and every safety property of the passing runs
is proved. What is left is a refinement of the one-step lookup by the paging loop as a
theorem between two specifications; today `AttestedIsSigned` compares the results.
