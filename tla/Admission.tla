------------------------------ MODULE Admission ------------------------------
(***************************************************************************)
(* The validating admission webhook (pkg/kritis/admission) and the policy  *)
(* review it runs (pkg/kritis/review, IsWebhook = true).                   *)
(*                                                                         *)
(* Every AdmissionReview is handled by a goroutine of its own.  One action *)
(* is one call the goroutine makes to the cluster or to the metadata       *)
(* server, with the local computation that follows it; between two calls   *)
(* the cluster, the metadata server and the other goroutines move.  Any    *)
(* call may fail.                                                          *)
(*                                                                         *)
(* Lists that the code iterates are sets here and the next element is      *)
(* chosen with \E: the order of images, policies and authorities is an     *)
(* input, and every order is explored.                                     *)
(***************************************************************************)
EXTENDS Naturals, FiniteSets, ImageReview

CONSTANTS
    Requests,          \* webhook goroutines
    Objects,           \* objects users and controllers submit
    Authorities,       \* AttestationAuthority objects that may exist
    GapLists, IspLists,   \* what listing the two policy kinds may return
    Occurrences,       \* attestation occurrences made by others
    VulnLists,         \* vulnerability lists a scan may produce
    SecretNames, SecretKey, \* signing secrets: the key each one holds
    Workloads, TemplateImages, \* objects that own others, their images
    MaxFaults, MaxEdits,  \* bounds on failures and on changes made by others
    None               \* a local variable that holds nothing

Malformed == "malformed"  \* a note reference that does not parse
handlers == {"Deployment", "Pod", "ReplicaSet"}

AuthNames == {a.name : a \in Authorities}
Notes == {a.note : a \in Authorities} \ {Malformed}
Gaps == UNION GapLists
Isps == UNION IspLists
OwnerRefs == UNION {o.owners : o \in Objects}

ASSUME AdmissionAssumption ==
    /\ MaxFaults \in Nat /\ MaxEdits \in Nat
    /\ \A o \in Objects : o.images \subseteq Images /\ o.breakglass \in BOOLEAN
    /\ \A o \in Occurrences : o.known \in BOOLEAN
    /\ \A w \in OwnerRefs : w.name \in Workloads
    /\ \A g \in Gaps : g.AttestationAuthorityNames \subseteq AuthNames
    /\ \A S \in TemplateImages : S \subseteq Images
    /\ \A k \in {SecretKey[s] : s \in SecretNames} : k # Forged
    /\ None \notin Objects
    /\ None \notin {"allowed", "denied", "badRequest", "handlerFailed", "lost"}

VARIABLES
    (* What the webhook reads and writes but does not own.                 *)
    clusterGaps, clusterIsps, \* policies of the namespace
    authorities,    \* AttestationAuthority objects, at most one per name
    workloads,      \* images of each workload, {} when it does not exist
    vulnerabilities, \* the scanner's findings for each image
    occurrences,    \* attestation occurrences on the metadata server
    notes,          \* attestation notes on the metadata server
    (* The webhook.                                                        *)
    loc,            \* the stack frame of each goroutine
    (* History, read by properties only.                                   *)
    seen,           \* what has been true since a request came in
    owed,           \* the request was admissible and nothing has changed since
    faults, edits   \* failures and outside changes so far

cluster == <<clusterGaps, clusterIsps, authorities, workloads>>
metadata == <<vulnerabilities, occurrences, notes>>
bounds == <<faults, edits>>
vars == <<cluster, metadata, loc, seen, owed, bounds>>

-----------------------------------------------------------------------------
(* A goroutine's frame: the response under construction and the locals of  *)
(* the review.  The cache of attestations belongs to the metadata client,  *)
(* of which each of the two reviews makes its own.                         *)

PC == {"idle", "owners", "gapList", "gapClient", "gapCheck", "gapImage",
       "gapNext", "gapAuths", "gapVerify", "ispList", "ispClient", "ispNext",
       "ispAuth", "ispImage", "ispAttested", "ispValidate", "noteGet",
       "noteCreate", "secret", "attest", "done"}

Frame ==
    [pc : PC,
     obj : Objects \cup {None},
     allowed : BOOLEAN,
     answer : {None, "allowed", "denied", "badRequest", "handlerFailed", "lost"},
     ownersLeft : SUBSET OwnerRefs,
     gapList : SUBSET Gaps,
     toCheck : SUBSET (Gaps \X AuthNames),
     imagesLeft : SUBSET Images,
     image : Images \cup {None},
     gapsLeft : SUBSET Gaps,
     gap : Gaps \cup {None},
     namesLeft : SUBSET AuthNames,
     auths : SUBSET Authorities,
     missing : BOOLEAN,
     badImages : SUBSET Images,
     ispList : SUBSET Isps,
     ispsLeft : SUBSET Isps,
     isp : Isps \cup {None},
     attCache : SUBSET Images,
     key : {SecretKey[s] : s \in SecretNames} \cup {None}]

Fresh ==
    [pc |-> "idle", obj |-> None, allowed |-> TRUE, answer |-> None,
     ownersLeft |-> {}, gapList |-> {}, toCheck |-> {}, imagesLeft |-> {},
     image |-> None, gapsLeft |-> {}, gap |-> None, namesLeft |-> {},
     auths |-> {}, missing |-> FALSE, badImages |-> {},
     ispList |-> {}, ispsLeft |-> {}, isp |-> None, attCache |-> {},
     key |-> None]

Active(r) == loc[r].pc \notin {"idle", "done"}

Step(r, frame) == loc' = [loc EXCEPT ![r] = frame]

\* createDeniedResponse.
Denied(f) == [f EXCEPT !.allowed = FALSE]

\* Leaving ReviewHandler: the response is sent and the stack is gone.
Answered(f, how) ==
    [Fresh EXCEPT !.pc = "done", !.obj = f.obj, !.allowed = f.allowed,
                  !.answer = how]

Respond(f) == Answered(f, IF f.allowed THEN "allowed" ELSE "denied")

-----------------------------------------------------------------------------
(* The images each review looks at, and what it accepts.                   *)

\* generateGapAllowlist flattens the patterns of all the policies.
gapAllowlist(gaps) ==
    UNION {g.AdmissionAllowlistPatterns : g \in gaps}

gapReviewed(images, gaps) == notGloballyAllowed(images) \ gapAllowlist(gaps)

\* imagesAreValid: the owner has all of these images, by digest.
imagesAreValid(images, ownerImages) ==
    notGloballyAllowed(images) \subseteq (FullyQualified \cap ownerImages)

-----------------------------------------------------------------------------
(* Calls and history.                                                      *)

\* One call to the outside by the goroutine of r: it succeeds or it fails.
Call(r, ok) ==
    /\ ok \/ faults < MaxFaults
    /\ faults' = IF ok THEN faults ELSE faults + 1
    /\ owed' = [owed EXCEPT ![r] = @ /\ ok]
    /\ UNCHANGED edits

NoCall == UNCHANGED <<owed, bounds>>

Now ==
    [gaps |-> {clusterGaps}, isps |-> {clusterIsps}, auths |-> authorities,
     work |-> {<<w, workloads[w]>> : w \in Workloads},
     vulns |-> {<<i, vulnerabilities[i]>> : i \in Images},
     occs |-> occurrences]

Join(s, t) == [k \in DOMAIN s |-> s[k] \cup t[k]]

Observe ==
    seen' = [r \in Requests |-> IF Active(r) THEN Join(seen[r], Now') ELSE seen[r]]

-----------------------------------------------------------------------------
(* The reference decision: what the policies say of an object, in one      *)
(* glance at the cluster and at the metadata server.                       *)

attestedNow(image, name) ==
    \E a \in authorities :
        /\ a.name = name
        /\ ~noVerifier(a, image)
        /\ attestationsFetched(occurrences, a, image, TRUE)
        /\ hasValidatedAttestation(a, occurrences, image)

exists(name) == \E a \in authorities : a.name = name

gapsSatisfied(images) ==
    clusterGaps # {} =>
        /\ \A g \in clusterGaps :
              /\ g.AttestationAuthorityNames # {}
              /\ \A n \in g.AttestationAuthorityNames : exists(n)
        /\ \A i \in gapReviewed(images, clusterGaps) :
              \E g \in clusterGaps :
                  \A n \in g.AttestationAuthorityNames : attestedNow(i, n)

satisfiesIsp(isp, i) ==
    \/ isp.AttestationAuthorityName # "" /\ attestedNow(i, isp.AttestationAuthorityName)
    \/ i \in isp.ImageAllowlist
    \/ /\ i \in FullyQualified /\ isServed(i)
       /\ validateVulnz(isp, vulnerabilities[i]) = "clean"

ispsSatisfied(images) ==
    notGloballyAllowed(images) # {} =>
        \A p \in clusterIsps :
            /\ p.AttestationAuthorityName # "" => exists(p.AttestationAuthorityName)
            /\ \A i \in notGloballyAllowed(images) : satisfiesIsp(p, i)

ownersVouch(o) ==
    /\ o.owners # {}
    /\ \A w \in o.owners :
          /\ w.kind \in handlers
          /\ workloads[w.name] # {}
          /\ imagesAreValid(o.images, workloads[w.name])

Admissible(o) ==
    /\ o.body # "badReview"
    /\ \/ o.kind \notin handlers
       \/ /\ o.body = "ok"
          /\ \/ o.breakglass
             \/ ownersVouch(o)
             \/ gapsSatisfied(o.images) /\ ispsSatisfied(o.images)

-----------------------------------------------------------------------------
(* ReviewHandler up to the review of the images.                           *)

Init ==
    /\ clusterGaps \in GapLists /\ clusterIsps \in IspLists
    /\ authorities \in {A \in SUBSET Authorities :
                           \A a, b \in A : a.name = b.name => a = b}
    /\ workloads \in [Workloads -> TemplateImages \cup {{}}]
    /\ vulnerabilities \in [Images -> VulnLists]
    /\ occurrences \in SUBSET Occurrences
    /\ notes \in SUBSET Notes
    /\ loc = [r \in Requests |-> Fresh]
    /\ seen = [r \in Requests |-> Now]
    /\ owed = [r \in Requests |-> FALSE]
    /\ faults = 0 /\ edits = 0

\* checkBreakglass, once the owners did not settle the matter.
afterOwners(f) ==
    IF f.obj.breakglass THEN Respond(f) ELSE [f EXCEPT !.pc = "gapList"]

\* deserializeRequest, the dispatch on the kind and the handler's Unmarshal.
ReviewHandler(r) ==
    /\ loc[r].pc = "idle"
    /\ \E o \in Objects :
          LET f == [Fresh EXCEPT !.obj = o, !.ownersLeft = o.owners] IN
          /\ Step(r, CASE o.body = "badReview" -> Answered(Denied(f), "badRequest")
                       [] o.body # "badReview" /\ o.kind \notin handlers -> Respond(f)
                       [] o.body = "badObject" /\ o.kind \in handlers ->
                             Answered(f, "handlerFailed")
                       [] OTHER -> IF o.owners = {} THEN afterOwners(f)
                                   ELSE [f EXCEPT !.pc = "owners"])
          /\ owed' = [owed EXCEPT ![r] = Admissible(o)]
    /\ seen' = [seen EXCEPT ![r] = Now]
    /\ UNCHANGED <<cluster, metadata, bounds>>

\* One turn of the loop of checkOwners: retrieveOwnersImages, imagesAreValid.
CheckOwner(r) ==
    /\ loc[r].pc = "owners"
    /\ \E w \in loc[r].ownersLeft, ok \in BOOLEAN :
          LET f == loc[r]
              valid == /\ ok
                       /\ w.kind \in handlers
                       /\ workloads[w.name] # {}
                       /\ imagesAreValid(f.obj.images, workloads[w.name])
          IN /\ Call(r, ok)
             /\ Step(r, CASE ~valid -> afterOwners([f EXCEPT !.ownersLeft = {}])
                          [] valid /\ f.ownersLeft = {w} -> Respond(f)
                          [] OTHER -> [f EXCEPT !.ownersLeft = @ \ {w}])
    /\ UNCHANGED <<cluster, metadata, seen>>

\* fetchGenericAttestationPolicies.
FetchGAPs(r) ==
    /\ loc[r].pc = "gapList"
    /\ \E ok \in BOOLEAN :
          /\ Call(r, ok)
          /\ Step(r, IF ~ok THEN Respond(Denied(loc[r]))
                     ELSE [loc[r] EXCEPT !.gapList = clusterGaps,
                              !.pc = IF clusterGaps = {} THEN "ispList" ELSE "gapClient"])
    /\ UNCHANGED <<cluster, metadata, seen>>

-----------------------------------------------------------------------------
(* reviewGenericAttestationPolicy and ReviewGAP.                           *)

\* An error of the review denies the request, and the handler goes on to the
\* image security policies all the same.
gapsDone(f) ==
    [Fresh EXCEPT !.pc = "ispList", !.obj = f.obj, !.allowed = f.allowed]

\* Mutant: the error is logged only.
gapsFailed_logged(f) == gapsDone(f)

gapsFailed(f) == gapsDone(Denied(f))

\* Mutant: a policy without authorities is taken as well formed.
GapClient_allowsEmpty(r) ==
    /\ loc[r].pc = "gapClient"
    /\ \E ok \in BOOLEAN :
          LET f == loc[r] IN
          /\ Call(r, ok)
          /\ Step(r, IF ~ok THEN gapsFailed(f)
                     ELSE [f EXCEPT !.pc = "gapCheck", !.toCheck =
                             UNION {{g} \X g.AttestationAuthorityNames : g \in f.gapList}])
    /\ UNCHANGED <<cluster, metadata, seen>>

\* fetchMetadataReadOnlyClient, and the part of checkGAPs that needs no call.
GapClient(r) ==
    /\ loc[r].pc = "gapClient"
    /\ \E ok \in BOOLEAN :
          LET f == loc[r] IN
          /\ Call(r, ok)
          /\ Step(r, IF ~ok \/ \E g \in f.gapList : g.AttestationAuthorityNames = {}
                     THEN gapsFailed(f)
                     ELSE [f EXCEPT !.pc = "gapCheck", !.toCheck =
                             UNION {{g} \X g.AttestationAuthorityNames : g \in f.gapList}])
    /\ UNCHANGED <<cluster, metadata, seen>>

\* checkGAPs: every authority of every policy must be there.
CheckGAPs(r) ==
    /\ loc[r].pc = "gapCheck"
    /\ \E c \in loc[r].toCheck, ok \in BOOLEAN :
          LET f == loc[r] IN
          /\ Call(r, ok)
          /\ Step(r, CASE ~ok \/ ~exists(c[2]) -> gapsFailed(f)
                       [] ok /\ exists(c[2]) /\ f.toCheck # {c} ->
                             [f EXCEPT !.toCheck = @ \ {c}]
                       [] OTHER -> [f EXCEPT !.pc = "gapImage", !.toCheck = {},
                             !.imagesLeft = gapReviewed(f.obj.images, f.gapList)])
    /\ UNCHANGED <<cluster, metadata, seen>>

\* The loop over the images, and the verdict after it.
GapImage(r) ==
    /\ loc[r].pc = "gapImage"
    /\ LET f == loc[r] IN
       \/ /\ f.imagesLeft = {}
          /\ Step(r, IF f.badImages = {} THEN gapsDone(f) ELSE gapsFailed(f))
       \/ \E i \in f.imagesLeft :
             Step(r, [f EXCEPT !.pc = "gapNext", !.image = i,
                               !.imagesLeft = @ \ {i}, !.gapsLeft = f.gapList])
    /\ NoCall
    /\ UNCHANGED <<cluster, metadata, seen>>

\* The loop over the policies for one image: it is bad when they run out.
GapNext(r) ==
    /\ loc[r].pc = "gapNext"
    /\ LET f == loc[r] IN
       \/ /\ f.gapsLeft = {}
          /\ Step(r, [f EXCEPT !.pc = "gapImage", !.badImages = @ \cup {f.image}])
       \/ \E g \in f.gapsLeft :
             Step(r, [f EXCEPT !.pc = "gapAuths", !.gap = g, !.gapsLeft = @ \ {g},
                               !.namesLeft = g.AttestationAuthorityNames,
                               !.auths = {}, !.missing = FALSE])
    /\ NoCall
    /\ UNCHANGED <<cluster, metadata, seen>>

\* getAttestationAuthoritiesForGAP, called anew for every image and policy.
GapAuthority(r) ==
    /\ loc[r].pc = "gapAuths"
    /\ \E n \in loc[r].namesLeft, ok \in BOOLEAN :
          LET f == loc[r] IN
          /\ Call(r, ok)
          /\ \/ /\ ~ok \/ ~exists(n)
                /\ Step(r, gapsFailed(f))
             \/ /\ ok
                /\ \E a \in authorities :
                      /\ a.name = n
                      /\ Step(r, [f EXCEPT !.auths = @ \cup {a}, !.namesLeft = @ \ {n},
                            !.pc = IF f.namesLeft = {n} THEN "gapVerify" ELSE @])
    /\ UNCHANGED <<cluster, metadata, seen>>

\* findUnsatisfiedAuthNames: all authorities are asked, whatever the first says.
GapVerify(r) ==
    /\ loc[r].pc = "gapVerify"
    /\ \E a \in loc[r].auths, ok \in BOOLEAN :
          LET f == loc[r]
              lacking == f.missing \/ ~isAttestedBy(f.attCache, occurrences, a, f.image, ok)
          IN /\ IF attestationCall(f.attCache, a, f.image) THEN Call(r, ok) ELSE ok /\ NoCall
             /\ Step(r, [f EXCEPT
                   !.auths = @ \ {a},
                   !.missing = lacking,
                   !.attCache = attCacheAfter(f.attCache, occurrences, a, f.image, ok),
                   !.pc = CASE f.auths # {a} -> @
                            [] f.auths = {a} /\ lacking -> "gapNext"
                            [] OTHER -> "gapImage"])
    /\ UNCHANGED <<cluster, metadata, seen>>

-----------------------------------------------------------------------------
(* reviewImageSecurityPolicy and ReviewISP.                                *)

\* Mutants: no policy is an error, or the response starts afresh.
FetchISPs_noneDenied(r) ==
    /\ loc[r].pc = "ispList"
    /\ \E ok \in BOOLEAN :
          /\ Call(r, ok)
          /\ Step(r, IF ~ok \/ clusterIsps = {} THEN Respond(Denied(loc[r]))
                     ELSE [loc[r] EXCEPT !.pc = "ispClient", !.ispList = clusterIsps])
    /\ UNCHANGED <<cluster, metadata, seen>>

FetchISPs_newResponse(r) ==
    /\ loc[r].pc = "ispList"
    /\ \E ok \in BOOLEAN :
          /\ Call(r, ok)
          /\ Step(r, CASE ~ok -> Respond(Denied(loc[r]))
                       [] ok /\ clusterIsps = {} -> Respond(loc[r])
                       [] OTHER -> [loc[r] EXCEPT !.pc = "ispClient", !.ispList = clusterIsps,
                                                  !.allowed = TRUE])
    /\ UNCHANGED <<cluster, metadata, seen>>

\* fetchImageSecurityPolicies.
FetchISPs(r) ==
    /\ loc[r].pc = "ispList"
    /\ \E ok \in BOOLEAN :
          /\ Call(r, ok)
          /\ Step(r, CASE ~ok -> Respond(Denied(loc[r]))
                       [] ok /\ clusterIsps = {} -> Respond(loc[r])
                       [] OTHER -> [loc[r] EXCEPT !.pc = "ispClient", !.ispList = clusterIsps])
    /\ UNCHANGED <<cluster, metadata, seen>>

\* fetchMetadataClient: a new client, so with empty caches.
IspClient(r) ==
    /\ loc[r].pc = "ispClient"
    /\ \E ok \in BOOLEAN :
          LET f == loc[r] IN
          /\ Call(r, ok)
          /\ Step(r, CASE ~ok -> Respond(Denied(f))
                       [] ok /\ notGloballyAllowed(f.obj.images) = {} -> Respond(f)
                       [] OTHER -> [f EXCEPT !.pc = "ispNext", !.ispsLeft = f.ispList,
                                             !.attCache = {}])
    /\ UNCHANGED <<cluster, metadata, seen>>

\* The loop over the policies; one without an authority needs no fetch.
IspNext(r) ==
    /\ loc[r].pc = "ispNext"
    /\ LET f == loc[r] IN
       \/ /\ f.ispsLeft = {}
          /\ Step(r, Respond(f))
       \/ \E p \in f.ispsLeft :
             Step(r, [f EXCEPT !.isp = p, !.ispsLeft = @ \ {p}, !.auths = {},
                     !.imagesLeft = notGloballyAllowed(f.obj.images),
                     !.pc = IF p.AttestationAuthorityName = "" THEN "ispImage" ELSE "ispAuth"])
    /\ NoCall
    /\ UNCHANGED <<cluster, metadata, seen>>

\* getAttestationAuthorityForISP.
IspAuthority(r) ==
    /\ loc[r].pc = "ispAuth"
    /\ \E ok \in BOOLEAN :
          LET f == loc[r]
              n == f.isp.AttestationAuthorityName
          IN /\ Call(r, ok)
             /\ \/ /\ ~ok \/ ~exists(n)
                   /\ Step(r, Respond(Denied(f)))
                \/ /\ ok
                   /\ \E a \in authorities :
                         /\ a.name = n
                         /\ Step(r, [f EXCEPT !.pc = "ispImage", !.auths = {a}])
    /\ UNCHANGED <<cluster, metadata, seen>>

\* Mutant: the loop does not advance.
IspImage_stands(r) ==
    /\ loc[r].pc = "ispImage"
    /\ LET f == loc[r] IN
       \/ /\ f.imagesLeft = {}
          /\ Step(r, [f EXCEPT !.pc = "ispNext"])
       \/ \E i \in f.imagesLeft :
             Step(r, [f EXCEPT !.image = i,
                     !.pc = IF f.auths = {} THEN "ispValidate" ELSE "ispAttested"])
    /\ NoCall
    /\ UNCHANGED <<cluster, metadata, seen>>

\* The loop over the images under one policy.
IspImage(r) ==
    /\ loc[r].pc = "ispImage"
    /\ LET f == loc[r] IN
       \/ /\ f.imagesLeft = {}
          /\ Step(r, [f EXCEPT !.pc = "ispNext"])
       \/ \E i \in f.imagesLeft :
             Step(r, [f EXCEPT !.image = i, !.imagesLeft = @ \ {i},
                     !.pc = IF f.auths = {} THEN "ispValidate" ELSE "ispAttested"])
    /\ NoCall
    /\ UNCHANGED <<cluster, metadata, seen>>

\* An attested image skips the vulnerability check.
IspAttested(r) ==
    /\ loc[r].pc = "ispAttested"
    /\ \E a \in loc[r].auths, ok \in BOOLEAN :
          LET f == loc[r] IN
          /\ IF attestationCall(f.attCache, a, f.image) THEN Call(r, ok) ELSE ok /\ NoCall
          /\ Step(r, [f EXCEPT
                !.attCache = attCacheAfter(f.attCache, occurrences, a, f.image, ok),
                !.pc = IF isAttestedBy(f.attCache, occurrences, a, f.image, ok)
                       THEN "ispImage" ELSE "ispValidate"])
    /\ UNCHANGED <<cluster, metadata, seen>>

\* Validate and what ReviewISP does with its result.  The entry a failed lookup
\* leaves in the client's cache is never read: the error ends the review and
\* the client goes with it.
IspValidate(r) ==
    /\ loc[r].pc = "ispValidate"
    /\ \E ok \in BOOLEAN :
          LET f == loc[r] IN
          /\ IF vulnerabilityCall(f.isp, f.image) THEN Call(r, ok) ELSE ok /\ NoCall
          /\ Step(r, IF validate(f.isp, f.image, vulnerabilities[f.image], ok) # "clean"
                     THEN Respond(Denied(f))
                     ELSE [f EXCEPT !.pc = IF f.auths = {} THEN "ispImage" ELSE "noteGet"])
    /\ UNCHANGED <<cluster, metadata, seen>>

-----------------------------------------------------------------------------
(* addAttestation.  Its errors are logged and the review goes on.          *)

\* GetOrCreateAttestationNote, first half: any error means there is no note.
GetNote(r) ==
    /\ loc[r].pc = "noteGet"
    /\ \E a \in loc[r].auths, ok \in BOOLEAN :
          /\ Call(r, ok)
          /\ Step(r, [loc[r] EXCEPT
                !.pc = IF ok /\ a.note \in notes THEN "secret" ELSE "noteCreate"])
    /\ UNCHANGED <<cluster, metadata, seen>>

\* Mutant: an error of addAttestation denies the request.
CreateNote_denies(r) ==
    /\ loc[r].pc = "noteCreate"
    /\ \E a \in loc[r].auths, ok \in BOOLEAN, done \in BOOLEAN :
          /\ ok => done
          /\ Call(r, ok)
          /\ notes' = IF done /\ a.note # Malformed THEN notes \cup {a.note} ELSE notes
          /\ Step(r, IF ok /\ a.note \notin notes \cup {Malformed}
                     THEN [loc[r] EXCEPT !.pc = "secret"] ELSE Respond(Denied(loc[r])))
    /\ UNCHANGED <<cluster, vulnerabilities, occurrences, seen>>

\* CreateAttestationNote fails on a note reference that is not of the form
\* projects/_/notes/_ and when the note exists; the reply may be lost.
CreateNote(r) ==
    /\ loc[r].pc = "noteCreate"
    /\ \E a \in loc[r].auths, ok \in BOOLEAN, done \in BOOLEAN :
          /\ ok => done
          /\ Call(r, ok)
          /\ notes' = IF done /\ a.note # Malformed THEN notes \cup {a.note} ELSE notes
          /\ Step(r, [loc[r] EXCEPT !.pc =
                IF ok /\ a.note \notin notes \cup {Malformed} THEN "secret" ELSE "ispImage"])
    /\ UNCHANGED <<cluster, vulnerabilities, occurrences, seen>>

\* Mutant: the error of the fetch is ignored.
FetchSecret_ignoresError(r) ==
    /\ loc[r].pc = "secret"
    /\ \E ok \in BOOLEAN :
          /\ Call(r, ok)
          /\ Step(r, [loc[r] EXCEPT !.pc = "attest",
                         !.key = IF ok THEN SecretKey[loc[r].isp.PrivateKeySecretName] ELSE None])
    /\ UNCHANGED <<cluster, metadata, seen>>

\* secrets.Fetch of the policy's PrivateKeySecretName.
FetchSecret(r) ==
    /\ loc[r].pc = "secret"
    /\ \E ok \in BOOLEAN :
          LET f == loc[r]
              s == f.isp.PrivateKeySecretName
          IN /\ Call(r, ok)
             /\ Step(r, IF ok /\ s \in SecretNames
                        THEN [f EXCEPT !.pc = "attest", !.key = SecretKey[s]]
                        ELSE [f EXCEPT !.pc = "ispImage"])
    /\ UNCHANGED <<cluster, metadata, seen>>

\* CreateAttestationOccurrence: the payload needs a strict digest, and the
\* server may have filed the occurrence even when the reply is an error.
CreateOccurrence(r) ==
    /\ loc[r].pc = "attest"
    /\ \E a \in loc[r].auths, ok \in BOOLEAN, done \in BOOLEAN :
          LET f == loc[r] IN
          /\ Call(r, ok)
          /\ ok => done
          /\ occurrences' =
                IF done /\ f.image \in StrictDigest /\ isServed(f.image)
                THEN occurrences \cup {newOccurrence(a.note, f.image, f.key)}
                ELSE occurrences
          /\ Step(r, [f EXCEPT !.pc = "ispImage", !.key = None])
    /\ UNCHANGED <<cluster, vulnerabilities, notes>>
    /\ Observe

-----------------------------------------------------------------------------
(* The others: operators edit policies, authorities and workloads, the     *)
(* scanner reports, signers add and delete attestations, the webhook's pod *)
(* is restarted.  MaxEdits and MaxFaults bound how often; what happens     *)
(* after the last answer is of no interest.                                *)

Edit(keepsOwed) ==
    /\ edits < MaxEdits
    /\ \E r \in Requests : loc[r].pc # "done"
    /\ edits' = edits + 1
    /\ owed' = [r \in Requests |-> owed[r] /\ keepsOwed]
    /\ UNCHANGED <<faults, loc, notes>>
    /\ Observe

EditGaps ==
    /\ clusterGaps' \in GapLists \ {clusterGaps}
    /\ UNCHANGED <<clusterIsps, authorities, workloads, vulnerabilities, occurrences>>
    /\ Edit(FALSE)

EditIsps ==
    /\ clusterIsps' \in IspLists \ {clusterIsps}
    /\ UNCHANGED <<clusterGaps, authorities, workloads, vulnerabilities, occurrences>>
    /\ Edit(FALSE)

\* An authority is created, replaced (a key rotation) or deleted.
EditAuthority ==
    /\ \E n \in AuthNames :
          LET others == {a \in authorities : a.name # n} IN
          /\ authorities' \in {others} \cup
                 {others \cup {a} : a \in {b \in Authorities : b.name = n}}
          /\ authorities' # authorities
    /\ UNCHANGED <<clusterGaps, clusterIsps, workloads, vulnerabilities, occurrences>>
    /\ Edit(FALSE)

EditWorkload ==
    /\ \E w \in Workloads, S \in TemplateImages \cup {{}} :
          /\ workloads[w] # S
          /\ workloads' = [workloads EXCEPT ![w] = S]
    /\ UNCHANGED <<clusterGaps, clusterIsps, authorities, vulnerabilities, occurrences>>
    /\ Edit(FALSE)

Rescan ==
    /\ \E i \in Images, V \in VulnLists :
          /\ vulnerabilities[i] # V
          /\ vulnerabilities' = [vulnerabilities EXCEPT ![i] = V]
    /\ UNCHANGED <<cluster, occurrences>>
    /\ Edit(FALSE)

\* A new attestation never makes an admissible request inadmissible, unless
\* its signature kind is unknown to the client.
AddOccurrence ==
    /\ UNCHANGED <<cluster, vulnerabilities>>
    /\ \E o \in Occurrences \ occurrences :
          /\ occurrences' = occurrences \cup {o}
          /\ Edit(o.known)

DeleteOccurrence ==
    /\ \E o \in occurrences : occurrences' = occurrences \ {o}
    /\ UNCHANGED <<cluster, vulnerabilities>>
    /\ Edit(FALSE)

\* The webhook process dies: every request in flight gets no response.
Crash ==
    /\ faults < MaxFaults
    /\ \E r \in Requests : Active(r)
    /\ loc' = [r \in Requests |->
                  IF Active(r) THEN Answered(loc[r], "lost") ELSE loc[r]]
    /\ faults' = faults + 1
    /\ UNCHANGED <<cluster, metadata, seen, owed, edits>>

Environment ==
    \/ EditGaps \/ EditIsps \/ EditAuthority \/ EditWorkload
    \/ Rescan \/ AddOccurrence \/ DeleteOccurrence \/ Crash

Work(r) ==
    \/ CheckOwner(r) \/ FetchGAPs(r) \/ GapClient(r) \/ CheckGAPs(r)
    \/ GapImage(r) \/ GapNext(r) \/ GapAuthority(r) \/ GapVerify(r)
    \/ FetchISPs(r) \/ IspClient(r) \/ IspNext(r) \/ IspAuthority(r)
    \/ IspImage(r) \/ IspAttested(r) \/ IspValidate(r)
    \/ GetNote(r) \/ CreateNote(r) \/ FetchSecret(r) \/ CreateOccurrence(r)

Next ==
    \/ \E r \in Requests : ReviewHandler(r) \/ Work(r)
    \/ Environment

\* Every goroutine that can move does, and every call it makes returns.
Fairness == \A r \in Requests : WF_vars(Work(r))

Spec == Init /\ [][Next]_vars

FairSpec == Spec /\ Fairness

-----------------------------------------------------------------------------
(* Properties.                                                             *)

\* What is on the metadata server: attestations of others and of the webhook.
AllOccurrences ==
    Occurrences \cup {newOccurrence(a.note, i, SecretKey[s]) :
                          a \in Authorities, i \in Images, s \in SecretNames}

History ==
    [gaps : SUBSET GapLists, isps : SUBSET IspLists, auths : SUBSET Authorities,
     work : SUBSET (Workloads \X (TemplateImages \cup {{}})),
     vulns : SUBSET (Images \X VulnLists), occs : SUBSET AllOccurrences]

TypeOK ==
    /\ clusterGaps \in GapLists /\ clusterIsps \in IspLists
    /\ authorities \subseteq Authorities
    /\ workloads \in [Workloads -> TemplateImages \cup {{}}]
    /\ vulnerabilities \in [Images -> VulnLists]
    /\ occurrences \subseteq AllOccurrences
    /\ notes \subseteq Notes
    /\ loc \in [Requests -> Frame]
    /\ seen \in [Requests -> History]
    /\ owed \in [Requests -> BOOLEAN]
    /\ faults \in 0..MaxFaults /\ edits \in 0..MaxEdits

\* The history h holds an authority of that name and an attestation it accepts.
seenAttested(h, image, name) ==
    \E a \in h.auths : a.name = name /\ hasValidatedAttestation(a, h.occs, image)

seenOwner(h, o, w) ==
    \E t \in h.work : t[1] = w.name /\ t[2] # {} /\ imagesAreValid(o.images, t[2])

seenGapSatisfied(h, G, i) ==
    \E g \in G : /\ g.AttestationAuthorityNames # {}
                 /\ \A n \in g.AttestationAuthorityNames : seenAttested(h, i, n)

seenGapsSatisfied(h, o) ==
    \E G \in h.gaps :
        G # {} => \A i \in gapReviewed(o.images, G) : seenGapSatisfied(h, G, i)

seenClean(h, p, i) ==
    \/ i \in p.ImageAllowlist
    \/ /\ i \in FullyQualified
       /\ \E t \in h.vulns : t[1] = i /\ validateVulnz(p, t[2]) = "clean"

seenIspSatisfied(h, p, i) ==
    seenAttested(h, i, p.AttestationAuthorityName) \/ seenClean(h, p, i)

seenIspsSatisfied(h, o) ==
    \E P \in h.isps :
        \A p \in P : \A i \in notGloballyAllowed(o.images) : seenIspSatisfied(h, p, i)

Grounds(h, o) ==
    \/ o.kind \notin handlers
    \/ o.breakglass
    \/ o.owners # {} /\ \A w \in o.owners : seenOwner(h, o, w)
    \/ seenGapsSatisfied(h, o) /\ seenIspsSatisfied(h, o)

\* An object is admitted only on evidence that was there while the request was
\* being handled: an owner with these images, the breakglass annotation, or
\* lists of policies each of which is met by attestations made by a key of the
\* right authority or by clean scans.  No failed call, no negative cache entry,
\* no policy, key or scan edited under way lets an unreviewed image through
\* (ReviewHandler, ReviewGAP, ReviewISP).
Justified ==
    \A r \in Requests : loc[r].answer = "allowed" => Grounds(seen[r], loc[r].obj)

\* A request that its policies admit when it comes in, while none of its calls
\* fails and nothing it depends on is edited, is not denied: the loops, the
\* caches and the early returns of the review add no reason of their own.  With
\* Container Analysis that takes attestations that all parse: a lookup that fails
\* on another is cached and hides the image's attestations of every authority.
OwedAdmission ==
    \A r \in Requests : loc[r].answer \in {"denied", "badRequest", "handlerFailed"} => ~owed[r]

\* The webhook files an attestation only for an image of the object it reviews,
\* under the note of an authority one of its policies names, signed with that
\* policy's key, and after that policy found the image clean (ReviewISP,
\* addAttestation).
AttestationsEarned ==
    [][\A o \in (occurrences' \ occurrences) \ Occurrences :
          \E r \in Requests : Active(r) /\
              \E P \in seen[r].isps : \E p \in P, a \in seen[r].auths :
                 /\ p.AttestationAuthorityName = a.name
                 /\ o.resource \in notGloballyAllowed(loc[r].obj.images)
                 /\ o = newOccurrence(a.note, o.resource, SecretKey[p.PrivateKeySecretName])
                 /\ seenClean(seen[r], p, o.resource)]_vars

\* Once one review has denied a request no later step admits it, and an answer
\* that was given stays as it was: createDeniedResponse is never undone by the
\* review of the other policy kind.
DenialSticks ==
    [][\A r \in Requests :
          /\ ~loc[r].allowed => ~loc'[r].allowed /\ loc'[r].answer # "allowed"
          /\ loc[r].answer # None => loc'[r].answer = loc[r].answer]_vars

\* "Attestations gets Attestations for a specified image and a specified
\* AttestationAuthority from cache or from client" (pkg/kritis/metadata/
\* containeranalysis/cache.go:70): unless its call fails, an authority that
\* attests the image is not found to be missing, whatever was asked before.
AnswersForItsAuthority ==
    [][\A r \in Requests :
          /\ loc[r].pc = "gapVerify" /\ ~loc[r].missing /\ loc'[r].missing
          /\ faults' = faults
          => \E a \in loc[r].auths \ loc'[r].auths :
                \/ noVerifier(a, loc[r].image)
                \/ ~attestationsFetched(occurrences, a, loc[r].image, TRUE)
                \/ ~hasValidatedAttestation(a, occurrences, loc[r].image)]_vars

\* Every request is answered: no edit, failure or crash leaves the review in a
\* loop or waiting, provided every call returns.
Responds == \A r \in Requests : Active(r) ~> loc[r].pc = "done"

=============================================================================
