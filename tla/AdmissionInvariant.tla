------------------------- MODULE AdmissionInvariant -------------------------
(***************************************************************************)
(* The inductive invariant behind Justified: at every point of the review, *)
(* what the frame of a goroutine claims by its position is backed by what  *)
(* has been true since the request came in.                                *)
(***************************************************************************)
EXTENDS Admission

\* History h includes what is true at this moment.
Current(h) ==
    /\ clusterGaps \in h.gaps
    /\ clusterIsps \in h.isps
    /\ authorities \subseteq h.auths
    /\ \A w \in Workloads : <<w, workloads[w]>> \in h.work
    /\ \A i \in Images : <<i, vulnerabilities[i]>> \in h.vulns
    /\ occurrences \subseteq h.occs

GapPC == {"gapClient", "gapCheck", "gapImage", "gapNext", "gapAuths", "gapVerify"}
GapImagePC == {"gapNext", "gapAuths", "gapVerify"}
IspImagePC == {"ispAttested", "ispValidate", "noteGet", "noteCreate", "secret", "attest"}
AttestPC == {"noteGet", "noteCreate", "secret", "attest"}
IspPC == {"ispAuth", "ispImage"} \cup IspImagePC

\* Before a request comes in there is no object, and the response is the
\* successful one ReviewHandler starts from; the answer ends the handling, and
\* says what the response says.
GoodObject(f) ==
    /\ f.pc = "idle" => f.obj = None /\ f.allowed
    /\ f.pc # "idle" => f.obj \in Objects
    /\ f.pc = "done" <=> f.answer # None
    /\ f.answer = "allowed" => f.allowed
    /\ f.answer = "denied" => ~f.allowed

\* The owners already looked at had the images.
GoodOwners(f, h) ==
    f.pc = "owners" =>
        /\ f.allowed /\ f.obj.owners # {}
        /\ \A w \in f.obj.owners \ f.ownersLeft : seenOwner(h, f.obj, w)

\* The policies under review were listed; the images done with, and not bad,
\* satisfy one of them.
GoodGaps(f, h) ==
    /\ f.pc \in GapPC => f.gapList \in h.gaps /\ f.gapList # {}
    /\ f.pc \in {"gapCheck", "gapImage"} \cup GapImagePC =>
          \A g \in f.gapList : g.AttestationAuthorityNames # {}
    /\ f.pc \in {"gapImage"} \cup GapImagePC =>
          \A i \in gapReviewed(f.obj.images, f.gapList) \ (f.imagesLeft \cup f.badImages) :
              (f.pc \in GapImagePC /\ i = f.image) \/ seenGapSatisfied(h, f.gapList, i)
    /\ f.pc \in GapImagePC => f.image \in Images /\ f.gapsLeft \subseteq f.gapList

\* Inside one policy: the authorities fetched exist or existed, none is left
\* out, and those no longer to be asked attest the image unless one is missing.
GoodGap(f, h) ==
    /\ f.pc \in {"gapAuths", "gapVerify"} =>
          f.gap \in f.gapList /\ f.auths \subseteq h.auths
    /\ f.pc = "gapAuths" =>
          /\ ~f.missing
          /\ \A n \in f.gap.AttestationAuthorityNames \ f.namesLeft :
                \E a \in f.auths : a.name = n
    /\ f.pc = "gapVerify" =>
          \/ f.missing
          \/ \A n \in f.gap.AttestationAuthorityNames :
                (\E a \in f.auths : a.name = n) \/ seenAttested(h, f.image, n)

\* A request not yet denied has passed the generic attestation policies.
GoodVerdict(f, h) ==
    f.pc \in {"ispList", "ispClient", "ispNext"} \cup IspPC /\ f.allowed =>
        seenGapsSatisfied(h, f.obj)

\* The image security policies done with are satisfied by all images.
GoodIsps(f, h) ==
    /\ f.pc \in {"ispClient", "ispNext"} \cup IspPC => f.ispList \in h.isps
    /\ f.pc \in {"ispNext"} \cup IspPC => f.ispsLeft \subseteq f.ispList
    /\ f.pc \in {"ispNext"} \cup IspPC =>
          \A p \in f.ispList \ f.ispsLeft : \A i \in notGloballyAllowed(f.obj.images) :
              (f.pc \in IspPC /\ p = f.isp) \/ seenIspSatisfied(h, p, i)

\* Under the current policy: the images done with, and the authority fetched.
GoodIsp(f, h) ==
    /\ f.pc \in IspPC =>
          /\ f.isp \in f.ispList
          /\ \A i \in notGloballyAllowed(f.obj.images) \ f.imagesLeft :
                (f.pc \in IspImagePC /\ i = f.image) \/ seenIspSatisfied(h, f.isp, i)
          /\ f.auths \subseteq h.auths
          /\ \A a \in f.auths : a.name = f.isp.AttestationAuthorityName
    /\ f.pc = "ispAuth" => f.auths = {}
    /\ f.pc \in {"ispAuth", "ispImage"} =>
          f.imagesLeft \subseteq notGloballyAllowed(f.obj.images)
    /\ f.pc \in IspImagePC =>
          /\ f.image \in notGloballyAllowed(f.obj.images)
          /\ f.imagesLeft \subseteq notGloballyAllowed(f.obj.images)

\* An attestation is under way only for an image the policy found clean.
GoodAttest(f, h) ==
    /\ f.pc \in AttestPC => seenClean(h, f.isp, f.image)
    /\ f.pc = "attest" =>
          /\ f.isp.PrivateKeySecretName \in SecretNames
          /\ f.key = SecretKey[f.isp.PrivateKeySecretName]

\* An object that was admitted was admitted for a reason.
GoodAnswer(f, h) == f.answer = "allowed" => Grounds(h, f.obj)

Good(f, h) ==
    /\ GoodObject(f)
    /\ GoodOwners(f, h)
    /\ GoodGaps(f, h) /\ GoodGap(f, h) /\ GoodVerdict(f, h)
    /\ GoodIsps(f, h) /\ GoodIsp(f, h) /\ GoodAttest(f, h)
    /\ GoodAnswer(f, h)

\* The frame of every goroutine is backed by the history of its request: where
\* ReviewGAP and ReviewISP stand in their loops tells what they have verified.
IInv ==
    /\ TypeOK
    /\ \A r \in Requests : Active(r) => Current(seen[r])
    /\ \A r \in Requests : Good(loc[r], seen[r])

-----------------------------------------------------------------------------
(* The inductive invariant behind OwedAdmission: a request to which the    *)
(* policies owe its admission is still owed it, and its review stands      *)
(* where every check that is left will succeed.                            *)

\* No failed lookup can hide an attestation: the backend keeps no cache of
\* failures, or no occurrence is of a kind that makes a lookup fail.
NothingHidden ==
    Metadata = GrafeasMetadata \/ \A o \in Occurrences : o.known

allAttested(g, image) == \A n \in g.AttestationAuthorityNames : attestedNow(image, n)

\* Not refused so far; the policies decide once the owners and the breakglass
\* annotation have not.
OnCourse(f) ==
    /\ f.answer \notin {"denied", "badRequest", "handlerFailed"}
    /\ f.pc # "done" => f.allowed /\ f.obj.kind \in handlers
    /\ f.pc = "owners" => f.ownersLeft \subseteq f.obj.owners
    /\ f.pc \notin {"owners", "done"} =>
          gapsSatisfied(f.obj.images) /\ ispsSatisfied(f.obj.images)
    /\ \A i \in f.attCache : ~isServed(i)

\* The policies under review are those of the namespace, no image is bad, and
\* the image under review has a policy it satisfies that is not used up.
GapsOnCourse(f) ==
    /\ f.pc \in {"owners", "gapList"} \cup GapPC => f.badImages = {}
    /\ f.pc \in GapPC => f.gapList = clusterGaps
    /\ f.pc = "gapCheck" => \A c \in f.toCheck : exists(c[2])
    /\ f.pc \in {"gapImage"} \cup GapImagePC =>
          f.imagesLeft \subseteq gapReviewed(f.obj.images, f.gapList)
    /\ f.pc = "gapNext" => \E g \in f.gapsLeft : allAttested(g, f.image)
    /\ f.pc \in {"gapAuths", "gapVerify"} =>
          /\ \/ \E g \in f.gapsLeft : allAttested(g, f.image)
             \/ ~f.missing /\ allAttested(f.gap, f.image)
          /\ f.namesLeft \subseteq f.gap.AttestationAuthorityNames
          /\ f.auths \subseteq authorities
          /\ \A a \in f.auths : a.name \in f.gap.AttestationAuthorityNames

\* An image whose attestation was not found is clean.
IspsOnCourse(f) ==
    /\ f.pc \in {"ispClient", "ispNext"} \cup IspPC => f.ispList = clusterIsps
    /\ f.pc \in {"ispNext"} \cup IspPC => notGloballyAllowed(f.obj.images) # {}
    /\ f.pc \in {"ispImage"} \cup IspImagePC =>
          /\ f.auths = {} <=> f.isp.AttestationAuthorityName = ""
          /\ f.auths \subseteq authorities
    /\ f.pc = "ispAuth" => f.isp.AttestationAuthorityName # ""
    /\ f.pc = "ispValidate" =>
          \/ f.image \in f.isp.ImageAllowlist
          \/ /\ f.image \in FullyQualified /\ isServed(f.image)
             /\ validateVulnz(f.isp, vulnerabilities[f.image]) = "clean"

OwedInv ==
    /\ \A a, b \in authorities : a.name = b.name => a = b
    /\ \A r \in Requests : owed[r] =>
          /\ loc[r].pc # "idle" /\ Admissible(loc[r].obj)
          /\ OnCourse(loc[r]) /\ GapsOnCourse(loc[r]) /\ IspsOnCourse(loc[r])

=============================================================================
