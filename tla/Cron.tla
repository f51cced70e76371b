-------------------------------- MODULE Cron --------------------------------
(***************************************************************************)
(* The background job that reviews the pods that are already running       *)
(* (pkg/kritis/cron), with the policy review it calls (pkg/kritis/review,  *)
(* IsWebhook = false) and the labels it leaves on pods                     *)
(* (pkg/kritis/violation, pkg/kritis/pods).                                *)
(*                                                                         *)
(* A runner is a process: the server, whose job wakes up again and again   *)
(* with one metadata client, or a foreground run (--run-cron), a process   *)
(* with a client of its own that makes one pass.  One action is one call   *)
(* to the cluster or to the metadata server with the computation that      *)
(* follows it.  Between two calls users, controllers, the scanner and the  *)
(* other runners move.                                                     *)
(***************************************************************************)
EXTENDS Naturals, FiniteSets, ImageReview

CONSTANTS
    Runners, Foreground,  \* the processes, those that make one pass and exit
    PodNames, PodNamespace, \* pods, the namespace each of them is in
    PodTemplates,      \* sets of images a pod may run
    Authorities,       \* AttestationAuthority objects that may exist
    IspLists,          \* the image security policies of all namespaces
    Occurrences,       \* attestation occurrences
    VulnLists,         \* vulnerability lists a scan may produce
    UserValues,        \* values of a label or an annotation kritis does not own
    MaxFaults, MaxEdits,  \* bounds on failures and on changes made by others
    None               \* no label, no pod, no local value

Isps == UNION IspLists

ASSUME CronAssumption ==
    /\ MaxFaults \in Nat /\ MaxEdits \in Nat
    /\ Foreground \subseteq Runners
    /\ \A T \in PodTemplates : T \subseteq Images
    /\ None \notin UserValues
    /\ IsFiniteSet(UNION VulnLists)

VARIABLES
    clusterIsps, authorities, \* policies and authorities of the cluster
    vulnerabilities, occurrences, \* the metadata server
    pods,           \* the pod of each name, or None
    vulnCache, attCache, \* the images with a failed lookup, for each client
    loc,            \* the stack frame of each runner
    seen,           \* scans and pods since the pass of a runner began
    faults, edits   \* failures and outside changes so far

cluster == <<clusterIsps, authorities>>
metadata == <<vulnerabilities, occurrences>>
caches == <<vulnCache, attCache>>
vars == <<cluster, metadata, pods, caches, loc, seen, faults, edits>>

-----------------------------------------------------------------------------
(* Pods.  The labels of a pod and its annotations are two maps, each with  *)
(* the key of the attestation, the key of the violation and a key that     *)
(* belongs to somebody else.  None is a key that is not there.             *)

InvalidImageSecPolicy == "invalidImageSecPolicy"

\* "found %d CVEs", with a remark when the image has no digest.
annotationValue(isp, image, vulnz) ==
    IF image \in FullyQualified
    THEN <<Cardinality(Violations(isp, vulnz)), FALSE>>
    ELSE <<1, TRUE>>

AttestationValues == {None, "attested", "notAttested"}
AnnotationValues == ((0..Cardinality(UNION VulnLists)) \X {FALSE}) \cup {<<1, TRUE>>}
Annotations == {None} \cup AnnotationValues

Marks ==
    [labels : [attestation : AttestationValues, violation : {None, InvalidImageSecPolicy},
               user : {None} \cup UserValues],
     annotations : [attestation : AttestationValues, violation : Annotations,
                    user : {None} \cup UserValues]]

NoKeys == [attestation |-> None, violation |-> None, user |-> None]

\* The marks of a new pod: a template may bring a label of its own.
NewMarks ==
    {[labels |-> [NoKeys EXCEPT !.user = v], annotations |-> NoKeys] : v \in {None} \cup UserValues}

Pod == [images : PodTemplates, marks : Marks]
ASSUME PodAssumption ==
    /\ None \notin Pod /\ None \notin AnnotationValues
    /\ None \notin {InvalidImageSecPolicy, "attested", "notAttested"}
Snapshot == [name : PodNames, images : PodTemplates, marks : Marks]

\* Mutant: the whole modified copy replaces the pod.
mergePatch_put(original, modified, live) == modified

\* One map in a two-way merge patch.  The patch carries the keys in which the
\* modified copy differs from the original the review started from.  An empty
\* map is left out of the modified object (omitempty), so deleting the only key
\* of the original makes the patch null and removes every key of the live pod.
mergeMap(original, modified, live) ==
    IF modified = NoKeys /\ original # NoKeys THEN NoKeys
    ELSE [k \in DOMAIN live |-> IF modified[k] # original[k] THEN modified[k] ELSE live[k]]

\* getPatch and the server's merge.
mergePatch(original, modified, live) ==
    [labels |-> mergeMap(original.labels, modified.labels, live.labels),
     annotations |-> mergeMap(original.annotations, modified.annotations, live.annotations)]

\* The modified copies that the four calls of AnnotationStrategy make.
attestationDeleted(m) ==
    [m EXCEPT !.labels.attestation = None, !.annotations.attestation = None]
\* Mutant: the label value of the other handler.
attestationAdded_swapped(m, attested) ==
    [m EXCEPT !.labels.attestation = IF attested THEN "attested" ELSE InvalidImageSecPolicy]

attestationAdded(m, attested) ==
    LET value == IF attested THEN "attested" ELSE "notAttested"
    IN [m EXCEPT !.labels.attestation = value, !.annotations.attestation = value]
violationDeleted(m) ==
    [m EXCEPT !.labels.violation = None, !.annotations.violation = None]
violationAdded(m, value) ==
    [m EXCEPT !.labels.violation = InvalidImageSecPolicy, !.annotations.violation = value]

-----------------------------------------------------------------------------
(* A runner's frame.                                                       *)

PC == {"idle", "exited", "listPods", "nextPod", "nextIsp", "nextImage", "attDelete",
       "attAdd", "validate", "vioDelete", "vioAdd"}

Frame ==
    [pc : PC,
     isps : SUBSET Isps,         \* the policies the pass has listed
     toList : SUBSET Isps,       \* those whose pods are still to be listed
     podsLeft : SUBSET Snapshot, pod : Snapshot \cup {None},
     ispsLeft : SUBSET Isps, isp : Isps \cup {None},
     auths : SUBSET Authorities,
     imagesLeft : SUBSET Images, image : Images \cup {None},
     attested : BOOLEAN,
     value : Annotations,
     reviewed : SUBSET PodNames] \* history: ReviewISP was called on these

Idle ==
    [pc |-> "idle", isps |-> {}, toList |-> {}, podsLeft |-> {}, pod |-> None,
     ispsLeft |-> {}, isp |-> None, auths |-> {}, imagesLeft |-> {},
     image |-> None, attested |-> FALSE, value |-> None, reviewed |-> {}]

\* Where a runner is when its pass is over: a foreground process has exited.
Ended(r) == [Idle EXCEPT !.pc = IF r \in Foreground THEN "exited" ELSE "idle"]

\* Mutant: the end of a review also ends the loop over the pods.
betweenPods_break(f) ==
    [f EXCEPT !.pc = "nextPod", !.podsLeft = {}, !.pod = None, !.ispsLeft = {},
              !.isp = None, !.auths = {}, !.imagesLeft = {}, !.image = None,
              !.attested = FALSE, !.value = None]

\* Between two pods, with nothing of the last review on the stack.
betweenPods(f) ==
    [f EXCEPT !.pc = "nextPod", !.pod = None, !.ispsLeft = {}, !.isp = None,
              !.auths = {}, !.imagesLeft = {}, !.image = None,
              !.attested = FALSE, !.value = None]

Step(r, frame) == loc' = [loc EXCEPT ![r] = frame]

\* One call: it succeeds or it fails.
Call(ok) ==
    /\ ok \/ faults < MaxFaults
    /\ faults' = IF ok THEN faults ELSE faults + 1
    /\ UNCHANGED edits

NoCall == UNCHANGED <<faults, edits>>

Working(r) == loc[r].pc \notin {"idle", "exited"}

Existing == {p \in PodNames : pods[p] # None}

Now ==
    [vulns |-> {<<i, vulnerabilities[i]>> : i \in Images},
     pods |-> {<<p, pods[p].images>> : p \in Existing},
     present |-> Existing]

Nothing == [vulns |-> {}, pods |-> {}, present |-> {}]

-----------------------------------------------------------------------------
(* Start, RunInForeground and CheckPods.                                   *)

\* faults and edits start wherever their bounds allow: a behaviour may have seen
\* some failures and changes before it began.
Init ==
    /\ clusterIsps \in IspLists
    /\ authorities \in {A \in SUBSET Authorities :
                           \A a, b \in A : a.Namespace = b.Namespace /\ a.name = b.name => a = b}
    /\ vulnerabilities \in [Images -> VulnLists]
    /\ occurrences \in SUBSET Occurrences
    /\ pods \in [PodNames -> {None} \cup [images : PodTemplates, marks : NewMarks]]
    /\ vulnCache = [r \in Runners |-> {}] /\ attCache = [r \in Runners |-> {}]
    /\ loc \in {[r \in Runners |-> Idle], [r \in Runners |-> Ended(r)]}
    /\ seen = [r \in Runners |-> Nothing]
    /\ faults \in 0..MaxFaults /\ edits \in 0..MaxEdits

\* The ticker fires, or somebody starts a foreground run: the policies of all
\* namespaces are listed.  When that fails the server waits for the next tick and
\* the foreground run exits.
StartPass(r) ==
    /\ loc[r].pc = "idle"
    /\ \E ok \in BOOLEAN :
          /\ Call(ok)
          /\ Step(r, IF ok THEN [Idle EXCEPT !.pc = "listPods", !.isps = clusterIsps,
                                             !.toList = clusterIsps]
                     ELSE Ended(r))
          /\ seen' = [seen EXCEPT ![r] = IF ok THEN Now ELSE Nothing]
    /\ UNCHANGED <<cluster, metadata, pods, caches>>

\* CheckPods returns.  A foreground process exits and its client goes with it.
EndPass(r) ==
    /\ Step(r, Ended(r))
    /\ seen' = [seen EXCEPT ![r] = Nothing]
    /\ vulnCache' = [vulnCache EXCEPT ![r] = IF r \in Foreground THEN {} ELSE @]
    /\ attCache' = [attCache EXCEPT ![r] = IF r \in Foreground THEN {} ELSE @]

passDone(f) == f.toList = {}

podsIn(namespace) ==
    {[name |-> p, images |-> pods[p].images, marks |-> pods[p].marks] :
        p \in {q \in Existing : PodNamespace[q] = namespace}}

\* The loop over the policies: one listing of pods for each, and the whole pass
\* ends when one of them fails.
ListPods(r) ==
    /\ loc[r].pc = "listPods"
    /\ LET f == loc[r] IN
       \/ passDone(f) /\ EndPass(r) /\ NoCall
       \/ \E isp \in f.toList, ok \in BOOLEAN :
             /\ Call(ok)
             /\ IF ok
                THEN /\ Step(r, [f EXCEPT !.pc = "nextPod", !.toList = @ \ {isp},
                                          !.podsLeft = podsIn(isp.Namespace)])
                     /\ UNCHANGED <<seen, caches>>
                ELSE EndPass(r)
    /\ UNCHANGED <<cluster, metadata, pods>>

\* The loop over the pods: ReviewISP takes all the policies of the pass.
NextPod(r) ==
    /\ loc[r].pc = "nextPod"
    /\ LET f == loc[r] IN
       \/ f.podsLeft = {} /\ Step(r, [f EXCEPT !.pc = "listPods"])
       \/ \E p \in f.podsLeft :
             LET g == [f EXCEPT !.podsLeft = @ \ {p}, !.reviewed = @ \cup {p.name}] IN
             Step(r, IF notGloballyAllowed(p.images) = {} THEN g
                     ELSE [g EXCEPT !.pc = "nextIsp", !.pod = p, !.ispsLeft = f.isps])
    /\ NoCall
    /\ UNCHANGED <<cluster, metadata, pods, caches, seen>>

-----------------------------------------------------------------------------
(* ReviewISP for one pod.  Any error it returns is logged by CheckPods,    *)
(* which goes on to the next pod.                                          *)

\* getAttestationAuthorityForISP.
authoritiesOf(isp) ==
    {a \in authorities : a.Namespace = isp.Namespace /\ a.name = isp.AttestationAuthorityName}

NextIsp(r) ==
    /\ loc[r].pc = "nextIsp"
    /\ LET f == loc[r]
           review(isp, A) == [f EXCEPT !.pc = "nextImage", !.isp = isp, !.ispsLeft = @ \ {isp},
                                       !.auths = A, !.imagesLeft = notGloballyAllowed(f.pod.images)]
       IN \/ f.ispsLeft = {} /\ Step(r, betweenPods(f)) /\ NoCall
          \/ \E isp \in f.ispsLeft :
                /\ isp.AttestationAuthorityName = ""
                /\ Step(r, review(isp, {}))
                /\ NoCall
          \/ \E isp \in f.ispsLeft, ok \in BOOLEAN :
                /\ isp.AttestationAuthorityName # ""
                /\ Call(ok)
                /\ Step(r, IF ~ok \/ authoritiesOf(isp) = {} THEN betweenPods(f)
                           ELSE review(isp, authoritiesOf(isp)))
    /\ UNCHANGED <<cluster, metadata, pods, caches, seen>>

\* The loop over the images, up to the answer of isAttestedBy.
NextImage(r) ==
    /\ loc[r].pc = "nextImage"
    /\ LET f == loc[r] IN
       \/ /\ f.imagesLeft = {}
          /\ Step(r, [f EXCEPT !.pc = "nextIsp", !.image = None, !.attested = FALSE])
          /\ NoCall
          /\ UNCHANGED attCache
       \/ \E i \in f.imagesLeft, ok \in BOOLEAN :
             /\ IF \E a \in f.auths : attestationCall(attCache[r], a, i)
                THEN Call(ok) ELSE ok /\ NoCall
             /\ Step(r, [f EXCEPT !.pc = "attDelete", !.image = i, !.imagesLeft = @ \ {i},
                     !.attested = \E a \in f.auths :
                                     isAttestedBy(attCache[r], occurrences, a, i, ok)])
             /\ attCache' = [attCache EXCEPT ![r] =
                     @ \cup UNION {attCacheAfter(@, occurrences, a, i, ok) : a \in f.auths}]
    /\ UNCHANGED <<cluster, metadata, pods, vulnCache, seen>>

\* applyPatch: the modified copy of the snapshot against the pod of that name.
\* It fails when there is none; a failed call may have reached the server.
Patch(r, modified, whenDone, whenFailed) ==
    LET p == loc[r].pod IN
    \/ /\ pods[p.name] = None
       /\ Step(r, whenFailed)
       /\ NoCall
       /\ UNCHANGED pods
    \/ /\ pods[p.name] # None
       /\ \E ok \in BOOLEAN, applied \in BOOLEAN :
             /\ Call(ok)
             /\ ok => applied
             /\ pods' = IF applied
                        THEN [pods EXCEPT ![p.name].marks = mergePatch(p.marks, modified, @)]
                        ELSE pods
             /\ Step(r, IF ok THEN whenDone ELSE whenFailed)

\* HandleAttestation: its errors are logged and the image is validated anyway.
AttDelete(r) ==
    /\ loc[r].pc = "attDelete"
    /\ LET f == loc[r] IN
       Patch(r, attestationDeleted(f.pod.marks),
             [f EXCEPT !.pc = "attAdd"], [f EXCEPT !.pc = "validate"])
    /\ UNCHANGED <<cluster, metadata, caches, seen>>

\* Mutant: an attested image is not validated, as in the webhook.
AttAdd_skipsAttested(r) ==
    /\ loc[r].pc = "attAdd"
    /\ LET f == loc[r]
           next == [f EXCEPT !.pc = IF f.attested THEN "nextImage" ELSE "validate"]
       IN Patch(r, attestationAdded(f.pod.marks, f.attested), next, next)
    /\ UNCHANGED <<cluster, metadata, caches, seen>>

AttAdd(r) ==
    /\ loc[r].pc = "attAdd"
    /\ LET f == loc[r]
           next == [f EXCEPT !.pc = "validate"]
       IN Patch(r, attestationAdded(f.pod.marks, f.attested), next, next)
    /\ UNCHANGED <<cluster, metadata, caches, seen>>

\* ValidateImageSecurityPolicy.  An image in the client's cache has no
\* vulnerabilities; a lookup that fails puts it there.
Validate(r) ==
    /\ loc[r].pc = "validate"
    /\ \E ok \in BOOLEAN :
          LET f == loc[r]
              cached == f.image \in vulnCache[r]
              call == vulnerabilityCall(f.isp, f.image) /\ ~cached
              vulnz == IF cached THEN {} ELSE vulnerabilities[f.image]
              result == IF cached /\ vulnerabilityCall(f.isp, f.image)
                        THEN validateVulnz(f.isp, {})
                        ELSE validate(f.isp, f.image, vulnz, ok)
          IN /\ IF call THEN Call(ok) ELSE ok /\ NoCall
             /\ Step(r, CASE result = "error" -> betweenPods(f)
                          [] result = "clean" -> [f EXCEPT !.pc = "nextImage"]
                          [] OTHER -> [f EXCEPT !.pc = "vioDelete",
                                !.value = annotationValue(f.isp, f.image, vulnz)])
             /\ vulnCache' = [vulnCache EXCEPT ![r] =
                    IF call /\ ~(ok /\ isServed(f.image)) /\ Metadata = ContainerAnalysisMetadata
                    THEN @ \cup {f.image} ELSE @]
    /\ UNCHANGED <<cluster, metadata, pods, attCache, seen>>

\* HandleViolation, after which ReviewISP returns an error in any case.
VioDelete(r) ==
    /\ loc[r].pc = "vioDelete"
    /\ LET f == loc[r] IN
       Patch(r, violationDeleted(f.pod.marks), [f EXCEPT !.pc = "vioAdd"], betweenPods(f))
    /\ UNCHANGED <<cluster, metadata, caches, seen>>

VioAdd(r) ==
    /\ loc[r].pc = "vioAdd"
    /\ LET f == loc[r] IN
       Patch(r, violationAdded(f.pod.marks, f.value), betweenPods(f), betweenPods(f))
    /\ UNCHANGED <<cluster, metadata, caches, seen>>

-----------------------------------------------------------------------------
(* The others.  MaxEdits bounds how often they act.                        *)

Edit ==
    /\ edits < MaxEdits
    /\ edits' = edits + 1
    /\ seen' = [r \in Runners |->
          IF Working(r)
          THEN [vulns |-> seen[r].vulns \cup Now'.vulns, pods |-> seen[r].pods \cup Now'.pods,
                present |-> seen[r].present \cap Existing']
          ELSE Nothing]
    /\ UNCHANGED <<caches, loc, faults>>

EditIsps ==
    /\ clusterIsps' \in IspLists \ {clusterIsps}
    /\ UNCHANGED <<authorities, metadata, pods>>
    /\ Edit

EditAuthority ==
    /\ \/ \E a \in authorities : authorities' = authorities \ {a}
       \/ \E a \in Authorities \ authorities :
             /\ \A b \in authorities : b.Namespace # a.Namespace \/ b.name # a.name
             /\ authorities' = authorities \cup {a}
    /\ UNCHANGED <<clusterIsps, metadata, pods>>
    /\ Edit

Rescan ==
    /\ \E i \in Images, V \in VulnLists :
          /\ vulnerabilities[i] # V
          /\ vulnerabilities' = [vulnerabilities EXCEPT ![i] = V]
    /\ UNCHANGED <<cluster, occurrences, pods>>
    /\ Edit

EditOccurrences ==
    /\ \E o \in Occurrences :
          occurrences' = IF o \in occurrences THEN occurrences \ {o} ELSE occurrences \cup {o}
    /\ UNCHANGED <<cluster, vulnerabilities, pods>>
    /\ Edit

\* A user sets or removes a label or an annotation that is not one of kritis's.
LabelPod ==
    /\ \E p \in Existing, v \in {None} \cup UserValues :
          \/ /\ pods[p].marks.labels.user # v
             /\ pods' = [pods EXCEPT ![p].marks.labels.user = v]
          \/ /\ pods[p].marks.annotations.user # v
             /\ pods' = [pods EXCEPT ![p].marks.annotations.user = v]
    /\ UNCHANGED <<cluster, metadata>>
    /\ Edit

DeletePod ==
    /\ \E p \in Existing : pods' = [pods EXCEPT ![p] = None]
    /\ UNCHANGED <<cluster, metadata>>
    /\ Edit

\* A controller may create a pod under the name of one that was deleted.
CreatePod ==
    /\ \E p \in PodNames \ Existing, T \in PodTemplates, m \in NewMarks :
          pods' = [pods EXCEPT ![p] = [images |-> T, marks |-> m]]
    /\ UNCHANGED <<cluster, metadata>>
    /\ Edit

\* The process of a runner dies; the server is started again with a new client.
Crash(r) ==
    /\ Working(r)
    /\ faults < MaxFaults
    /\ faults' = faults + 1
    /\ Step(r, Ended(r))
    /\ seen' = [seen EXCEPT ![r] = Nothing]
    /\ vulnCache' = [vulnCache EXCEPT ![r] = {}]
    /\ attCache' = [attCache EXCEPT ![r] = {}]
    /\ UNCHANGED <<cluster, metadata, pods, edits>>

Environment ==
    \/ EditIsps \/ EditAuthority \/ Rescan \/ EditOccurrences
    \/ LabelPod \/ DeletePod \/ CreatePod
    \/ \E r \in Runners : Crash(r)

Work(r) ==
    \/ ListPods(r) \/ NextPod(r) \/ NextIsp(r) \/ NextImage(r)
    \/ AttDelete(r) \/ AttAdd(r) \/ Validate(r) \/ VioDelete(r) \/ VioAdd(r)

Next ==
    \/ \E r \in Runners : StartPass(r) \/ Work(r)
    \/ Environment

\* A pass goes on to its end, every call returns, and the ticker of the server
\* never stops.  Nobody is bound to start a foreground run.
Fairness ==
    /\ \A r \in Runners : WF_vars(Work(r))
    /\ \A r \in Runners \ Foreground : WF_vars(StartPass(r))

Spec == Init /\ [][Next]_vars

FairSpec == Spec /\ Fairness

-----------------------------------------------------------------------------
(* Properties.                                                             *)

TypeOK ==
    /\ clusterIsps \in IspLists
    /\ authorities \subseteq Authorities
    /\ vulnerabilities \in [Images -> VulnLists]
    /\ occurrences \subseteq Occurrences
    /\ pods \in [PodNames -> Pod \cup {None}]
    /\ vulnCache \in [Runners -> SUBSET Images]
    /\ attCache \in [Runners -> SUBSET Images]
    /\ loc \in [Runners -> Frame]
    /\ seen \in [Runners -> [vulns : SUBSET (Images \X VulnLists),
                              pods : SUBSET (PodNames \X PodTemplates),
                              present : SUBSET PodNames]]
    /\ faults \in 0..MaxFaults /\ edits \in 0..MaxEdits

marked(p) == pods[p] # None /\ pods[p].marks.labels.violation = InvalidImageSecPolicy

\* The images T break policy isp according to one of the scans in vulns.
breaks(isp, T, vulns) ==
    \E i \in notGloballyAllowed(T) \ isp.ImageAllowlist :
        \/ i \notin FullyQualified
        \/ \E t \in vulns : t[1] = i /\ validateVulnz(isp, t[2]) = "violation"

\* The map m of a snapshot holds the key that a runner at pc deletes, alone.
onlyDeleted(m, pc) ==
    /\ m # NoKeys /\ m.user = None
    /\ pc = "attDelete" => m.violation = None
    /\ pc = "vioDelete" => m.attestation = None

\* What others did to a pod since it was listed is undone in one case only: no
\* step of a runner brings a deleted pod back or changes its images, and a label
\* or an annotation that is not kritis's is as it was, unless the step deletes a
\* mark of kritis that was the only one of its map when the pod was listed (the
\* patch is then null, getPatch): a mark of others set since then goes with it.
OthersKept ==
    [][\A r \in Runners : Work(r) =>
          \A p \in PodNames :
             /\ (pods'[p] = None) <=> (pods[p] = None)
             /\ pods[p] # None =>
                   /\ pods'[p].images = pods[p].images
                   /\ \A m \in {"labels", "annotations"} :
                         \/ pods'[p].marks[m].user = pods[p].marks[m].user
                         \/ /\ pods'[p].marks[m].user = None
                            /\ loc[r].pc \in {"attDelete", "vioDelete"} /\ loc[r].pod.name = p
                            /\ onlyDeleted(loc[r].pod.marks[m], loc[r].pc)]_vars

\* Runner r could know, from the scans and the pods of its pass, that a pod p
\* broke one of the policies P.
earned(r, p, P) ==
    \E isp \in P : \E t \in seen[r].pods : t[1] = p /\ breaks(isp, t[2], seen[r].vulns)

\* A pod gets the violation label only when a pod of that name ran, during the
\* pass, images that broke one of the listed policies, of whatever namespace, by
\* a scan of that time: errors, cached answers, failed patches and passes of
\* others never label a pod that was in policy all along (ReviewISP,
\* HandleViolation).
LabelsEarned ==
    [][\A p \in PodNames : marked(p)' /\ ~marked(p) =>
          \E r \in Runners : Working(r) /\ earned(r, p, loc[r].isps)]_vars

\* A pod gets the violation label only for a policy of its own namespace, as
\* docs/resources.md says of ImageSecurityPolicies.  CheckPods gives ReviewISP
\* the policies of all namespaces.
SameNamespaceOnly ==
    [][\A p \in PodNames : marked(p)' /\ ~marked(p) =>
          \E r \in Runners : Working(r) /\
             earned(r, p, {isp \in loc[r].isps : isp.Namespace = PodNamespace[p]})]_vars

\* A pass that comes to its end has reviewed every pod that was there all the
\* while in a namespace with a policy, whatever happened to the reviews of the
\* other pods (CheckPods logs the errors of ReviewISP and goes on).
PassCovers ==
    \A r \in Runners : loc[r].pc = "listPods" /\ passDone(loc[r]) =>
        \A p \in seen[r].present :
            (\E isp \in loc[r].isps : isp.Namespace = PodNamespace[p]) => p \in loc[r].reviewed

\* p breaks a policy of its namespace.
outOfPolicy(p) ==
    /\ pods[p] # None
    /\ \E isp \in clusterIsps :
          isp.Namespace = PodNamespace[p] /\ breaks(isp, pods[p].images, Now.vulns)

\* No policy of the cluster breaks the review off: its authority is there, and
\* the metadata server has an answer for every image of p.
reviewable(p) ==
    \A isp \in clusterIsps :
        /\ isp.AttestationAuthorityName # "" => authoritiesOf(isp) # {}
        /\ pods[p] # None =>
              \A i \in pods[p].images : validate(isp, i, vulnerabilities[i], TRUE) # "error"

\* The server's client remembers no failed vulnerability lookup of an image of p.
noStaleScan(p) ==
    pods[p] # None => \A r \in Runners \ Foreground : pods[p].images \cap vulnCache[r] = {}

\* A pod that is out of policy for good is labelled time and again: failed
\* calls, a crash and the errors of other pods only delay the label.  The one
\* failure that does more is that of a vulnerability lookup: the client answers
\* from its cache from then on, and the pod passes for clean until the server is
\* started again.
OutOfPolicyMarked ==
    \A p \in PodNames :
        <>[](outOfPolicy(p) /\ reviewable(p) /\ noStaleScan(p)) => []<>marked(p)

=============================================================================
