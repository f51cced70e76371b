----------------------------- MODULE CronProofs -----------------------------
(***************************************************************************)
(* Proofs about Cron, for any number of runners, pods, images and policies *)
(* and any number of faults and edits.                                     *)
(***************************************************************************)
EXTENDS Cron, FiniteSetTheorems, TLAPS

\* Where a runner is between two passes; in the middle of a pod, of a policy, of
\* an image.
AtRest == {"idle", "exited"}
OnPod == {"nextIsp", "nextImage", "attDelete", "attAdd", "validate", "vioDelete", "vioAdd"}
OnIsp == OnPod \ {"nextIsp"}
OnImage == OnIsp \ {"nextImage"}

\* The frame f of a runner against what it has seen, sn, since its pass began: the
\* pods on its stack were there under that name with those images, the pods of
\* the policies it has listed are reviewed or still to come, and a violation it
\* is about to mark is one of a scan of that time.
GoodRunner(f, sn) ==
    /\ f.toList \subseteq f.isps /\ f.ispsLeft \subseteq f.isps
    /\ f.pc \in AtRest \cup {"listPods"} => f.podsLeft = {}
    /\ \A p \in sn.present : \A isp \in f.isps \ f.toList :
          isp.Namespace = PodNamespace[p] => p \in f.reviewed \/ \E s \in f.podsLeft : s.name = p
    /\ \A s \in f.podsLeft : <<s.name, s.images>> \in sn.pods
    /\ f.pc \in OnPod => f.pod \in Snapshot /\ <<f.pod.name, f.pod.images>> \in sn.pods
    /\ f.pc \in OnIsp => f.isp \in f.isps /\ f.imagesLeft \subseteq notGloballyAllowed(f.pod.images)
    /\ f.pc \in OnImage => f.image \in notGloballyAllowed(f.pod.images)
    /\ f.pc \in {"vioDelete", "vioAdd"} => breaks(f.isp, f.pod.images, sn.vulns) /\ f.value # None

\* What is there now has been seen, and what was there all along is there now.
Watches(sn) ==
    /\ \A i \in Images : <<i, vulnerabilities[i]>> \in sn.vulns
    /\ \A p \in PodNames : pods[p] # None => <<p, pods[p].images>> \in sn.pods
    /\ \A p \in sn.present : pods[p] # None

CInv ==
    /\ TypeOK
    /\ \A r \in Runners : /\ GoodRunner(loc[r], seen[r])
                          /\ loc[r].pc \notin AtRest => Watches(seen[r])

-----------------------------------------------------------------------------
(* Patches.                                                                *)

\* The two maps of a pod's marks.
Labels == [attestation : AttestationValues, violation : {None, InvalidImageSecPolicy},
           user : {None} \cup UserValues]
Notes == [attestation : AttestationValues, violation : Annotations, user : {None} \cup UserValues]

LEMMA MapTypes ==
    /\ Marks = [labels : Labels, annotations : Notes]
    /\ NoKeys \in Labels /\ NoKeys \in Notes
<1>1. None \in Annotations /\ None \in AttestationValues  BY DEF Annotations, AttestationValues
<1> QED  BY <1>1 DEF Marks, Labels, Notes, NoKeys

\* One map of a patch: only the keys in which the two copies differ are changed,
\* or all of them go, where the original has keys and the modified copy has none.
LEMMA MergedMap ==
    ASSUME NEW S \in {Labels, Notes}, NEW o \in S, NEW m \in S, NEW l \in S,
           NEW n, n = mergeMap(o, m, l)
    PROVE  /\ n \in S
           /\ \/ m = NoKeys /\ o # NoKeys /\ n = NoKeys
              \/ /\ n.user = IF m.user # o.user THEN m.user ELSE l.user
                 /\ n.violation = IF m.violation # o.violation THEN m.violation ELSE l.violation
<1>a. PICK A, B, U : S = [attestation : A, violation : B, user : U]  BY DEF Labels, Notes
<1>b. NoKeys \in S  BY MapTypes
<1>1. CASE m = NoKeys /\ o # NoKeys  BY <1>1, <1>b DEF mergeMap
<1>2. CASE ~(m = NoKeys /\ o # NoKeys)
  <2>1. DOMAIN l = {"attestation", "violation", "user"}  BY <1>a
  <2>2. n = [k \in DOMAIN l |-> IF m[k] # o[k] THEN m[k] ELSE l[k]]  BY <1>2 DEF mergeMap
  <2>3. n = [attestation |-> IF m.attestation # o.attestation THEN m.attestation ELSE l.attestation,
             violation |-> IF m.violation # o.violation THEN m.violation ELSE l.violation,
             user |-> IF m.user # o.user THEN m.user ELSE l.user]
    BY <2>1, <2>2
  <2>4. n \in S  BY <1>a, <2>3
  <2> QED  BY <2>3, <2>4
<1> QED  BY <1>1, <1>2

\* The marks that the server makes of the live ones, l.
LEMMA MergedMarks ==
    ASSUME NEW o \in Marks, NEW m \in Marks, NEW l \in Marks, NEW n, n = mergePatch(o, m, l)
    PROVE  /\ n \in Marks
           /\ \/ m.labels = NoKeys /\ o.labels # NoKeys /\ n.labels = NoKeys
              \/ /\ n.labels.user = IF m.labels.user # o.labels.user THEN m.labels.user ELSE l.labels.user
                 /\ n.labels.violation = IF m.labels.violation # o.labels.violation
                                         THEN m.labels.violation ELSE l.labels.violation
           /\ \/ m.annotations = NoKeys /\ o.annotations # NoKeys /\ n.annotations = NoKeys
              \/ n.annotations.user = IF m.annotations.user # o.annotations.user
                                      THEN m.annotations.user ELSE l.annotations.user
<1>1. /\ o.labels \in Labels /\ m.labels \in Labels /\ l.labels \in Labels
      /\ o.annotations \in Notes /\ m.annotations \in Notes /\ l.annotations \in Notes
  BY MapTypes
<1>2. PICK x, y : /\ x = mergeMap(o.labels, m.labels, l.labels)
                  /\ y = mergeMap(o.annotations, m.annotations, l.annotations)
  OBVIOUS
<1>3. /\ x \in Labels
      /\ \/ m.labels = NoKeys /\ o.labels # NoKeys /\ x = NoKeys
         \/ /\ x.user = IF m.labels.user # o.labels.user THEN m.labels.user ELSE l.labels.user
            /\ x.violation = IF m.labels.violation # o.labels.violation
                             THEN m.labels.violation ELSE l.labels.violation
  BY <1>1, <1>2, MergedMap
<1>4. /\ y \in Notes
      /\ \/ m.annotations = NoKeys /\ o.annotations # NoKeys /\ y = NoKeys
         \/ y.user = IF m.annotations.user # o.annotations.user
                     THEN m.annotations.user ELSE l.annotations.user
  BY <1>1, <1>2, MergedMap
<1>5. n = [labels |-> x, annotations |-> y]  BY <1>2 DEF mergePatch
<1>6. n.labels = x /\ n.annotations = y  BY <1>5
<1>7. n \in Marks  BY <1>3, <1>4, <1>5, MapTypes
<1> QED  BY <1>3, <1>4, <1>6, <1>7

\* A copy m of the marks o that the strategy makes: the keys of others are as they
\* were, and a map is emptied only by deleting the one key it had.
Copy(o, m, pc) ==
    /\ m \in Marks
    /\ m.labels.user = o.labels.user /\ m.annotations.user = o.annotations.user
    /\ m.labels = NoKeys /\ o.labels # NoKeys =>
          pc \in {"attDelete", "vioDelete"} /\ onlyDeleted(o.labels, pc)
    /\ m.annotations = NoKeys /\ o.annotations # NoKeys =>
          pc \in {"attDelete", "vioDelete"} /\ onlyDeleted(o.annotations, pc)

\* The copies of the four calls; all but the last keep the violation label or take
\* it away.
LEMMA ModifiedCopies ==
    ASSUME NEW o \in Marks
    PROVE  /\ Copy(o, attestationDeleted(o), "attDelete")
           /\ attestationDeleted(o).labels.violation = o.labels.violation
           /\ \A b \in BOOLEAN : /\ Copy(o, attestationAdded(o, b), "attAdd")
                                 /\ attestationAdded(o, b).labels.violation = o.labels.violation
           /\ Copy(o, violationDeleted(o), "vioDelete")
           /\ violationDeleted(o).labels.violation = None
           /\ \A v \in Annotations : v # None => Copy(o, violationAdded(o, v), "vioAdd")
<1>1. None \in Annotations /\ None \in AttestationValues  BY DEF Annotations, AttestationValues
<1>2. PICK L \in Labels, N \in Notes : o.labels = L /\ o.annotations = N  BY MapTypes
<1>3. /\ attestationDeleted(o).labels = [L EXCEPT !.attestation = None]
      /\ attestationDeleted(o).annotations = [N EXCEPT !.attestation = None]
      /\ violationDeleted(o).labels = [L EXCEPT !.violation = None]
      /\ violationDeleted(o).annotations = [N EXCEPT !.violation = None]
  BY <1>2, MapTypes DEF attestationDeleted, violationDeleted
<1>4. ASSUME NEW b \in BOOLEAN
      PROVE  \E v \in {"attested", "notAttested"} :
                /\ attestationAdded(o, b).labels = [L EXCEPT !.attestation = v]
                /\ attestationAdded(o, b).annotations = [N EXCEPT !.attestation = v]
  BY <1>2, MapTypes DEF attestationAdded
<1>5. ASSUME NEW v
      PROVE  /\ violationAdded(o, v).labels = [L EXCEPT !.violation = InvalidImageSecPolicy]
             /\ violationAdded(o, v).annotations = [N EXCEPT !.violation = v]
  BY <1>2, MapTypes DEF violationAdded
<1>7. /\ Copy(o, attestationDeleted(o), "attDelete")
      /\ attestationDeleted(o).labels.violation = o.labels.violation
  <2>1. PICK L2, N2 : L2 = [L EXCEPT !.attestation = None] /\ N2 = [N EXCEPT !.attestation = None]
    OBVIOUS
  <2>2. L2 \in Labels /\ L2.user = L.user /\ L2.violation = L.violation
    BY <1>1, <2>1 DEF Labels
  <2>3. N2 \in Notes /\ N2.user = N.user  BY <1>1, <2>1 DEF Notes
  <2>4. L2 = NoKeys => L.user = None /\ L.violation = None
    BY <2>2 DEF NoKeys
  <2>5. N2 = NoKeys => N.user = None /\ N.violation = None
    BY <2>1 DEF NoKeys, Notes
  <2>6. attestationDeleted(o).labels = L2 /\ attestationDeleted(o).annotations = N2  BY <1>3, <2>1
  <2>7. attestationDeleted(o) \in Marks  BY <1>1, <1>2, MapTypes DEF attestationDeleted, Labels, Notes
  <2> QED  BY <1>2, <2>2, <2>3, <2>4, <2>5, <2>6, <2>7 DEF Copy, onlyDeleted
<1>8. /\ Copy(o, violationDeleted(o), "vioDelete")
      /\ violationDeleted(o).labels.violation = None
  <2>1. PICK L2, N2 : L2 = [L EXCEPT !.violation = None] /\ N2 = [N EXCEPT !.violation = None]
    OBVIOUS
  <2>2. L2 \in Labels /\ L2.user = L.user /\ L2.attestation = L.attestation /\ L2.violation = None
    BY <2>1 DEF Labels
  <2>3. N2 \in Notes /\ N2.user = N.user /\ N2.attestation = N.attestation  BY <1>1, <2>1 DEF Notes
  <2>4. L2 = NoKeys => L.user = None /\ L.attestation = None  BY <2>2 DEF NoKeys
  <2>5. N2 = NoKeys => N.user = None /\ N.attestation = None  BY <2>3 DEF NoKeys
  <2>6. violationDeleted(o).labels = L2 /\ violationDeleted(o).annotations = N2  BY <1>3, <2>1
  <2>7. violationDeleted(o) \in Marks  BY <1>1, <1>2, MapTypes DEF violationDeleted, Labels, Notes
  <2> QED  BY <1>2, <2>2, <2>3, <2>4, <2>5, <2>6, <2>7 DEF Copy, onlyDeleted
<1>9. ASSUME NEW b \in BOOLEAN
      PROVE  /\ Copy(o, attestationAdded(o, b), "attAdd")
             /\ attestationAdded(o, b).labels.violation = o.labels.violation
  <2>1. PICK v \in {"attested", "notAttested"} :
           /\ attestationAdded(o, b).labels = [L EXCEPT !.attestation = v]
           /\ attestationAdded(o, b).annotations = [N EXCEPT !.attestation = v]
    BY <1>4
  <2>2. PICK L2, N2 : L2 = [L EXCEPT !.attestation = v] /\ N2 = [N EXCEPT !.attestation = v]
    OBVIOUS
  <2>3. v \in AttestationValues /\ v # None  BY PodAssumption DEF AttestationValues
  <2>4. /\ L2 \in Labels /\ L2.user = L.user /\ L2.violation = L.violation /\ L2.attestation = v
    BY <2>2, <2>3 DEF Labels
  <2>5. N2 \in Notes /\ N2.user = N.user /\ N2.attestation = v  BY <2>2, <2>3 DEF Notes
  <2>6. L2 # NoKeys /\ N2 # NoKeys  BY <2>3, <2>4, <2>5 DEF NoKeys
  <2>7. attestationAdded(o, b).labels = L2 /\ attestationAdded(o, b).annotations = N2  BY <2>1, <2>2
  <2>8. attestationAdded(o, b) \in Marks
    BY <1>2, MapTypes DEF attestationAdded, Labels, Notes, AttestationValues
  <2> QED  BY <1>2, <2>4, <2>5, <2>6, <2>7, <2>8 DEF Copy
<1>10. ASSUME NEW v \in Annotations, v # None
       PROVE  Copy(o, violationAdded(o, v), "vioAdd")
  <2>1. PICK L2, N2 : L2 = [L EXCEPT !.violation = InvalidImageSecPolicy]
                      /\ N2 = [N EXCEPT !.violation = v]
    OBVIOUS
  <2>2. L2 \in Labels /\ L2.user = L.user /\ L2.violation = InvalidImageSecPolicy
    BY <2>1 DEF Labels
  <2>3. N2 \in Notes /\ N2.user = N.user /\ N2.violation = v  BY <2>1 DEF Notes
  <2>4. L2 # NoKeys /\ N2 # NoKeys  BY <1>10, <2>2, <2>3, PodAssumption DEF NoKeys
  <2>5. violationAdded(o, v).labels = L2 /\ violationAdded(o, v).annotations = N2  BY <1>5, <2>1
  <2>6. violationAdded(o, v) \in Marks  BY <1>2, MapTypes DEF violationAdded, Labels, Notes
  <2> QED  BY <1>2, <2>2, <2>3, <2>4, <2>5, <2>6 DEF Copy
<1> QED  BY <1>7, <1>8, <1>9, <1>10

-----------------------------------------------------------------------------
(* Frames and steps.                                                       *)

LEMMA Steps ==
    ASSUME TypeOK, NEW r \in Runners, NEW g, Step(r, g)
    PROVE  /\ loc'[r] = g /\ \A q \in Runners : q # r => loc'[q] = loc[q]
           /\ g \in Frame => loc' \in [Runners -> Frame]
BY DEF TypeOK, Step

LEMMA Calls ==
    ASSUME TypeOK, NEW ok, Call(ok)
    PROVE  faults' \in 0..MaxFaults /\ edits' \in 0..MaxEdits
BY CronAssumption DEF TypeOK, Call

\* Seeing more, and fewer pods all the while, does a frame no harm.
LEMMA SeesMore ==
    ASSUME NEW f, NEW sn, NEW sn2, GoodRunner(f, sn),
           sn.vulns \subseteq sn2.vulns, sn.pods \subseteq sn2.pods,
           sn2.present \subseteq sn.present
    PROVE  GoodRunner(f, sn2)
<1>1. ASSUME NEW isp, NEW T, breaks(isp, T, sn.vulns) PROVE breaks(isp, T, sn2.vulns)
  BY <1>1 DEF breaks
<1> QED  BY <1>1 DEF GoodRunner

LEMMA RestIsGood ==
    ASSUME NEW sn, NEW r, NEW g, g \in {Idle, Ended(r)}
    PROVE  g \in Frame /\ GoodRunner(g, sn) /\ g.pc \in AtRest
<1>1. None \in Annotations  BY DEF Annotations
<1>2. Idle \in Frame /\ Idle.pc = "idle"  BY <1>1 DEF Idle, Frame, PC
<1>3. PICK pc \in AtRest : Ended(r) = [Idle EXCEPT !.pc = pc]  BY DEF Ended, AtRest
<1>4. Ended(r) \in Frame /\ Ended(r).pc = pc  BY <1>2, <1>3 DEF Frame, PC, AtRest
<1>5. /\ g \in Frame /\ g.pc \in AtRest
      /\ g.podsLeft = {} /\ g.isps = {} /\ g.toList = {} /\ g.ispsLeft = {}
  BY <1>2, <1>3, <1>4 DEF Idle, AtRest
<1>6. /\ g.pc \notin OnPod /\ g.pc \notin OnIsp /\ g.pc \notin OnImage
      /\ g.pc \notin {"vioDelete", "vioAdd"}
  BY <1>5 DEF AtRest, OnPod, OnIsp, OnImage
<1> QED  BY <1>5, <1>6 DEF GoodRunner

\* A step of one runner that leaves the cluster, the metadata and the pods alone.
LEMMA RunnerStep ==
    ASSUME CInv, NEW r \in Runners, loc[r].pc \notin AtRest, NEW g \in Frame, Step(r, g),
           GoodRunner(g, seen[r]), UNCHANGED <<cluster, metadata, pods, seen>>,
           vulnCache' \in [Runners -> SUBSET Images], attCache' \in [Runners -> SUBSET Images],
           faults' \in 0..MaxFaults, edits' \in 0..MaxEdits
    PROVE  CInv'
<1>1. TypeOK /\ \A q \in Runners : /\ GoodRunner(loc[q], seen[q])
                                   /\ loc[q].pc \notin AtRest => Watches(seen[q])
  BY DEF CInv
<1>2. UNCHANGED <<clusterIsps, authorities, vulnerabilities, occurrences, pods, seen>>
  BY DEF cluster, metadata
<1>3. /\ loc'[r] = g /\ \A q \in Runners : q # r => loc'[q] = loc[q]
      /\ loc' \in [Runners -> Frame]
  BY <1>1, Steps
<1>4. TypeOK'  BY <1>1, <1>2, <1>3 DEF TypeOK
<1>5. ASSUME NEW q \in Runners PROVE GoodRunner(loc'[q], seen'[q])
  BY <1>1, <1>2, <1>3
<1>6. ASSUME NEW q \in Runners, loc'[q].pc \notin AtRest PROVE Watches(seen[q])'
  <2>1. Watches(seen[q])  BY <1>1, <1>3, <1>6
  <2> QED  BY <1>2, <2>1 DEF Watches
<1> QED  BY <1>4, <1>5, <1>6 DEF CInv

\* A pass ends, by itself or because its process dies.
LEMMA PassEnds ==
    ASSUME CInv, NEW r \in Runners, Step(r, Ended(r)), seen' = [seen EXCEPT ![r] = Nothing],
           UNCHANGED <<cluster, metadata, pods>>,
           vulnCache' \in [Runners -> SUBSET Images], attCache' \in [Runners -> SUBSET Images],
           faults' \in 0..MaxFaults, edits' \in 0..MaxEdits
    PROVE  CInv'
<1>1. TypeOK /\ \A q \in Runners : /\ GoodRunner(loc[q], seen[q])
                                   /\ loc[q].pc \notin AtRest => Watches(seen[q])
  BY DEF CInv
<1>2. UNCHANGED <<clusterIsps, authorities, vulnerabilities, occurrences, pods>>
  BY DEF cluster, metadata
<1>3. /\ loc'[r] = Ended(r) /\ \A q \in Runners : q # r => loc'[q] = loc[q]
      /\ loc' \in [Runners -> Frame]
  BY <1>1, Steps, RestIsGood
<1>4. /\ seen'[r] = Nothing /\ \A q \in Runners : q # r => seen'[q] = seen[q]
      /\ seen' \in [Runners -> [vulns : SUBSET (Images \X VulnLists),
                                pods : SUBSET (PodNames \X PodTemplates),
                                present : SUBSET PodNames]]
  BY <1>1 DEF TypeOK, Nothing
<1>5. TypeOK'  BY <1>1, <1>2, <1>3, <1>4 DEF TypeOK
<1>6. ASSUME NEW q \in Runners PROVE GoodRunner(loc'[q], seen'[q])
  BY <1>1, <1>3, <1>4, RestIsGood
<1>7. ASSUME NEW q \in Runners, loc'[q].pc \notin AtRest PROVE Watches(seen[q])'
  <2>1. q # r  BY <1>3, <1>7, RestIsGood
  <2>2. Watches(seen[q]) /\ seen'[q] = seen[q]  BY <1>1, <1>3, <1>4, <1>7, <2>1
  <2> QED  BY <1>2, <2>2 DEF Watches
<1> QED  BY <1>5, <1>6, <1>7 DEF CInv

-----------------------------------------------------------------------------
(* The pass.                                                               *)

LEMMA NewMarksType ==
    /\ NewMarks \subseteq Marks
    /\ \A m \in NewMarks : m.labels.violation = None
<1>1. SUFFICES ASSUME NEW m \in NewMarks PROVE m \in Marks /\ m.labels.violation = None  OBVIOUS
<1>2. PICK v \in {None} \cup UserValues : m = [labels |-> [NoKeys EXCEPT !.user = v], annotations |-> NoKeys]
  BY DEF NewMarks
<1>3. PICK L : L = [NoKeys EXCEPT !.user = v]  OBVIOUS
<1>4. L \in Labels /\ L.violation = None
  BY <1>3, MapTypes DEF Labels, NoKeys
<1> QED  BY <1>2, <1>3, <1>4, MapTypes

LEMMA InitCInv ==
    ASSUME Init
    PROVE  CInv
<1>1. NewMarks \subseteq Marks  BY NewMarksType
<1>2. pods \in [PodNames -> Pod \cup {None}]
  <2>1. [images : PodTemplates, marks : NewMarks] \subseteq Pod  BY <1>1 DEF Pod
  <2> QED  BY <2>1 DEF Init
<1>3. \A r \in Runners : loc[r] \in {Idle, Ended(r)}  BY DEF Init
<1>4. loc \in [Runners -> Frame]
  <2>1. loc = [r \in Runners |-> loc[r]]  BY DEF Init
  <2>2. \A r \in Runners : loc[r] \in Frame  BY <1>3, RestIsGood
  <2> QED  BY <2>1, <2>2
<1>5. TypeOK  BY <1>2, <1>4, CronAssumption DEF Init, TypeOK, Nothing
<1>6. \A r \in Runners : GoodRunner(loc[r], seen[r]) /\ loc[r].pc \in AtRest  BY <1>3, RestIsGood
<1> QED  BY <1>5, <1>6 DEF CInv

\* What is seen when a pass begins.
LEMMA NowIsSeen ==
    ASSUME TypeOK
    PROVE  /\ Now \in [vulns : SUBSET (Images \X VulnLists), pods : SUBSET (PodNames \X PodTemplates),
                       present : SUBSET PodNames]
           /\ Watches(Now)
<1> DEFINE V == {<<i, vulnerabilities[i]>> : i \in Images}
           P == {<<p, pods[p].images>> : p \in Existing}
<1>1. Now = [vulns |-> V, pods |-> P, present |-> Existing]  BY DEF Now
<1>2. V \subseteq Images \X VulnLists  BY DEF TypeOK
<1>3. Existing \subseteq PodNames /\ \A p \in Existing : pods[p] # None /\ pods[p].images \in PodTemplates
  BY DEF TypeOK, Existing, Pod
<1>4. P \subseteq PodNames \X PodTemplates  BY <1>3
<1>5. \A i \in Images : <<i, vulnerabilities[i]>> \in V  OBVIOUS
<1>6. \A p \in PodNames : pods[p] # None => <<p, pods[p].images>> \in P  BY DEF Existing
<1> HIDE DEF V, P
<1>7. Now.vulns = V /\ Now.pods = P /\ Now.present = Existing  BY <1>1
<1>8. Watches(Now)  BY <1>3, <1>5, <1>6, <1>7 DEF Watches
<1> QED  BY <1>1, <1>2, <1>3, <1>4, <1>8

LEMMA StepStartPass ==
    ASSUME CInv, NEW r \in Runners, StartPass(r)
    PROVE  CInv'
<1>1. TypeOK /\ \A q \in Runners : /\ GoodRunner(loc[q], seen[q])
                                   /\ loc[q].pc \notin AtRest => Watches(seen[q])
  BY DEF CInv
<1>2. PICK ok \in BOOLEAN :
         /\ Call(ok)
         /\ Step(r, IF ok THEN [Idle EXCEPT !.pc = "listPods", !.isps = clusterIsps,
                                            !.toList = clusterIsps]
                    ELSE Ended(r))
         /\ seen' = [seen EXCEPT ![r] = IF ok THEN Now ELSE Nothing]
  BY DEF StartPass
<1>3. UNCHANGED <<clusterIsps, authorities, vulnerabilities, occurrences, pods, vulnCache, attCache>>
  BY DEF StartPass, cluster, metadata, caches
<1>4. faults' \in 0..MaxFaults /\ edits' \in 0..MaxEdits  BY <1>1, <1>2, Calls
<1>5. /\ vulnCache' \in [Runners -> SUBSET Images] /\ attCache' \in [Runners -> SUBSET Images]
  BY <1>1, <1>3 DEF TypeOK
<1>6. CASE ~ok
  <2>1. Step(r, Ended(r)) /\ seen' = [seen EXCEPT ![r] = Nothing]  BY <1>2, <1>6
  <2>2. UNCHANGED <<cluster, metadata, pods>>  BY <1>3 DEF cluster, metadata
  <2> QED  BY <1>4, <1>5, <2>1, <2>2, PassEnds
<1>7. CASE ok
  <2>1. PICK g : g = [Idle EXCEPT !.pc = "listPods", !.isps = clusterIsps, !.toList = clusterIsps]
    OBVIOUS
  <2>2. Step(r, g)  BY <1>2, <1>7, <2>1
  <2>3. clusterIsps \subseteq Isps  BY <1>1 DEF TypeOK, Isps
  <2>4. g \in Frame
    <3>1. Idle \in Frame  BY RestIsGood
    <3> QED  BY <2>1, <2>3, <3>1 DEF Frame, PC
  <2>5. /\ g.pc = "listPods" /\ g.isps = clusterIsps /\ g.toList = clusterIsps
        /\ g.podsLeft = {} /\ g.ispsLeft = {}
    BY <2>1 DEF Idle
  <2>6. GoodRunner(g, Now)  BY <2>5 DEF GoodRunner, OnPod, OnIsp, OnImage
  <2>7. /\ loc'[r] = g /\ \A q \in Runners : q # r => loc'[q] = loc[q]
        /\ loc' \in [Runners -> Frame]
    BY <1>1, <2>2, <2>4, Steps
  <2>8. /\ Watches(Now)
        /\ Now \in [vulns : SUBSET (Images \X VulnLists), pods : SUBSET (PodNames \X PodTemplates),
                    present : SUBSET PodNames]
    BY <1>1, NowIsSeen
  <2>9. PICK sn : sn = Now  OBVIOUS
  <2>10. /\ seen'[r] = sn /\ \A q \in Runners : q # r => seen'[q] = seen[q]
         /\ seen' \in [Runners -> [vulns : SUBSET (Images \X VulnLists),
                                   pods : SUBSET (PodNames \X PodTemplates),
                                   present : SUBSET PodNames]]
    BY <1>1, <1>2, <1>7, <2>8, <2>9 DEF TypeOK
  <2>11. TypeOK'  BY <1>1, <1>3, <1>4, <2>7, <2>10 DEF TypeOK
  <2>12. ASSUME NEW q \in Runners PROVE GoodRunner(loc'[q], seen'[q])
    BY <1>1, <2>6, <2>7, <2>9, <2>10
  <2>13. ASSUME NEW q \in Runners, loc'[q].pc \notin AtRest PROVE Watches(seen[q])'
    <3>1. CASE q = r
      <4>1. Watches(sn)  BY <2>8, <2>9
      <4>2. seen'[q] = sn  BY <2>10, <3>1
      <4> QED  BY <1>3, <4>1, <4>2 DEF Watches
    <3>2. CASE q # r
      <4>1. Watches(seen[q]) /\ seen'[q] = seen[q]  BY <1>1, <2>7, <2>10, <2>13, <3>2
      <4> QED  BY <1>3, <4>1 DEF Watches
    <3> QED  BY <3>1, <3>2
  <2> QED  BY <2>11, <2>12, <2>13 DEF CInv
<1> QED  BY <1>6, <1>7

LEMMA StepEndPass ==
    ASSUME CInv, NEW r \in Runners, EndPass(r), UNCHANGED <<cluster, metadata, pods>>,
           faults' \in 0..MaxFaults, edits' \in 0..MaxEdits
    PROVE  CInv'
<1>1. TypeOK  BY DEF CInv
<1>2. /\ vulnCache' \in [Runners -> SUBSET Images] /\ attCache' \in [Runners -> SUBSET Images]
  BY <1>1 DEF TypeOK, EndPass
<1> QED  BY <1>2, PassEnds DEF EndPass

\* The pods of a namespace, as they are listed.
LEMMA PodsListed ==
    ASSUME TypeOK, NEW ns, NEW sn, Watches(sn), sn.present \subseteq PodNames
    PROVE  /\ podsIn(ns) \subseteq Snapshot
           /\ \A s \in podsIn(ns) : <<s.name, s.images>> \in sn.pods
           /\ \A p \in sn.present : PodNamespace[p] = ns => \E s \in podsIn(ns) : s.name = p
<1> DEFINE snap(p) == [name |-> p, images |-> pods[p].images, marks |-> pods[p].marks]
           Q == {q \in Existing : PodNamespace[q] = ns}
<1>1. podsIn(ns) = {snap(p) : p \in Q}  BY DEF podsIn
<1>2. \A p \in Q : p \in PodNames /\ pods[p] # None /\ pods[p] \in Pod  BY DEF TypeOK, Existing
<1>3. ASSUME NEW p \in Q PROVE /\ snap(p) \in Snapshot /\ snap(p).name = p
                              /\ snap(p).images = pods[p].images
  BY <1>2 DEF Snapshot, Pod
<1>4. \A p \in sn.present : PodNamespace[p] = ns => p \in Q  BY DEF Watches, Existing
<1>5. \A p \in Q : <<p, pods[p].images>> \in sn.pods  BY <1>2 DEF Watches
<1> HIDE DEF snap, Q
<1>6. \A s \in podsIn(ns) : \E p \in Q : s = snap(p)  BY <1>1
<1>7. \A p \in Q : snap(p) \in podsIn(ns)  BY <1>1
<1> QED  BY <1>3, <1>4, <1>5, <1>6, <1>7

LEMMA StepListPods ==
    ASSUME CInv, NEW r \in Runners, ListPods(r)
    PROVE  CInv'
<1>1. TypeOK /\ GoodRunner(loc[r], seen[r]) /\ (loc[r].pc \notin AtRest => Watches(seen[r]))
  BY DEF CInv
<1>2. PICK f : f = loc[r]  OBVIOUS
<1>3. f \in Frame /\ f.pc = "listPods" /\ Watches(seen[r]) /\ GoodRunner(f, seen[r])
  BY <1>1, <1>2 DEF ListPods, TypeOK, AtRest
<1>4. UNCHANGED <<cluster, metadata, pods>>  BY DEF ListPods
<1>5. CASE EndPass(r) /\ NoCall
  <2>1. faults' \in 0..MaxFaults /\ edits' \in 0..MaxEdits  BY <1>1, <1>5 DEF NoCall, TypeOK
  <2> QED  BY <1>4, <1>5, <2>1, StepEndPass
<1>6. ASSUME NEW ok \in BOOLEAN, Call(ok), EndPass(r) PROVE CInv'
  <2>1. faults' \in 0..MaxFaults /\ edits' \in 0..MaxEdits  BY <1>1, <1>6, Calls
  <2> QED  BY <1>4, <1>6, <2>1, StepEndPass
<1>7. ASSUME NEW isp \in f.toList, NEW ok \in BOOLEAN, Call(ok),
             Step(r, [f EXCEPT !.pc = "nextPod", !.toList = @ \ {isp},
                               !.podsLeft = podsIn(isp.Namespace)]),
             UNCHANGED <<seen, caches>>
      PROVE  CInv'
  <2>1. PICK P : P = podsIn(isp.Namespace)  OBVIOUS
  <2>2. PICK g : g = [f EXCEPT !.pc = "nextPod", !.toList = @ \ {isp}, !.podsLeft = P]  OBVIOUS
  <2>3. Step(r, g)  BY <1>7, <2>1, <2>2
  <2>4. seen[r].present \subseteq PodNames  BY <1>1 DEF TypeOK
  <2>5. /\ P \subseteq Snapshot /\ \A s \in P : <<s.name, s.images>> \in seen[r].pods
        /\ \A p \in seen[r].present : PodNamespace[p] = isp.Namespace => \E s \in P : s.name = p
    BY <1>1, <1>3, <2>1, <2>4, PodsListed
  <2>6. g \in Frame  BY <1>3, <2>2, <2>5 DEF Frame, PC
  <2>7. /\ g.pc = "nextPod" /\ g.toList = f.toList \ {isp} /\ g.podsLeft = P
        /\ g.isps = f.isps /\ g.ispsLeft = f.ispsLeft /\ g.reviewed = f.reviewed
    BY <1>3, <2>2 DEF Frame
  <2>8. GoodRunner(g, seen[r])
    <3>1. f.podsLeft = {} /\ f.toList \subseteq f.isps /\ f.ispsLeft \subseteq f.isps
      BY <1>3 DEF GoodRunner
    <3>2. ASSUME NEW p \in seen[r].present, NEW i \in g.isps \ g.toList, i.Namespace = PodNamespace[p]
          PROVE  p \in g.reviewed \/ \E s \in g.podsLeft : s.name = p
      <4>1. CASE i = isp  BY <2>5, <2>7, <3>2, <4>1
      <4>2. CASE i # isp
        <5>1. i \in f.isps \ f.toList  BY <2>7, <4>2
        <5> QED  BY <1>3, <2>7, <3>1, <3>2, <5>1 DEF GoodRunner
      <4> QED  BY <4>1, <4>2
    <3> QED  BY <2>5, <2>7, <3>1, <3>2 DEF GoodRunner, OnPod, OnIsp, OnImage, AtRest
  <2>9. faults' \in 0..MaxFaults /\ edits' \in 0..MaxEdits  BY <1>1, <1>7, Calls
  <2>10. /\ vulnCache' \in [Runners -> SUBSET Images] /\ attCache' \in [Runners -> SUBSET Images]
    BY <1>1, <1>7 DEF TypeOK, caches
  <2>11. UNCHANGED <<cluster, metadata, pods, seen>>  BY <1>4, <1>7
  <2> QED  BY <1>2, <1>3, <2>3, <2>6, <2>8, <2>9, <2>10, <2>11, RunnerStep DEF AtRest
<1> QED  BY <1>2, <1>5, <1>6, <1>7 DEF ListPods

LEMMA StepNextPod ==
    ASSUME CInv, NEW r \in Runners, NextPod(r)
    PROVE  CInv'
<1>1. TypeOK /\ GoodRunner(loc[r], seen[r])  BY DEF CInv
<1>2. PICK f : f = loc[r]  OBVIOUS
<1>3. f \in Frame /\ f.pc = "nextPod" /\ GoodRunner(f, seen[r])
  BY <1>1, <1>2 DEF NextPod, TypeOK
<1>4. UNCHANGED <<cluster, metadata, pods, seen>>  BY DEF NextPod
<1>5. /\ vulnCache' \in [Runners -> SUBSET Images] /\ attCache' \in [Runners -> SUBSET Images]
      /\ faults' \in 0..MaxFaults /\ edits' \in 0..MaxEdits
  BY <1>1 DEF TypeOK, NextPod, NoCall, caches
<1>6. SUFFICES \E g \in Frame : Step(r, g) /\ GoodRunner(g, seen[r])
  BY <1>2, <1>3, <1>4, <1>5, RunnerStep DEF AtRest
<1>7. CASE f.podsLeft = {} /\ Step(r, [f EXCEPT !.pc = "listPods"])
  <2>1. PICK g : g = [f EXCEPT !.pc = "listPods"]  OBVIOUS
  <2>2. g \in Frame  BY <1>3, <2>1 DEF Frame, PC
  <2>3. /\ g.pc = "listPods" /\ g.toList = f.toList /\ g.podsLeft = f.podsLeft
        /\ g.isps = f.isps /\ g.ispsLeft = f.ispsLeft /\ g.reviewed = f.reviewed
    BY <1>3, <2>1 DEF Frame
  <2>4. GoodRunner(g, seen[r])  BY <1>3, <1>7, <2>3 DEF GoodRunner, OnPod, OnIsp, OnImage
  <2> QED  BY <1>7, <2>1, <2>2, <2>4
<1>8. ASSUME NEW p \in f.podsLeft, NEW g, g = [f EXCEPT !.podsLeft = @ \ {p}, !.reviewed = @ \cup {p.name}],
             Step(r, IF notGloballyAllowed(p.images) = {} THEN g
                     ELSE [g EXCEPT !.pc = "nextIsp", !.pod = p, !.ispsLeft = f.isps])
      PROVE  \E h \in Frame : Step(r, h) /\ GoodRunner(h, seen[r])
  <2>1. p \in Snapshot /\ p.name \in PodNames  BY <1>3 DEF Frame, Snapshot
  <2>2. g \in Frame  BY <1>3, <1>8, <2>1 DEF Frame
  <2>3. /\ g.pc = "nextPod" /\ g.toList = f.toList /\ g.podsLeft = f.podsLeft \ {p}
        /\ g.isps = f.isps /\ g.ispsLeft = f.ispsLeft /\ g.reviewed = f.reviewed \cup {p.name}
    BY <1>3, <1>8 DEF Frame
  <2>4. /\ g.toList \subseteq g.isps /\ g.ispsLeft \subseteq g.isps
        /\ \A q \in seen[r].present : \A isp \in g.isps \ g.toList :
              isp.Namespace = PodNamespace[q] => q \in g.reviewed \/ \E s \in g.podsLeft : s.name = q
        /\ \A s \in g.podsLeft : <<s.name, s.images>> \in seen[r].pods
        /\ <<p.name, p.images>> \in seen[r].pods
    BY <1>3, <2>3 DEF GoodRunner
  <2>5. CASE notGloballyAllowed(p.images) = {}
    <3>1. GoodRunner(g, seen[r])  BY <2>3, <2>4 DEF GoodRunner, OnPod, OnIsp, OnImage, AtRest
    <3> QED  BY <1>8, <2>2, <2>5, <3>1
  <2>6. CASE notGloballyAllowed(p.images) # {}
    <3>1. PICK h : h = [g EXCEPT !.pc = "nextIsp", !.pod = p, !.ispsLeft = f.isps]  OBVIOUS
    <3>2. f.isps \subseteq Isps  BY <1>3 DEF Frame
    <3>3. h \in Frame  BY <2>1, <2>2, <3>1, <3>2 DEF Frame, PC
    <3>4. /\ h.pc = "nextIsp" /\ h.toList = g.toList /\ h.podsLeft = g.podsLeft /\ h.pod = p
          /\ h.isps = g.isps /\ h.ispsLeft = g.isps /\ h.reviewed = g.reviewed
      BY <2>2, <2>3, <3>1 DEF Frame
    <3>5. GoodRunner(h, seen[r])  BY <2>1, <2>4, <3>4 DEF GoodRunner, OnPod, OnIsp, OnImage, AtRest
    <3>6. Step(r, h)  BY <1>8, <2>6, <3>1
    <3> QED  BY <3>3, <3>5, <3>6
  <2> QED  BY <2>5, <2>6
<1> QED  BY <1>2, <1>7, <1>8 DEF NextPod

-----------------------------------------------------------------------------
(* The review of a pod.                                                    *)

\* The review of a pod ends and leaves the rest of the pass as it was.
LEMMA BetweenPods ==
    ASSUME NEW f \in Frame, NEW sn, GoodRunner(f, sn), NEW g, g = betweenPods(f)
    PROVE  g \in Frame /\ GoodRunner(g, sn)
<1>1. None \in Annotations  BY DEF Annotations
<1>2. g \in Frame  BY <1>1 DEF betweenPods, Frame, PC
<1>3. /\ g.pc = "nextPod" /\ g.toList = f.toList /\ g.podsLeft = f.podsLeft
      /\ g.isps = f.isps /\ g.ispsLeft = {} /\ g.reviewed = f.reviewed
  BY DEF betweenPods, Frame
<1>4. GoodRunner(g, sn)  BY <1>3 DEF GoodRunner, OnPod, OnIsp, OnImage, AtRest
<1> QED  BY <1>2, <1>4

\* A step within the review of a pod: the rest of the pass is as it was.
LEMMA OnTheSamePod ==
    ASSUME NEW f, NEW sn, GoodRunner(f, sn), f.pc \in OnPod, NEW g, g.pc \in OnPod,
           g.isps = f.isps, g.toList = f.toList, g.podsLeft = f.podsLeft, g.pod = f.pod,
           g.reviewed = f.reviewed, g.ispsLeft \subseteq f.ispsLeft,
           g.pc \in OnIsp => g.isp \in g.isps /\ g.imagesLeft \subseteq notGloballyAllowed(g.pod.images),
           g.pc \in OnImage => g.image \in notGloballyAllowed(g.pod.images),
           g.pc \in {"vioDelete", "vioAdd"} => breaks(g.isp, g.pod.images, sn.vulns) /\ g.value # None
    PROVE  GoodRunner(g, sn)
<1>1. g.pc \notin AtRest \cup {"listPods"}  BY DEF OnPod, AtRest
<1> QED  BY <1>1 DEF GoodRunner

LEMMA StepNextIsp ==
    ASSUME CInv, NEW r \in Runners, NextIsp(r)
    PROVE  CInv'
<1>1. TypeOK /\ GoodRunner(loc[r], seen[r])  BY DEF CInv
<1>2. PICK f : f = loc[r]  OBVIOUS
<1>3. f \in Frame /\ f.pc = "nextIsp" /\ GoodRunner(f, seen[r])
  BY <1>1, <1>2 DEF NextIsp, TypeOK
<1>4. UNCHANGED <<cluster, metadata, pods, seen>>  BY DEF NextIsp
<1>5. /\ vulnCache' \in [Runners -> SUBSET Images] /\ attCache' \in [Runners -> SUBSET Images]
  BY <1>1 DEF TypeOK, NextIsp, caches
<1>6. faults' \in 0..MaxFaults /\ edits' \in 0..MaxEdits
  <2>1. NoCall \/ \E ok \in BOOLEAN : Call(ok)  BY DEF NextIsp
  <2> QED  BY <1>1, <2>1, Calls DEF NoCall, TypeOK
<1>7. SUFFICES \E g \in Frame : Step(r, g) /\ GoodRunner(g, seen[r])
  BY <1>2, <1>3, <1>4, <1>5, <1>6, RunnerStep DEF AtRest
<1>8. CASE Step(r, betweenPods(f))
  BY <1>3, <1>8, BetweenPods
<1>9. ASSUME NEW isp \in f.ispsLeft, NEW A \in SUBSET authorities,
             Step(r, [f EXCEPT !.pc = "nextImage", !.isp = isp, !.ispsLeft = @ \ {isp},
                               !.auths = A, !.imagesLeft = notGloballyAllowed(f.pod.images)])
      PROVE  \E g \in Frame : Step(r, g) /\ GoodRunner(g, seen[r])
  <2>1. PICK N : N = notGloballyAllowed(f.pod.images)  OBVIOUS
  <2>2. PICK g : g = [f EXCEPT !.pc = "nextImage", !.isp = isp, !.ispsLeft = @ \ {isp},
                               !.auths = A, !.imagesLeft = N]
    OBVIOUS
  <2>3. f.pod \in Snapshot  BY <1>3 DEF GoodRunner, OnPod
  <2>4. N \subseteq Images  BY <2>1, <2>3, CronAssumption DEF Snapshot, notGloballyAllowed
  <2>5. isp \in Isps /\ isp \in f.isps /\ A \subseteq Authorities
    BY <1>1, <1>3 DEF Frame, GoodRunner, TypeOK
  <2>6. g \in Frame  BY <1>3, <2>2, <2>4, <2>5 DEF Frame, PC
  <2>7. /\ g.pc = "nextImage" /\ g.toList = f.toList /\ g.podsLeft = f.podsLeft /\ g.pod = f.pod
        /\ g.isps = f.isps /\ g.ispsLeft = f.ispsLeft \ {isp} /\ g.reviewed = f.reviewed
        /\ g.isp = isp /\ g.imagesLeft = N
    BY <1>3, <2>2 DEF Frame
  <2>8. g.pc \in OnPod /\ f.pc \in OnPod /\ g.pc \notin OnImage
        /\ g.pc \notin {"vioDelete", "vioAdd"}
    BY <1>3, <2>7 DEF OnPod, OnIsp, OnImage
  <2>9. g.isp \in g.isps /\ g.imagesLeft \subseteq notGloballyAllowed(g.pod.images)
        /\ g.ispsLeft \subseteq f.ispsLeft
    BY <2>1, <2>5, <2>7
  <2>10. GoodRunner(g, seen[r])  BY <1>3, <2>7, <2>8, <2>9, OnTheSamePod
  <2> QED  BY <1>9, <2>1, <2>2, <2>6, <2>10
<1>10. \A isp : authoritiesOf(isp) \subseteq authorities  BY DEF authoritiesOf
<1> DEFINE review(isp, A) == [f EXCEPT !.pc = "nextImage", !.isp = isp, !.ispsLeft = @ \ {isp},
                                       !.auths = A, !.imagesLeft = notGloballyAllowed(f.pod.images)]
<1>11. \A isp \in f.ispsLeft, A \in SUBSET authorities :
          Step(r, review(isp, A)) => \E g \in Frame : Step(r, g) /\ GoodRunner(g, seen[r])
  BY <1>9
<1>12. \/ Step(r, betweenPods(f))
       \/ \E isp \in f.ispsLeft : Step(r, review(isp, {}))
       \/ \E isp \in f.ispsLeft : Step(r, review(isp, authoritiesOf(isp)))
  <2>1. \/ Step(r, betweenPods(f))
        \/ \E isp \in f.ispsLeft : Step(r, review(isp, {}))
        \/ \E isp \in f.ispsLeft, ok \in BOOLEAN :
              Step(r, IF ~ok \/ authoritiesOf(isp) = {} THEN betweenPods(f)
                      ELSE review(isp, authoritiesOf(isp)))
    BY <1>2, Zenon DEF NextIsp
  <2> HIDE DEF review
  <2> QED  BY <2>1
<1> HIDE DEF review
<1> QED  BY <1>8, <1>10, <1>11, <1>12

LEMMA StepNextImage ==
    ASSUME CInv, NEW r \in Runners, NextImage(r)
    PROVE  CInv'
<1>1. TypeOK /\ GoodRunner(loc[r], seen[r])  BY DEF CInv
<1>2. PICK f : f = loc[r]  OBVIOUS
<1>3. f \in Frame /\ f.pc = "nextImage" /\ GoodRunner(f, seen[r])
  BY <1>1, <1>2 DEF NextImage, TypeOK
<1>4. UNCHANGED <<cluster, metadata, pods, seen>> /\ vulnCache' \in [Runners -> SUBSET Images]
  BY <1>1 DEF NextImage, TypeOK
<1>5. /\ f.pc \in OnPod /\ f.pc \in OnIsp /\ f.isp \in f.isps
      /\ f.imagesLeft \subseteq notGloballyAllowed(f.pod.images)
  BY <1>3 DEF GoodRunner, OnPod, OnIsp
<1>6. CASE Step(r, [f EXCEPT !.pc = "nextIsp", !.image = None, !.attested = FALSE]) /\ NoCall
           /\ UNCHANGED attCache
  <2>1. PICK g : g = [f EXCEPT !.pc = "nextIsp", !.image = None, !.attested = FALSE]  OBVIOUS
  <2>2. g \in Frame  BY <1>3, <2>1 DEF Frame, PC
  <2>3. /\ g.pc = "nextIsp" /\ g.toList = f.toList /\ g.podsLeft = f.podsLeft /\ g.pod = f.pod
        /\ g.isps = f.isps /\ g.ispsLeft = f.ispsLeft /\ g.reviewed = f.reviewed
    BY <1>3, <2>1 DEF Frame
  <2>4. g.pc \in OnPod /\ g.pc \notin OnIsp /\ g.pc \notin OnImage
        /\ g.pc \notin {"vioDelete", "vioAdd"}
    BY <2>3 DEF OnPod, OnIsp, OnImage
  <2>5. GoodRunner(g, seen[r])  BY <1>3, <1>5, <2>3, <2>4, OnTheSamePod
  <2>6. attCache' \in [Runners -> SUBSET Images] /\ faults' \in 0..MaxFaults /\ edits' \in 0..MaxEdits
    BY <1>1, <1>6 DEF TypeOK, NoCall
  <2> QED  BY <1>2, <1>3, <1>4, <1>6, <2>1, <2>2, <2>5, <2>6, RunnerStep DEF AtRest
<1>7. ASSUME NEW i \in f.imagesLeft, NEW ok \in BOOLEAN, Call(ok) \/ NoCall,
             NEW b \in BOOLEAN, Step(r, [f EXCEPT !.pc = "attDelete", !.image = i, !.imagesLeft = @ \ {i},
                                                  !.attested = b]),
             attCache' = [attCache EXCEPT ![r] =
                     @ \cup UNION {attCacheAfter(@, occurrences, a, i, ok) : a \in f.auths}]
      PROVE  CInv'
  <2>1. PICK g : g = [f EXCEPT !.pc = "attDelete", !.image = i, !.imagesLeft = @ \ {i}, !.attested = b]
    OBVIOUS
  <2>2. i \in Images  BY <1>3 DEF Frame
  <2>3. g \in Frame  BY <1>3, <2>1, <2>2 DEF Frame, PC
  <2>4. /\ g.pc = "attDelete" /\ g.toList = f.toList /\ g.podsLeft = f.podsLeft /\ g.pod = f.pod
        /\ g.isps = f.isps /\ g.ispsLeft = f.ispsLeft /\ g.reviewed = f.reviewed
        /\ g.isp = f.isp /\ g.image = i /\ g.imagesLeft = f.imagesLeft \ {i}
    BY <1>3, <2>1 DEF Frame
  <2>5. g.pc \in OnPod /\ g.pc \notin {"vioDelete", "vioAdd"}  BY <2>4 DEF OnPod
  <2>6. /\ g.isp \in g.isps /\ g.imagesLeft \subseteq notGloballyAllowed(g.pod.images)
        /\ g.image \in notGloballyAllowed(g.pod.images) /\ g.ispsLeft \subseteq f.ispsLeft
    BY <1>5, <2>4
  <2>7. GoodRunner(g, seen[r])  BY <1>3, <1>5, <2>4, <2>5, <2>6, OnTheSamePod
  <2>8. attCache' \in [Runners -> SUBSET Images]
    <3> DEFINE C == attCache[r]
               U == UNION {attCacheAfter(C, occurrences, a, i, ok) : a \in f.auths}
    <3>1. C \subseteq Images /\ attCache \in [Runners -> SUBSET Images]  BY <1>1 DEF TypeOK
    <3>2. \A a : attCacheAfter(C, occurrences, a, i, ok) \subseteq Images
      BY <2>2, <3>1 DEF attCacheAfter
    <3>3. C \cup U \in SUBSET Images  BY <3>1, <3>2
    <3>4. attCache' = [attCache EXCEPT ![r] = C \cup U]  BY <1>7
    <3> HIDE DEF C, U
    <3> QED  BY <3>1, <3>3, <3>4
  <2>9. faults' \in 0..MaxFaults /\ edits' \in 0..MaxEdits
    BY <1>1, <1>7, Calls DEF NoCall, TypeOK
  <2> QED  BY <1>2, <1>3, <1>4, <1>7, <2>1, <2>3, <2>7, <2>8, <2>9, RunnerStep DEF AtRest
<1>8. ASSUME NEW i \in f.imagesLeft, NEW ok \in BOOLEAN,
             IF \E a \in f.auths : attestationCall(attCache[r], a, i) THEN Call(ok) ELSE ok /\ NoCall,
             Step(r, [f EXCEPT !.pc = "attDelete", !.image = i, !.imagesLeft = @ \ {i},
                     !.attested = \E a \in f.auths :
                                     isAttestedBy(attCache[r], occurrences, a, i, ok)]),
             attCache' = [attCache EXCEPT ![r] =
                     @ \cup UNION {attCacheAfter(@, occurrences, a, i, ok) : a \in f.auths}]
      PROVE  CInv'
  <2>1. PICK b \in BOOLEAN : b = \E a \in f.auths : isAttestedBy(attCache[r], occurrences, a, i, ok)
    OBVIOUS
  <2>2. Call(ok) \/ NoCall  BY <1>8
  <2>3. Step(r, [f EXCEPT !.pc = "attDelete", !.image = i, !.imagesLeft = @ \ {i}, !.attested = b])
    BY <1>8, <2>1
  <2> QED  BY <1>7, <1>8, <2>2, <2>3
<1> QED  BY <1>2, <1>6, <1>8 DEF NextImage

\* What the patch of a runner at pc, from the snapshot p to the copy m, makes of
\* pod q: it does not come, go or change its images, a mark of others goes only
\* with the last key of its map, and the violation label becomes the copy's where
\* that differs, stays or goes.
PatchedPod(p, m, pc, q) ==
    /\ pods'[q] = None <=> pods[q] = None
    /\ pods[q] # None =>
          /\ pods'[q].images = pods[q].images
          /\ \A k \in {"labels", "annotations"} :
                \/ pods'[q].marks[k].user = pods[q].marks[k].user
                \/ /\ pods'[q].marks[k].user = None
                   /\ pc \in {"attDelete", "vioDelete"} /\ p.name = q
                   /\ onlyDeleted(p.marks[k], pc)
          /\ \/ pods'[q].marks.labels.violation \in {None, pods[q].marks.labels.violation}
             \/ /\ q = p.name /\ m.labels.violation # p.marks.labels.violation
                /\ pods'[q].marks.labels.violation = m.labels.violation

LEMMA Patched ==
    ASSUME TypeOK, NEW r, NEW p \in Snapshot, loc[r].pod = p, NEW m, NEW pc, Copy(p.marks, m, pc),
           NEW d, NEW e, Patch(r, m, d, e)
    PROVE  /\ pods' \in [PodNames -> Pod \cup {None}]
           /\ \A q \in PodNames : PatchedPod(p, m, pc, q)
<1>1. p.name \in PodNames /\ p.marks \in Marks /\ pods \in [PodNames -> Pod \cup {None}]
  BY DEF Snapshot, TypeOK
<1>2. CASE pods' = pods  BY <1>1, <1>2 DEF PatchedPod
<1>3. CASE pods[p.name] # None /\ pods' = [pods EXCEPT ![p.name].marks = mergePatch(p.marks, m, @)]
  <2>1. PICK x : x = pods[p.name]  OBVIOUS
  <2>2. x \in Pod /\ x.marks \in Marks  BY <1>1, <1>3, <2>1 DEF Pod
  <2>3. PICK n, o, l : n = mergePatch(p.marks, m, x.marks) /\ o = p.marks /\ l = x.marks  OBVIOUS
  <2>4. m \in Marks /\ o \in Marks /\ l \in Marks /\ n = mergePatch(o, m, l)
    BY <1>1, <2>2, <2>3 DEF Copy
  <2>5. n \in Marks  BY <2>4, MergedMarks
  <2>6. \/ m.labels = NoKeys /\ o.labels # NoKeys /\ n.labels = NoKeys
        \/ /\ n.labels.user = IF m.labels.user # o.labels.user THEN m.labels.user ELSE l.labels.user
           /\ n.labels.violation = IF m.labels.violation # o.labels.violation
                                   THEN m.labels.violation ELSE l.labels.violation
    BY <2>4, MergedMarks
  <2>7. \/ m.annotations = NoKeys /\ o.annotations # NoKeys /\ n.annotations = NoKeys
        \/ n.annotations.user = IF m.annotations.user # o.annotations.user
                                THEN m.annotations.user ELSE l.annotations.user
    BY <2>4, MergedMarks
  <2>8. NoKeys.user = None /\ NoKeys.violation = None  BY DEF NoKeys
  <2>9. ASSUME NEW k \in {"labels", "annotations"}
        PROVE  \/ n[k].user = l[k].user
               \/ n[k].user = None /\ pc \in {"attDelete", "vioDelete"} /\ onlyDeleted(o[k], pc)
    BY <2>3, <2>6, <2>7, <2>8 DEF Copy
  <2>10. \/ n.labels.violation \in {None, l.labels.violation}
         \/ m.labels.violation # o.labels.violation /\ n.labels.violation = m.labels.violation
    BY <2>6, <2>8
  <2>11. PICK y : y = [x EXCEPT !.marks = n]  OBVIOUS
  <2>12. y \in Pod /\ y.images = x.images /\ y.marks = n  BY <2>2, <2>5, <2>11 DEF Pod
  <2>13. y # None  BY <2>12, PodAssumption
  <2>14. pods' = [pods EXCEPT ![p.name] = y]  BY <1>3, <2>1, <2>3, <2>11
  <2>15. pods'[p.name] = y /\ \A q \in PodNames : q # p.name => pods'[q] = pods[q]  BY <1>1, <2>14
  <2>16. pods' \in [PodNames -> Pod \cup {None}]  BY <1>1, <2>12, <2>14
  <2>17. ASSUME NEW q \in PodNames PROVE PatchedPod(p, m, pc, q)
    BY <1>3, <2>1, <2>3, <2>9, <2>10, <2>12, <2>13, <2>15 DEF PatchedPod
  <2> QED  BY <2>16, <2>17
<1> QED  BY <1>2, <1>3 DEF Patch

LEMMA PatchStep ==
    ASSUME CInv, NEW r \in Runners, loc[r].pc \notin AtRest, loc[r].pod \in Snapshot, NEW m, NEW pc,
           Copy(loc[r].pod.marks, m, pc), NEW d \in Frame, NEW e \in Frame, GoodRunner(d, seen[r]), GoodRunner(e, seen[r]),
           Patch(r, m, d, e), UNCHANGED <<cluster, metadata, caches, seen>>
    PROVE  CInv'
<1>1. TypeOK /\ \A q \in Runners : /\ GoodRunner(loc[q], seen[q])
                                   /\ loc[q].pc \notin AtRest => Watches(seen[q])
  BY DEF CInv
<1>2. UNCHANGED <<clusterIsps, authorities, vulnerabilities, occurrences, vulnCache, attCache, seen>>
  BY DEF cluster, metadata, caches
<1>3. /\ pods' \in [PodNames -> Pod \cup {None}]
      /\ \A q \in PodNames : /\ pods'[q] = None <=> pods[q] = None
                             /\ pods[q] # None => pods'[q].images = pods[q].images
  BY <1>1, Patched DEF PatchedPod
<1>4. Step(r, d) \/ Step(r, e)  BY DEF Patch
<1>5. PICK g \in Frame : Step(r, g) /\ GoodRunner(g, seen[r])  BY <1>4
<1>6. /\ loc'[r] = g /\ \A q \in Runners : q # r => loc'[q] = loc[q]
      /\ loc' \in [Runners -> Frame]
  BY <1>1, <1>5, Steps
<1>7. faults' \in 0..MaxFaults /\ edits' \in 0..MaxEdits
  <2>1. NoCall \/ \E ok \in BOOLEAN : Call(ok)  BY DEF Patch
  <2> QED  BY <1>1, <2>1, Calls DEF NoCall, TypeOK
<1>8. TypeOK'  BY <1>1, <1>2, <1>3, <1>6, <1>7 DEF TypeOK
<1>9. ASSUME NEW q \in Runners PROVE GoodRunner(loc'[q], seen'[q])
  BY <1>1, <1>2, <1>5, <1>6
<1>10. ASSUME NEW q \in Runners, loc'[q].pc \notin AtRest PROVE Watches(seen[q])'
  <2>1. Watches(seen[q])  BY <1>1, <1>6, <1>10
  <2>2. seen[q].present \subseteq PodNames  BY <1>1 DEF TypeOK
  <2> QED  BY <1>2, <1>3, <2>1, <2>2 DEF Watches
<1> QED  BY <1>8, <1>9, <1>10 DEF CInv

\* The frame of a runner that goes on with the same image.
LEMMA SameImage ==
    ASSUME NEW f \in Frame, NEW sn, GoodRunner(f, sn), f.pc \in OnImage,
           NEW pc \in OnIsp, NEW g, g = [f EXCEPT !.pc = pc],
           pc \in {"vioDelete", "vioAdd"} => breaks(f.isp, f.pod.images, sn.vulns) /\ f.value # None
    PROVE  g \in Frame /\ GoodRunner(g, sn)
<1>1. pc \in PC  BY DEF OnIsp, OnPod, PC
<1>2. g \in Frame  BY <1>1 DEF Frame
<1>3. /\ g.pc = pc /\ g.toList = f.toList /\ g.podsLeft = f.podsLeft /\ g.pod = f.pod
      /\ g.isps = f.isps /\ g.ispsLeft = f.ispsLeft /\ g.reviewed = f.reviewed
      /\ g.isp = f.isp /\ g.image = f.image /\ g.imagesLeft = f.imagesLeft /\ g.value = f.value
  BY <1>1 DEF Frame
<1>4. f.pc \in OnPod /\ f.pc \in OnIsp /\ g.pc \in OnPod  BY <1>3 DEF OnPod, OnIsp, OnImage
<1>5. /\ g.isp \in g.isps /\ g.imagesLeft \subseteq notGloballyAllowed(g.pod.images)
      /\ g.image \in notGloballyAllowed(g.pod.images)
  BY <1>3, <1>4 DEF GoodRunner
<1>6. g.ispsLeft \subseteq f.ispsLeft
      /\ (g.pc \in {"vioDelete", "vioAdd"} => breaks(g.isp, g.pod.images, sn.vulns) /\ g.value # None)
  BY <1>3
<1>7. GoodRunner(g, sn)  BY <1>3, <1>4, <1>5, <1>6, OnTheSamePod
<1> QED  BY <1>2, <1>7

\* What a runner that patches a pod has on its stack.
LEMMA OnAPod ==
    ASSUME CInv, NEW r \in Runners, loc[r].pc \in OnImage
    PROVE  /\ loc[r] \in Frame /\ GoodRunner(loc[r], seen[r]) /\ Watches(seen[r])
           /\ loc[r].pc \notin AtRest /\ loc[r].pod \in Snapshot /\ loc[r].pod.marks \in Marks
           /\ loc[r].attested \in BOOLEAN /\ loc[r].value \in Annotations
           /\ loc[r].image \in Images /\ loc[r].isp \in loc[r].isps
<1>1. /\ TypeOK /\ GoodRunner(loc[r], seen[r]) /\ (loc[r].pc \notin AtRest => Watches(seen[r]))
  BY DEF CInv
<1>2. PICK f : f = loc[r]  OBVIOUS
<1>3. f \in Frame  BY <1>1, <1>2 DEF TypeOK
<1>4. f.attested \in BOOLEAN /\ f.value \in Annotations  BY <1>3 DEF Frame
<1>5. f.pc \notin AtRest /\ f.pc \in OnPod /\ f.pc \in OnIsp  BY <1>2 DEF OnPod, OnIsp, OnImage, AtRest
<1>6. f.pod \in Snapshot /\ f.image \in notGloballyAllowed(f.pod.images) /\ f.isp \in f.isps
  BY <1>1, <1>2, <1>5 DEF GoodRunner
<1>7. f.pod.marks \in Marks /\ f.image \in Images
  BY <1>6, CronAssumption DEF Snapshot, notGloballyAllowed
<1> QED  BY <1>1, <1>2, <1>3, <1>4, <1>5, <1>6, <1>7

LEMMA StepAttDelete ==
    ASSUME CInv, NEW r \in Runners, AttDelete(r)
    PROVE  CInv'
<1>1. PICK f : f = loc[r]  OBVIOUS
<1>2. f.pc = "attDelete" /\ loc[r].pc \in OnImage  BY <1>1 DEF AttDelete, OnPod, OnIsp, OnImage
<1>3. /\ f \in Frame /\ GoodRunner(f, seen[r]) /\ f.pc \in OnImage
      /\ f.pod.marks \in Marks /\ f.pod \in Snapshot
  BY <1>1, <1>2, OnAPod
<1>4. PICK m : m = attestationDeleted(f.pod.marks) /\ Copy(f.pod.marks, m, "attDelete")
  BY <1>3, ModifiedCopies
<1>5. PICK d, e : d = [f EXCEPT !.pc = "attAdd"] /\ e = [f EXCEPT !.pc = "validate"]  OBVIOUS
<1>6. "attAdd" \in OnIsp /\ "validate" \in OnIsp  BY DEF OnPod, OnIsp
<1>7. d \in Frame /\ GoodRunner(d, seen[r])  BY <1>3, <1>5, <1>6, SameImage
<1>8. e \in Frame /\ GoodRunner(e, seen[r])  BY <1>3, <1>5, <1>6, SameImage
<1>9. Patch(r, m, d, e) /\ UNCHANGED <<cluster, metadata, caches, seen>>
  BY <1>1, <1>4, <1>5 DEF AttDelete
<1> QED  BY <1>1, <1>2, <1>3, <1>4, <1>7, <1>8, <1>9, PatchStep DEF AtRest

LEMMA StepAttAdd ==
    ASSUME CInv, NEW r \in Runners, AttAdd(r)
    PROVE  CInv'
<1>1. PICK f : f = loc[r]  OBVIOUS
<1>2. f.pc = "attAdd" /\ loc[r].pc \in OnImage  BY <1>1 DEF AttAdd, OnPod, OnIsp, OnImage
<1>3. /\ f \in Frame /\ GoodRunner(f, seen[r]) /\ f.pc \in OnImage
      /\ f.pod.marks \in Marks /\ f.pod \in Snapshot /\ f.attested \in BOOLEAN
  BY <1>1, <1>2, OnAPod
<1>4. PICK m : m = attestationAdded(f.pod.marks, f.attested) /\ Copy(f.pod.marks, m, "attAdd")
  BY <1>3, ModifiedCopies
<1>5. PICK d : d = [f EXCEPT !.pc = "validate"]  OBVIOUS
<1>6. "validate" \in OnIsp  BY DEF OnPod, OnIsp
<1>7. d \in Frame /\ GoodRunner(d, seen[r])  BY <1>3, <1>5, <1>6, SameImage
<1>8. Patch(r, m, d, d) /\ UNCHANGED <<cluster, metadata, caches, seen>>
  BY <1>1, <1>4, <1>5 DEF AttAdd
<1> QED  BY <1>1, <1>2, <1>3, <1>4, <1>7, <1>8, PatchStep DEF AtRest

LEMMA StepVioDelete ==
    ASSUME CInv, NEW r \in Runners, VioDelete(r)
    PROVE  CInv'
<1>1. PICK f : f = loc[r]  OBVIOUS
<1>2. f.pc = "vioDelete" /\ loc[r].pc \in OnImage  BY <1>1 DEF VioDelete, OnPod, OnIsp, OnImage
<1>3. /\ f \in Frame /\ GoodRunner(f, seen[r]) /\ f.pc \in OnImage
      /\ f.pod.marks \in Marks /\ f.pod \in Snapshot
  BY <1>1, <1>2, OnAPod
<1>4. PICK m : m = violationDeleted(f.pod.marks) /\ Copy(f.pod.marks, m, "vioDelete")
  BY <1>3, ModifiedCopies
<1>5. PICK d, e : d = [f EXCEPT !.pc = "vioAdd"] /\ e = betweenPods(f)  OBVIOUS
<1>6. "vioAdd" \in OnIsp /\ breaks(f.isp, f.pod.images, seen[r].vulns) /\ f.value # None
  BY <1>2, <1>3 DEF OnPod, OnIsp, GoodRunner
<1>7. d \in Frame /\ GoodRunner(d, seen[r])  BY <1>3, <1>5, <1>6, SameImage
<1>8. e \in Frame /\ GoodRunner(e, seen[r])  BY <1>3, <1>5, BetweenPods
<1>9. Patch(r, m, d, e) /\ UNCHANGED <<cluster, metadata, caches, seen>>
  BY <1>1, <1>4, <1>5 DEF VioDelete
<1> QED  BY <1>1, <1>2, <1>3, <1>4, <1>7, <1>8, <1>9, PatchStep DEF AtRest

LEMMA StepVioAdd ==
    ASSUME CInv, NEW r \in Runners, VioAdd(r)
    PROVE  CInv'
<1>1. PICK f : f = loc[r]  OBVIOUS
<1>2. f.pc = "vioAdd" /\ loc[r].pc \in OnImage  BY <1>1 DEF VioAdd, OnPod, OnIsp, OnImage
<1>3. /\ f \in Frame /\ GoodRunner(f, seen[r]) /\ f.pc \in OnImage
      /\ f.pod.marks \in Marks /\ f.pod \in Snapshot /\ f.value \in Annotations
  BY <1>1, <1>2, OnAPod
<1>4. PICK m : m = violationAdded(f.pod.marks, f.value) /\ Copy(f.pod.marks, m, "vioAdd")
  <2>1. f.value # None  BY <1>2, <1>3 DEF GoodRunner
  <2> QED  BY <1>3, <2>1, ModifiedCopies
<1>5. PICK d : d = betweenPods(f)  OBVIOUS
<1>6. d \in Frame /\ GoodRunner(d, seen[r])  BY <1>3, <1>5, BetweenPods
<1>7. Patch(r, m, d, d) /\ UNCHANGED <<cluster, metadata, caches, seen>>
  BY <1>1, <1>4, <1>5 DEF VioAdd
<1> QED  BY <1>1, <1>2, <1>3, <1>4, <1>6, <1>7, PatchStep DEF AtRest

LEMMA AnnotationType ==
    ASSUME NEW isp, NEW i, NEW V \in SUBSET (UNION VulnLists)
    PROVE  annotationValue(isp, i, V) \in AnnotationValues
<1>1. Violations(isp, V) \in SUBSET (UNION VulnLists)  BY DEF Violations
<1>2. Cardinality(Violations(isp, V)) \in 0..Cardinality(UNION VulnLists)
  <2>1. /\ IsFiniteSet(Violations(isp, V))
        /\ Cardinality(Violations(isp, V)) <= Cardinality(UNION VulnLists)
    BY <1>1, CronAssumption, FS_Subset
  <2>2. Cardinality(Violations(isp, V)) \in Nat /\ Cardinality(UNION VulnLists) \in Nat
    BY <2>1, CronAssumption, FS_CardinalityType
  <2> QED  BY <2>1, <2>2
<1> QED  BY <1>2 DEF annotationValue, AnnotationValues

\* Whatever is neither an error nor clean is a violation by the scan of now.
LEMMA ResultIsEarned ==
    ASSUME NEW isp, NEW i, NEW V, NEW ok, NEW c \in BOOLEAN,
           NEW result, result = IF c /\ vulnerabilityCall(isp, i) THEN validateVulnz(isp, {})
                                ELSE validate(isp, i, IF c THEN {} ELSE V, ok),
           result # "error", result # "clean"
    PROVE  /\ i \notin isp.ImageAllowlist
           /\ i \notin FullyQualified \/ validateVulnz(isp, V) = "violation"
<1>1. validateVulnz(isp, {}) = "clean"  BY DEF validateVulnz, Violations
<1>2. ~(c /\ vulnerabilityCall(isp, i))  BY <1>1
<1>3. result = validate(isp, i, IF c THEN {} ELSE V, ok)  BY <1>2
<1>4. i \notin isp.ImageAllowlist  BY <1>3 DEF validate
<1>5. CASE i \in FullyQualified
  <2>1. vulnerabilityCall(isp, i) /\ ~c  BY <1>2, <1>4, <1>5 DEF vulnerabilityCall
  <2>2. result = validate(isp, i, V, ok)  BY <1>3, <2>1
  <2>3. validateVulnz(isp, V) \in {"error", "clean", "violation"}  BY DEF validateVulnz
  <2>4. result = validateVulnz(isp, V)
    <3>1. ~(~(ok /\ isServed(i)))  BY <1>4, <1>5, <2>1, <2>2 DEF validate
    <3> QED  BY <1>4, <1>5, <2>1, <2>2, <3>1 DEF validate
  <2> QED  BY <1>4, <2>3, <2>4
<1> QED  BY <1>4, <1>5

LEMMA StepValidate ==
    ASSUME CInv, NEW r \in Runners, Validate(r)
    PROVE  CInv'
<1>1. TypeOK  BY DEF CInv
<1>2. PICK f : f = loc[r]  OBVIOUS
<1>3. f.pc = "validate" /\ loc[r].pc \in OnImage  BY <1>2 DEF Validate, OnPod, OnIsp, OnImage
<1>4. /\ f \in Frame /\ GoodRunner(f, seen[r]) /\ Watches(seen[r]) /\ f.pc \in OnImage
      /\ f.image \in Images /\ f.pod \in Snapshot
  BY <1>2, <1>3, OnAPod
<1>5. PICK i, isp, V : i = f.image /\ isp = f.isp /\ V = vulnerabilities[i]  OBVIOUS
<1>6. PICK c \in BOOLEAN : c <=> (i \in vulnCache[r])  BY Zenon
<1>7. PICK W : W = IF c THEN {} ELSE V  OBVIOUS
<1>8. PICK ok \in BOOLEAN :
         LET call == vulnerabilityCall(isp, i) /\ ~c
             result == IF c /\ vulnerabilityCall(isp, i) THEN validateVulnz(isp, {})
                       ELSE validate(isp, i, W, ok)
         IN /\ IF call THEN Call(ok) ELSE ok /\ NoCall
            /\ Step(r, CASE result = "error" -> betweenPods(f)
                         [] result = "clean" -> [f EXCEPT !.pc = "nextImage"]
                         [] OTHER -> [f EXCEPT !.pc = "vioDelete", !.value = annotationValue(isp, i, W)])
            /\ vulnCache' = [vulnCache EXCEPT ![r] =
                   IF call /\ ~(ok /\ isServed(i)) /\ Metadata = ContainerAnalysisMetadata
                   THEN @ \cup {i} ELSE @]
  BY <1>2, <1>5, <1>6, <1>7 DEF Validate
<1>9. PICK result : result = IF c /\ vulnerabilityCall(isp, i) THEN validateVulnz(isp, {})
                             ELSE validate(isp, i, W, ok)
  OBVIOUS
<1>10. Step(r, CASE result = "error" -> betweenPods(f)
                 [] result = "clean" -> [f EXCEPT !.pc = "nextImage"]
                 [] OTHER -> [f EXCEPT !.pc = "vioDelete", !.value = annotationValue(isp, i, W)])
  BY <1>8, <1>9
<1>11. UNCHANGED <<cluster, metadata, pods, seen>> /\ attCache' \in [Runners -> SUBSET Images]
  BY <1>1 DEF Validate, TypeOK
<1>12. vulnCache' \in [Runners -> SUBSET Images]  BY <1>1, <1>4, <1>5, <1>8 DEF TypeOK
<1>13. faults' \in 0..MaxFaults /\ edits' \in 0..MaxEdits
  <2>1. NoCall \/ Call(ok)  BY <1>8
  <2> QED  BY <1>1, <2>1, Calls DEF NoCall, TypeOK
<1>14. SUFFICES \E g \in Frame : Step(r, g) /\ GoodRunner(g, seen[r])
  BY <1>2, <1>3, <1>11, <1>12, <1>13, RunnerStep DEF AtRest
<1>15. CASE result = "error"
  <2>1. Step(r, betweenPods(f))  BY <1>10, <1>15
  <2> QED  BY <1>4, <2>1, BetweenPods
<1>16. CASE result = "clean"
  <2>1. Step(r, [f EXCEPT !.pc = "nextImage"])  BY <1>10, <1>16
  <2>2. "nextImage" \in OnIsp  BY DEF OnPod, OnIsp
  <2> QED  BY <1>4, <2>1, <2>2, SameImage
<1>17. CASE result # "error" /\ result # "clean"
  <2>1. PICK v : v = annotationValue(isp, i, W)  OBVIOUS
  <2>2. PICK g : g = [f EXCEPT !.pc = "vioDelete", !.value = v]  OBVIOUS
  <2>3. Step(r, g)
    <3>1. (CASE result = "error" -> betweenPods(f)
             [] result = "clean" -> [f EXCEPT !.pc = "nextImage"]
             [] OTHER -> [f EXCEPT !.pc = "vioDelete", !.value = annotationValue(isp, i, W)])
          = g
      BY <1>17, <2>1, <2>2
    <3> QED  BY <1>10, <3>1
  <2>4. V \in VulnLists  BY <1>1, <1>4, <1>5 DEF TypeOK
  <2>5. v \in Annotations /\ v # None
    <3>1. W \in SUBSET (UNION VulnLists)  BY <1>7, <2>4
    <3>2. v \in AnnotationValues  BY <2>1, <3>1, AnnotationType
    <3> QED  BY <3>2, PodAssumption DEF Annotations
  <2>6. /\ i \notin isp.ImageAllowlist
        /\ i \notin FullyQualified \/ validateVulnz(isp, V) = "violation"
    BY <1>7, <1>9, <1>17, ResultIsEarned
  <2>7. breaks(f.isp, f.pod.images, seen[r].vulns)
    <3>1. i \in notGloballyAllowed(f.pod.images)  BY <1>4, <1>5 DEF GoodRunner
    <3>2. <<i, V>> \in seen[r].vulns  BY <1>4, <1>5 DEF Watches
    <3>3. <<i, V>>[1] = i /\ <<i, V>>[2] = V  OBVIOUS
    <3>4. i \notin FullyQualified \/ \E t \in seen[r].vulns : t[1] = i /\ validateVulnz(isp, t[2]) = "violation"
      BY <2>6, <3>2, <3>3
    <3> QED  BY <1>5, <2>6, <3>1, <3>4 DEF breaks
  <2>8. g \in Frame  BY <1>4, <2>2, <2>5 DEF Frame, PC
  <2>9. /\ g.pc = "vioDelete" /\ g.toList = f.toList /\ g.podsLeft = f.podsLeft /\ g.pod = f.pod
        /\ g.isps = f.isps /\ g.ispsLeft = f.ispsLeft /\ g.reviewed = f.reviewed
        /\ g.isp = f.isp /\ g.image = f.image /\ g.imagesLeft = f.imagesLeft /\ g.value = v
    BY <1>4, <2>2 DEF Frame
  <2>10. f.pc \in OnPod /\ f.pc \in OnIsp /\ g.pc \in OnPod  BY <1>4, <2>9 DEF OnPod, OnIsp, OnImage
  <2>11. /\ g.isp \in g.isps /\ g.imagesLeft \subseteq notGloballyAllowed(g.pod.images)
         /\ g.image \in notGloballyAllowed(g.pod.images) /\ g.ispsLeft \subseteq f.ispsLeft
         /\ breaks(g.isp, g.pod.images, seen[r].vulns) /\ g.value # None
    BY <1>4, <2>5, <2>7, <2>9, <2>10 DEF GoodRunner
  <2>12. GoodRunner(g, seen[r])  BY <1>4, <2>9, <2>10, <2>11, OnTheSamePod
  <2> QED  BY <2>3, <2>8, <2>12
<1> QED  BY <1>15, <1>16, <1>17

-----------------------------------------------------------------------------
(* The others.                                                             *)

LEMMA StepEdit ==
    ASSUME CInv, Edit, clusterIsps' \in IspLists, authorities' \subseteq Authorities,
           vulnerabilities' \in [Images -> VulnLists], occurrences' \subseteq Occurrences,
           pods' \in [PodNames -> Pod \cup {None}]
    PROVE  CInv'
<1>1. TypeOK /\ \A q \in Runners : /\ GoodRunner(loc[q], seen[q])
                                   /\ loc[q].pc \notin AtRest => Watches(seen[q])
  BY DEF CInv
<1>2. UNCHANGED <<vulnCache, attCache, loc, faults>>  BY DEF Edit, caches
<1>3. edits' \in 0..MaxEdits  BY <1>1, CronAssumption DEF Edit, TypeOK
<1> DEFINE V == {<<i, vulnerabilities'[i]>> : i \in Images}
           E == {p \in PodNames : pods'[p] # None}
           P == {<<p, pods'[p].images>> : p \in E}
<1>4. /\ Now'.vulns = V /\ Now'.pods = P /\ Existing' = E
  BY DEF Now, Existing
<1>5. V \subseteq Images \X VulnLists  OBVIOUS
<1>6. \A p \in E : p \in PodNames /\ pods'[p] # None /\ pods'[p].images \in PodTemplates
  BY DEF Pod
<1>7. P \subseteq PodNames \X PodTemplates  BY <1>6
<1>8. \A i \in Images : <<i, vulnerabilities'[i]>> \in V  OBVIOUS
<1>9. \A p \in PodNames : pods'[p] # None => p \in E /\ <<p, pods'[p].images>> \in P  OBVIOUS
<1> HIDE DEF V, E, P
<1>10. \A r \in Runners :
          seen'[r] = IF loc[r].pc \notin AtRest
                     THEN [vulns |-> seen[r].vulns \cup V, pods |-> seen[r].pods \cup P,
                           present |-> seen[r].present \cap E]
                     ELSE Nothing
  BY <1>4 DEF Edit, Working, AtRest
<1>11. seen' \in [Runners -> [vulns : SUBSET (Images \X VulnLists),
                              pods : SUBSET (PodNames \X PodTemplates),
                              present : SUBSET PodNames]]
  <2>1. \A r \in Runners : seen'[r] \in [vulns : SUBSET (Images \X VulnLists),
                                         pods : SUBSET (PodNames \X PodTemplates),
                                         present : SUBSET PodNames]
    <3>1. ASSUME NEW r \in Runners, loc[r].pc \in AtRest
          PROVE  seen'[r] \in [vulns : SUBSET (Images \X VulnLists),
                               pods : SUBSET (PodNames \X PodTemplates), present : SUBSET PodNames]
      <4>1. seen'[r] = Nothing  BY <1>10, <3>1
      <4> QED  BY <4>1 DEF Nothing
    <3>2. ASSUME NEW r \in Runners, loc[r].pc \notin AtRest
          PROVE  seen'[r] \in [vulns : SUBSET (Images \X VulnLists),
                               pods : SUBSET (PodNames \X PodTemplates), present : SUBSET PodNames]
      <4>1. PICK sn : sn = seen[r]  OBVIOUS
      <4>2. /\ sn.vulns \subseteq Images \X VulnLists /\ sn.pods \subseteq PodNames \X PodTemplates
            /\ sn.present \subseteq PodNames
        BY <1>1, <4>1 DEF TypeOK
      <4>3. PICK A, B, C : A = sn.vulns \cup V /\ B = sn.pods \cup P /\ C = sn.present \cap E  OBVIOUS
      <4>4. seen'[r] = [vulns |-> A, pods |-> B, present |-> C]  BY <1>10, <3>2, <4>1, <4>3
      <4>5. A \subseteq Images \X VulnLists /\ B \subseteq PodNames \X PodTemplates /\ C \subseteq PodNames
        BY <1>5, <1>7, <4>2, <4>3
      <4> QED  BY <4>4, <4>5
    <3> QED  BY <3>1, <3>2
  <2>2. seen' = [r \in Runners |-> seen'[r]]  BY DEF Edit
  <2> QED  BY <2>1, <2>2
<1>12. TypeOK'  BY <1>1, <1>2, <1>3, <1>11 DEF TypeOK
<1>13. ASSUME NEW q \in Runners, loc[q].pc \notin AtRest
       PROVE  /\ seen'[q].vulns = seen[q].vulns \cup V /\ seen'[q].pods = seen[q].pods \cup P
              /\ seen'[q].present = seen[q].present \cap E
  <2>1. PICK A, B, C : A = seen[q].vulns \cup V /\ B = seen[q].pods \cup P
                       /\ C = seen[q].present \cap E
    OBVIOUS
  <2>2. seen'[q] = [vulns |-> A, pods |-> B, present |-> C]  BY <1>10, <1>13, <2>1
  <2> QED  BY <2>1, <2>2
<1>14. ASSUME NEW q \in Runners PROVE GoodRunner(loc[q], seen'[q])
  <2>1. CASE loc[q].pc \notin AtRest
    BY <1>1, <1>13, <2>1, SeesMore
  <2>2. CASE loc[q].pc \in AtRest
    <3>1. PICK f : f = loc[q]  OBVIOUS
    <3>2. f.podsLeft = {} /\ f.toList \subseteq f.isps /\ f.ispsLeft \subseteq f.isps
      BY <1>1, <2>2, <3>1 DEF GoodRunner
    <3>3. seen'[q] = Nothing /\ Nothing.present = {}  BY <1>10, <2>2 DEF Nothing
    <3>4. GoodRunner(f, Nothing)  BY <2>2, <3>1, <3>2, <3>3 DEF GoodRunner, OnPod, OnIsp, OnImage, AtRest
    <3> QED  BY <3>1, <3>3, <3>4
  <2> QED  BY <2>1, <2>2
<1>15. ASSUME NEW q \in Runners, loc[q].pc \notin AtRest PROVE Watches(seen[q])'
  <2>1. /\ seen'[q].vulns = seen[q].vulns \cup V /\ seen'[q].pods = seen[q].pods \cup P
        /\ seen'[q].present = seen[q].present \cap E
    BY <1>13, <1>15
  <2> QED  BY <1>6, <1>8, <1>9, <2>1 DEF Watches
<1> QED  BY <1>2, <1>12, <1>14, <1>15 DEF CInv

\* A user's label or annotation is a mark, and marks no pod with a violation.
LEMMA UserMarks ==
    ASSUME NEW x \in Pod, NEW v \in {None} \cup UserValues, NEW y,
           y \in {[x EXCEPT !.marks.labels.user = v], [x EXCEPT !.marks.annotations.user = v]}
    PROVE  y \in Pod /\ y.marks.labels.violation = x.marks.labels.violation
<1>1. PICK L \in Labels, N \in Notes : x.marks = [labels |-> L, annotations |-> N]
  BY MapTypes DEF Pod
<1>2. PICK L2, N2 : L2 = [L EXCEPT !.user = v] /\ N2 = [N EXCEPT !.user = v]  OBVIOUS
<1>3. L2 \in Labels /\ L2.violation = L.violation  BY <1>2 DEF Labels
<1>4. N2 \in Notes  BY <1>2 DEF Notes
<1>5. \/ y = [x EXCEPT !.marks = [labels |-> L2, annotations |-> N]]
      \/ y = [x EXCEPT !.marks = [labels |-> L, annotations |-> N2]]
  BY <1>1, <1>2
<1> QED  BY <1>1, <1>3, <1>4, <1>5, MapTypes DEF Pod

LEMMA StepEnvironment ==
    ASSUME CInv, Environment
    PROVE  CInv'
<1>1. TypeOK  BY DEF CInv
<1>2. /\ clusterIsps \in IspLists /\ authorities \subseteq Authorities
      /\ vulnerabilities \in [Images -> VulnLists] /\ occurrences \subseteq Occurrences
      /\ pods \in [PodNames -> Pod \cup {None}]
  BY <1>1 DEF TypeOK
<1>3. CASE EditIsps  BY <1>2, <1>3, StepEdit DEF EditIsps, metadata
<1>4. CASE EditAuthority
  <2>1. authorities' \subseteq Authorities  BY <1>2, <1>4 DEF EditAuthority
  <2> QED  BY <1>2, <1>4, <2>1, StepEdit DEF EditAuthority, metadata
<1>5. CASE Rescan  BY <1>2, <1>5, StepEdit DEF Rescan, cluster
<1>6. CASE EditOccurrences
  <2>1. occurrences' \subseteq Occurrences  BY <1>2, <1>6 DEF EditOccurrences
  <2> QED  BY <1>2, <1>6, <2>1, StepEdit DEF EditOccurrences, cluster
<1>7. CASE LabelPod
  <2>1. PICK p \in Existing, v \in {None} \cup UserValues :
           \/ pods' = [pods EXCEPT ![p].marks.labels.user = v]
           \/ pods' = [pods EXCEPT ![p].marks.annotations.user = v]
    BY <1>7 DEF LabelPod
  <2>2. p \in PodNames /\ pods[p] \in Pod  BY <1>2 DEF Existing
  <2>3. PICK y : /\ y \in {[pods[p] EXCEPT !.marks.labels.user = v], [pods[p] EXCEPT !.marks.annotations.user = v]}
                 /\ pods' = [pods EXCEPT ![p] = y]
    BY <2>1
  <2>4. y \in Pod  BY <2>2, <2>3, UserMarks
  <2>5. pods' \in [PodNames -> Pod \cup {None}]  BY <1>2, <2>2, <2>3, <2>4
  <2> QED  BY <1>2, <1>7, <2>5, StepEdit DEF LabelPod, cluster, metadata
<1>8. CASE DeletePod
  <2>1. pods' \in [PodNames -> Pod \cup {None}]  BY <1>2, <1>8 DEF DeletePod
  <2> QED  BY <1>2, <1>8, <2>1, StepEdit DEF DeletePod, cluster, metadata
<1>9. CASE CreatePod
  <2>1. NewMarks \subseteq Marks  BY NewMarksType
  <2>2. \A T \in PodTemplates, m \in NewMarks : [images |-> T, marks |-> m] \in Pod  BY <2>1 DEF Pod
  <2>3. pods' \in [PodNames -> Pod \cup {None}]  BY <1>2, <1>9, <2>2 DEF CreatePod
  <2> QED  BY <1>2, <1>9, <2>3, StepEdit DEF CreatePod, cluster, metadata
<1>10. ASSUME NEW r \in Runners, Crash(r) PROVE CInv'
  <2>1. /\ vulnCache' \in [Runners -> SUBSET Images] /\ attCache' \in [Runners -> SUBSET Images]
        /\ faults' \in 0..MaxFaults /\ edits' \in 0..MaxEdits
    BY <1>1, <1>10, CronAssumption DEF Crash, TypeOK
  <2> QED  BY <1>10, <2>1, PassEnds DEF Crash
<1> QED  BY <1>3, <1>4, <1>5, <1>6, <1>7, <1>8, <1>9, <1>10 DEF Environment

LEMMA StepStutter ==
    ASSUME CInv, UNCHANGED vars
    PROVE  CInv'
<1>1. UNCHANGED <<clusterIsps, authorities, vulnerabilities, occurrences, pods, vulnCache, attCache,
                  loc, seen, faults, edits>>
  BY DEF vars, cluster, metadata, caches
<1>2. TypeOK'  BY <1>1 DEF CInv, TypeOK
<1>3. \A sn : Watches(sn) => Watches(sn)'  BY <1>1 DEF Watches
<1> QED  BY <1>1, <1>2, <1>3 DEF CInv

-----------------------------------------------------------------------------
(* The theorems.                                                           *)

\* The invariant: every runner's stack against what was there during its pass.
THEOREM CronInvariant == Spec => []CInv
<1>1. Init => CInv  BY InitCInv
<1>2. ASSUME CInv, [Next]_vars PROVE CInv'
  BY <1>2, StepStartPass, StepListPods, StepNextPod, StepNextIsp, StepNextImage, StepAttDelete,
     StepAttAdd, StepValidate, StepVioDelete, StepVioAdd, StepEnvironment, StepStutter
  DEF Next, Work
<1> QED  BY <1>1, <1>2, PTL DEF Spec

\* Type correctness of the cluster, the metadata, the pods and every frame.
THEOREM TypeCorrect == Spec => []TypeOK
<1>1. CInv => TypeOK  BY DEF CInv
<1> QED  BY <1>1, CronInvariant, PTL

\* CheckPods: a pass that comes to its end has called ReviewISP on every pod that
\* was there all the while in a namespace with a policy.
THEOREM PassesCover == Spec => []PassCovers
<1>1. CInv => PassCovers  BY DEF CInv, PassCovers, GoodRunner, passDone
<1> QED  BY <1>1, CronInvariant, PTL

\* What a step of runner r, at pc, keeps of pod p.
Kept(r, p, pc) ==
    /\ (pods'[p] = None) <=> (pods[p] = None)
    /\ pods[p] # None =>
          /\ pods'[p].images = pods[p].images
          /\ \A m \in {"labels", "annotations"} :
                \/ pods'[p].marks[m].user = pods[p].marks[m].user
                \/ /\ pods'[p].marks[m].user = None
                   /\ pc \in {"attDelete", "vioDelete"} /\ loc[r].pod.name = p
                   /\ onlyDeleted(loc[r].pod.marks[m], pc)

\* The patch of each of the four calls keeps what is not kritis's.
LEMMA WorkKeeps ==
    ASSUME CInv, NEW r \in Runners, Work(r), NEW p \in PodNames
    PROVE  Kept(r, p, loc[r].pc)
<1>1. TypeOK  BY DEF CInv
<1>2. CASE UNCHANGED pods  BY <1>2 DEF Kept
<1>3. ASSUME NEW m, NEW d, NEW e, loc[r].pod \in Snapshot, Copy(loc[r].pod.marks, m, loc[r].pc),
             Patch(r, m, d, e)
      PROVE  Kept(r, p, loc[r].pc)
  <2>1. PatchedPod(loc[r].pod, m, loc[r].pc, p)  BY <1>1, <1>3, Patched
  <2> QED  BY <2>1 DEF Kept, PatchedPod
<1>4. ASSUME loc[r].pc \in OnImage
      PROVE  /\ loc[r].pod \in Snapshot /\ loc[r].pod.marks \in Marks
             /\ loc[r].attested \in BOOLEAN /\ loc[r].value \in Annotations
             /\ GoodRunner(loc[r], seen[r])
  BY <1>4, OnAPod
<1>5. CASE AttDelete(r)
  <2>1. loc[r].pc = "attDelete" /\ loc[r].pc \in OnImage
    BY <1>5 DEF AttDelete, OnPod, OnIsp, OnImage
  <2> QED  BY <1>3, <1>4, <1>5, <2>1, ModifiedCopies DEF AttDelete
<1>6. CASE AttAdd(r)
  <2>1. loc[r].pc = "attAdd" /\ loc[r].pc \in OnImage  BY <1>6 DEF AttAdd, OnPod, OnIsp, OnImage
  <2> QED  BY <1>3, <1>4, <1>6, <2>1, ModifiedCopies DEF AttAdd
<1>7. CASE VioDelete(r)
  <2>1. loc[r].pc = "vioDelete" /\ loc[r].pc \in OnImage
    BY <1>7 DEF VioDelete, OnPod, OnIsp, OnImage
  <2> QED  BY <1>3, <1>4, <1>7, <2>1, ModifiedCopies DEF VioDelete
<1>8. CASE VioAdd(r)
  <2>1. loc[r].pc = "vioAdd" /\ loc[r].pc \in OnImage  BY <1>8 DEF VioAdd, OnPod, OnIsp, OnImage
  <2>2. loc[r].value # None  BY <1>4, <2>1 DEF GoodRunner
  <2> QED  BY <1>3, <1>4, <1>8, <2>1, <2>2, ModifiedCopies DEF VioAdd
<1>9. CASE ListPods(r) \/ NextPod(r) \/ NextIsp(r) \/ NextImage(r) \/ Validate(r)
  BY <1>2, <1>9 DEF ListPods, NextPod, NextIsp, NextImage, Validate
<1> QED  BY <1>5, <1>6, <1>7, <1>8, <1>9 DEF Work

\* getPatch: no step of a review brings a deleted pod back or changes its images,
\* and it takes a mark of others away only with the last key of kritis that their
\* map had when the pod was listed.
THEOREM OthersAreKept == Spec => OthersKept
<1>1. CInv /\ [Next]_vars =>
         [\A r \in Runners : Work(r) => \A p \in PodNames : Kept(r, p, loc[r].pc)]_vars
  BY WorkKeeps
<1> QED  BY <1>1, CronInvariant, PTL DEF Spec, OthersKept, Kept

\* Only the last call of HandleViolation sets the violation label.
LEMMA LabelIsEarned ==
    ASSUME CInv, NEW r \in Runners, Work(r), NEW p \in PodNames, marked(p)', ~marked(p)
    PROVE  /\ loc[r].pc \notin AtRest
           /\ earned(r, p, loc[r].isps)
<1>1. TypeOK  BY DEF CInv
<1>2. ~UNCHANGED pods  BY DEF marked
<1>3. ASSUME NEW m, NEW pc, NEW d, NEW e, loc[r].pod \in Snapshot, Copy(loc[r].pod.marks, m, pc),
             Patch(r, m, d, e)
      PROVE  /\ p = loc[r].pod.name /\ m.labels.violation # loc[r].pod.marks.labels.violation
             /\ m.labels.violation = InvalidImageSecPolicy
  <2>1. PatchedPod(loc[r].pod, m, pc, p)  BY <1>1, <1>3, Patched
  <2> QED  BY <2>1, PodAssumption DEF marked, PatchedPod
<1>4. ASSUME loc[r].pc \in OnImage
      PROVE  /\ loc[r].pod \in Snapshot /\ loc[r].pod.marks \in Marks
             /\ loc[r].attested \in BOOLEAN /\ loc[r].value \in Annotations
             /\ loc[r].isp \in loc[r].isps /\ GoodRunner(loc[r], seen[r])
  BY <1>4, OnAPod
<1>5. ~AttDelete(r)
  <2>1. ASSUME AttDelete(r) PROVE loc[r].pc \in OnImage  BY <2>1 DEF AttDelete, OnPod, OnIsp, OnImage
  <2> QED  BY <1>3, <1>4, <2>1, ModifiedCopies DEF AttDelete
<1>6. ~AttAdd(r)
  <2>1. ASSUME AttAdd(r) PROVE loc[r].pc \in OnImage  BY <2>1 DEF AttAdd, OnPod, OnIsp, OnImage
  <2> QED  BY <1>3, <1>4, <2>1, ModifiedCopies DEF AttAdd
<1>7. ~(ListPods(r) \/ NextPod(r) \/ NextIsp(r) \/ NextImage(r) \/ Validate(r))
  BY <1>2 DEF ListPods, NextPod, NextIsp, NextImage, Validate
<1>8. CASE VioDelete(r) \/ VioAdd(r)
  <2>1. loc[r].pc \in {"vioDelete", "vioAdd"} /\ loc[r].pc \in OnImage /\ loc[r].pc \in OnPod
    BY <1>8 DEF VioDelete, VioAdd, OnPod, OnIsp, OnImage
  <2>2. p = loc[r].pod.name
    <3>1. loc[r].value # None  BY <1>4, <2>1 DEF GoodRunner
    <3> QED  BY <1>3, <1>4, <1>8, <2>1, <3>1, ModifiedCopies DEF VioDelete, VioAdd
  <2>3. PICK f : f = loc[r]  OBVIOUS
  <2>4. <<f.pod.name, f.pod.images>> \in seen[r].pods /\ breaks(f.isp, f.pod.images, seen[r].vulns)
    BY <1>4, <2>1, <2>3 DEF GoodRunner
  <2>5. <<f.pod.name, f.pod.images>>[1] = f.pod.name /\ <<f.pod.name, f.pod.images>>[2] = f.pod.images
    OBVIOUS
  <2>6. f.isp \in f.isps /\ f.pc \notin AtRest  BY <1>4, <2>1, <2>3 DEF AtRest
  <2> QED  BY <2>2, <2>3, <2>4, <2>5, <2>6 DEF earned
<1> QED  BY <1>5, <1>6, <1>7, <1>8 DEF Work

\* What the others do marks no pod.
LEMMA OthersMarkNone ==
    ASSUME CInv, Environment, NEW p \in PodNames, marked(p)'
    PROVE  marked(p)
<1>1. pods \in [PodNames -> Pod \cup {None}]  BY DEF CInv, TypeOK
<1>2. CASE UNCHANGED pods  BY <1>2 DEF marked
<1>3. CASE LabelPod
  <2>1. PICK q \in Existing, v \in {None} \cup UserValues :
           \/ pods' = [pods EXCEPT ![q].marks.labels.user = v]
           \/ pods' = [pods EXCEPT ![q].marks.annotations.user = v]
    BY <1>3 DEF LabelPod
  <2>2. q \in PodNames /\ pods[q] \in Pod /\ pods[q] # None  BY <1>1 DEF Existing
  <2>3. PICK y : /\ y \in {[pods[q] EXCEPT !.marks.labels.user = v], [pods[q] EXCEPT !.marks.annotations.user = v]}
                 /\ pods' = [pods EXCEPT ![q] = y]
    BY <2>1
  <2>4. y.marks.labels.violation = pods[q].marks.labels.violation  BY <2>2, <2>3, UserMarks
  <2>5. pods'[q] = y /\ \A z \in PodNames : z # q => pods'[z] = pods[z]  BY <1>1, <2>2, <2>3
  <2> QED  BY <2>2, <2>4, <2>5 DEF marked
<1>4. CASE DeletePod
  <2>1. PICK q \in Existing : pods' = [pods EXCEPT ![q] = None]  BY <1>4 DEF DeletePod
  <2>2. q \in PodNames  BY DEF Existing
  <2> QED  BY <1>1, <2>1, <2>2 DEF marked
<1>5. CASE CreatePod
  <2>1. PICK q \in PodNames \ Existing, T \in PodTemplates, m \in NewMarks :
           pods' = [pods EXCEPT ![q] = [images |-> T, marks |-> m]]
    BY <1>5 DEF CreatePod
  <2>2. pods'[q] = [images |-> T, marks |-> m] /\ \A z \in PodNames : z # q => pods'[z] = pods[z]
    BY <1>1, <2>1
  <2>3. pods'[q].marks.labels.violation = None  BY <2>2, NewMarksType
  <2> QED  BY <2>2, <2>3, PodAssumption DEF marked
<1> QED  BY <1>2, <1>3, <1>4, <1>5 DEF Environment, EditIsps, EditAuthority, Rescan, EditOccurrences, Crash

\* ReviewISP and HandleViolation: a pod gets the violation label only when a pod
\* of that name ran, during the pass, images that broke a listed policy by a scan
\* of that time, whatever failed, was cached or was patched by others meanwhile.
THEOREM LabelsAreEarned == Spec => LabelsEarned
<1>1. ASSUME CInv, Next, NEW p \in PodNames, marked(p)', ~marked(p)
      PROVE  \E r \in Runners : Working(r) /\ earned(r, p, loc[r].isps)
  <2>1. ~Environment  BY <1>1, OthersMarkNone
  <2>2. \A r \in Runners : ~StartPass(r)  BY <1>1 DEF StartPass, marked
  <2>3. PICK r \in Runners : Work(r)  BY <1>1, <2>1, <2>2 DEF Next
  <2> QED  BY <1>1, <2>3, LabelIsEarned DEF Working, AtRest
<1>2. CInv /\ [Next]_vars =>
         [\A p \in PodNames : marked(p)' /\ ~marked(p) =>
             \E r \in Runners : Working(r) /\ earned(r, p, loc[r].isps)]_vars
  BY <1>1
<1> QED  BY <1>2, CronInvariant, PTL DEF Spec, LabelsEarned

-----------------------------------------------------------------------------
(* The algebra of the policies.                                            *)

Thresholds == SeverityName \cup {BlockAll, AllowAll}

\* The order of the thresholds.  ALLOW_ALL is above CRITICAL.
Below(a, b) ==
    \/ a = BlockAll \/ b = AllowAll
    \/ {a, b} \subseteq SeverityName /\ Severity_value[a] <= Severity_value[b]

\* Policy p forbids whatever q forbids.
Stricter(p, q) ==
    /\ p.ImageAllowlist \subseteq q.ImageAllowlist
    /\ p.AllowlistCVEs \subseteq q.AllowlistCVEs
    /\ Below(maxSev(p), maxSev(q)) /\ Below(maxNoFixSev(p), maxNoFixSev(q))

LEMMA ThresholdNames ==
    BlockAll \notin SeverityName /\ AllowAll \notin SeverityName /\ BlockAll # AllowAll
BY DEF BlockAll, AllowAll, SeverityName

LEMMA SeverityValues ==
    \A s \in SeverityName : Severity_value[s] \in Int
<1>1. ASSUME NEW s \in SeverityName PROVE Severity_value[s] \in Int
  <2>1. CASE s = "SEVERITY_UNSPECIFIED"  BY <2>1 DEF Severity_value, SeverityName
  <2>2. CASE s = "MINIMAL"  BY <2>2 DEF Severity_value, SeverityName
  <2>3. CASE s = "LOW"  BY <2>3 DEF Severity_value, SeverityName
  <2>4. CASE s = "MEDIUM"  BY <2>4 DEF Severity_value, SeverityName
  <2>5. CASE s = "HIGH"  BY <2>5 DEF Severity_value, SeverityName
  <2>6. CASE s = "CRITICAL"  BY <2>6 DEF Severity_value, SeverityName
  <2> QED  BY <2>1, <2>2, <2>3, <2>4, <2>5, <2>6 DEF SeverityName
<1> QED  BY <1>1

\* The three answers of severityWithinThreshold, without the CASE.
LEMMA WithinIs ==
    ASSUME NEW a, NEW s
    PROVE  severityWithinThreshold(a, s) = "within" <=>
              \/ a = AllowAll
              \/ a # BlockAll /\ {a, s} \subseteq SeverityName /\ Severity_value[s] <= Severity_value[a]
<1>1. CASE a = BlockAll  BY <1>1, ThresholdNames DEF severityWithinThreshold
<1>2. CASE a = AllowAll  BY <1>2, ThresholdNames DEF severityWithinThreshold
<1>3. CASE a # BlockAll /\ a # AllowAll  BY <1>3 DEF severityWithinThreshold
<1> QED  BY <1>1, <1>2, <1>3

\* severityWithinThreshold: of two thresholds that parse, one accepts every
\* severity the other does exactly if it is not below it.  A severity that does
\* not parse counts, which is why ALLOW_ALL accepts more than CRITICAL.
THEOREM ThresholdsAreOrdered ==
    \A a, b \in Thresholds :
       Below(a, b) <=> \A s : severityWithinThreshold(a, s) = "within"
                              => severityWithinThreshold(b, s) = "within"
<1> SUFFICES ASSUME NEW a \in Thresholds, NEW b \in Thresholds
             PROVE  Below(a, b) <=> \A s : severityWithinThreshold(a, s) = "within"
                                           => severityWithinThreshold(b, s) = "within"
  OBVIOUS
<1>1. ASSUME Below(a, b), NEW s, severityWithinThreshold(a, s) = "within"
      PROVE  severityWithinThreshold(b, s) = "within"
  BY <1>1, WithinIs, SeverityValues, ThresholdNames DEF Below
<1>2. ASSUME ~Below(a, b) PROVE \E s : /\ severityWithinThreshold(a, s) = "within"
                                       /\ severityWithinThreshold(b, s) # "within"
  <2>1. a # BlockAll /\ b # AllowAll  BY <1>2 DEF Below
  <2>2. CASE a = AllowAll
    <3>1. "" \notin SeverityName  BY DEF SeverityName
    <3>2. severityWithinThreshold(a, "") = "within" /\ severityWithinThreshold(b, "") # "within"
      BY <2>1, <2>2, <3>1, WithinIs
    <3> QED  BY <3>2
  <2>3. CASE a # AllowAll
    <3>1. a \in SeverityName  BY <2>1, <2>3 DEF Thresholds
    <3>2. severityWithinThreshold(a, a) = "within"  BY <2>1, <3>1, WithinIs, SeverityValues
    <3>3. severityWithinThreshold(b, a) # "within"
      BY <1>2, <2>1, <3>1, WithinIs, SeverityValues DEF Below
    <3> QED  BY <3>2, <3>3
  <2> QED  BY <2>2, <2>3
<1> QED  BY <1>1, <1>2

\* One turn of the loop over the vulnerabilities accepts no more under the
\* stricter policy.
LEMMA StricterVulnerability ==
    ASSUME NEW p, NEW q, Stricter(p, q), NEW v, checkVulnerability(p, v) = "within"
    PROVE  checkVulnerability(q, v) = "within"
<1>1. CASE v.CVE \in q.AllowlistCVEs  BY <1>1 DEF checkVulnerability
<1>2. CASE v.CVE \notin q.AllowlistCVEs
  <2>1. v.CVE \notin p.AllowlistCVEs  BY <1>2 DEF Stricter
  <2>2. PICK a, b : /\ a = IF v.HasFixAvailable THEN maxSev(p) ELSE maxNoFixSev(p)
                    /\ b = IF v.HasFixAvailable THEN maxSev(q) ELSE maxNoFixSev(q)
    OBVIOUS
  <2>3. Below(a, b)  BY <2>2 DEF Stricter
  <2>4. severityWithinThreshold(a, v.Severity) = "within"  BY <2>1, <2>2 DEF checkVulnerability
  <2>5. severityWithinThreshold(b, v.Severity) = "within"
    BY <2>3, <2>4, WithinIs, SeverityValues, ThresholdNames DEF Below
  <2> QED  BY <1>2, <2>2, <2>5 DEF checkVulnerability
<1> QED  BY <1>1, <1>2

LEMMA CleanIs ==
    ASSUME NEW p, NEW V
    PROVE  validateVulnz(p, V) = "clean" <=> \A v \in V : checkVulnerability(p, v) = "within"
<1>1. \A v : checkVulnerability(p, v) \in {"within", "beyond", "error"}
  <2>1. \A a, s : severityWithinThreshold(a, s) \in {"within", "beyond", "error"}
    <3>1. ASSUME NEW a, NEW s PROVE severityWithinThreshold(a, s) \in {"within", "beyond", "error"}
      <4>1. CASE a = BlockAll  BY <4>1, ThresholdNames DEF severityWithinThreshold
      <4>2. CASE a = AllowAll  BY <4>2, ThresholdNames DEF severityWithinThreshold
      <4>3. CASE a # BlockAll /\ a # AllowAll  BY <4>3 DEF severityWithinThreshold
      <4> QED  BY <4>1, <4>2, <4>3
    <3> QED  BY <3>1
  <2> QED  BY <2>1 DEF checkVulnerability
<1>2. CASE \E v \in V : checkVulnerability(p, v) = "error"
  BY <1>2 DEF validateVulnz
<1>3. CASE ~\E v \in V : checkVulnerability(p, v) = "error"
  <2>1. validateVulnz(p, V) = IF Violations(p, V) = {} THEN "clean" ELSE "violation"
    BY <1>3 DEF validateVulnz
  <2> QED  BY <1>1, <1>3, <2>1 DEF Violations
<1> QED  BY <1>2, <1>3

\* ValidateImageSecurityPolicy: an image that satisfies a policy satisfies every
\* laxer one, also after a scan that finds fewer vulnerabilities, and does so
\* without an error; whether the image is allowlisted, qualified or scanned.
THEOREM StricterAcceptsLess ==
    \A p, q, image, ok : \A V : \A W \in SUBSET V :
       Stricter(p, q) /\ validate(p, image, V, ok) = "clean" => validate(q, image, W, ok) = "clean"
<1> SUFFICES ASSUME NEW p, NEW q, NEW image, NEW ok, NEW V, NEW W \in SUBSET V,
                    Stricter(p, q), validate(p, image, V, ok) = "clean"
             PROVE  validate(q, image, W, ok) = "clean"
  OBVIOUS
<1>1. CASE image \in q.ImageAllowlist
  BY <1>1 DEF validate, vulnerabilityCall
<1>2. CASE image \notin q.ImageAllowlist
  <2>1. image \notin p.ImageAllowlist  BY <1>2 DEF Stricter
  <2>2. image \in FullyQualified  BY <2>1 DEF validate, vulnerabilityCall
  <2>3. ok /\ isServed(image)  BY <2>1, <2>2 DEF validate, vulnerabilityCall
  <2>4. validateVulnz(p, V) = "clean"  BY <2>1, <2>2, <2>3 DEF validate, vulnerabilityCall
  <2>5. validateVulnz(q, W) = "clean"  BY <2>4, CleanIs, StricterVulnerability
  <2> QED  BY <1>2, <2>2, <2>3, <2>5 DEF validate, vulnerabilityCall
<1> QED  BY <1>1, <1>2

=============================================================================
