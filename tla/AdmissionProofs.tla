--------------------------- MODULE AdmissionProofs ---------------------------
(***************************************************************************)
(* Proofs about Admission, for every set of requests, objects, images,     *)
(* policies, authorities and attestations and for any number of failures   *)
(* and edits.  The argument is the invariant of AdmissionInvariant: every  *)
(* step of a goroutine leads to a frame that the history of its request    *)
(* backs, and the steps of the others only add to that history.            *)
(***************************************************************************)
EXTENDS AdmissionInvariant, TLAPS

-----------------------------------------------------------------------------
(* Histories grow, and what they back stays backed.                        *)

Grows(h, k) ==
    /\ h.gaps \subseteq k.gaps /\ h.isps \subseteq k.isps /\ h.auths \subseteq k.auths
    /\ h.work \subseteq k.work /\ h.vulns \subseteq k.vulns /\ h.occs \subseteq k.occs

\* What a history has seen of attestations and scans, a longer one has too.
LEMMA SeenMonotone ==
    ASSUME NEW h, NEW k, Grows(h, k)
    PROVE  /\ \A i, n : seenAttested(h, i, n) => seenAttested(k, i, n)
           /\ \A o, w : seenOwner(h, o, w) => seenOwner(k, o, w)
           /\ \A p, i : seenClean(h, p, i) => seenClean(k, p, i)
<1>1. \A a, i : hasValidatedAttestation(a, h.occs, i) => hasValidatedAttestation(a, k.occs, i)
  BY DEF Grows, hasValidatedAttestation, noteOccurrences
<1>2. \A i, n : seenAttested(h, i, n) => seenAttested(k, i, n)
  BY <1>1 DEF Grows, seenAttested
<1>3. \A o, w : seenOwner(h, o, w) => seenOwner(k, o, w)
  BY DEF Grows, seenOwner
<1>4. \A p, i : seenClean(h, p, i) => seenClean(k, p, i)
  BY DEF Grows, seenClean
<1> QED  BY <1>2, <1>3, <1>4

\* The same for whole lists of policies.
LEMMA PoliciesMonotone ==
    ASSUME NEW h, NEW k, Grows(h, k)
    PROVE  /\ \A G, i : seenGapSatisfied(h, G, i) => seenGapSatisfied(k, G, i)
           /\ \A p, i : seenIspSatisfied(h, p, i) => seenIspSatisfied(k, p, i)
           /\ \A o : seenGapsSatisfied(h, o) => seenGapsSatisfied(k, o)
           /\ \A o : seenIspsSatisfied(h, o) => seenIspsSatisfied(k, o)
<1>1. \A G, i : seenGapSatisfied(h, G, i) => seenGapSatisfied(k, G, i)
  BY SeenMonotone DEF seenGapSatisfied
<1>2. \A p, i : seenIspSatisfied(h, p, i) => seenIspSatisfied(k, p, i)
  BY SeenMonotone DEF seenIspSatisfied
<1>3. \A o : seenGapsSatisfied(h, o) => seenGapsSatisfied(k, o)
  BY <1>1 DEF seenGapsSatisfied, Grows
<1>4. \A o : seenIspsSatisfied(h, o) => seenIspsSatisfied(k, o)
  BY <1>2 DEF seenIspsSatisfied, Grows
<1> QED  BY <1>1, <1>2, <1>3, <1>4

\* A frame that is backed stays backed while others add to its history.
LEMMA GoodMonotone ==
    ASSUME NEW f, NEW h, NEW k, Grows(h, k), Good(f, h)
    PROVE  Good(f, k)
<1> USE SeenMonotone, PoliciesMonotone
<1>1. GoodOwners(f, k)  BY DEF Good, GoodOwners
<1>2. GoodGaps(f, k)    BY DEF Good, GoodGaps, Grows
<1>3. GoodGap(f, k)     BY DEF Good, GoodGap, Grows
<1>4. GoodVerdict(f, k) BY DEF Good, GoodVerdict
<1>5. GoodIsps(f, k)    BY DEF Good, GoodIsps, Grows
<1>6. GoodIsp(f, k)     BY DEF Good, GoodIsp, Grows
<1>7. GoodAttest(f, k)  BY DEF Good, GoodAttest
<1>8. GoodAnswer(f, k)  BY DEF Good, GoodAnswer, Grounds
<1> QED  BY <1>1, <1>2, <1>3, <1>4, <1>5, <1>6, <1>7, <1>8 DEF Good

-----------------------------------------------------------------------------
(* What is true now is a history, and joining histories makes one.         *)

World ==
    /\ clusterGaps \in GapLists /\ clusterIsps \in IspLists
    /\ authorities \subseteq Authorities
    /\ workloads \in [Workloads -> TemplateImages \cup {{}}]
    /\ vulnerabilities \in [Images -> VulnLists]
    /\ occurrences \subseteq AllOccurrences

LEMMA NowIsHistory == World => Now \in History
<1> SUFFICES ASSUME World PROVE Now \in History  OBVIOUS
<1>1. {<<w, workloads[w]>> : w \in Workloads} \subseteq Workloads \X (TemplateImages \cup {{}})
  BY DEF World
<1>2. {<<i, vulnerabilities[i]>> : i \in Images} \subseteq Images \X VulnLists
  BY DEF World
<1> QED  BY <1>1, <1>2 DEF World, Now, History

LEMMA NextNowIsHistory == World' => Now' \in History
<1> SUFFICES ASSUME World' PROVE Now' \in History  OBVIOUS
<1>1. {<<w, workloads'[w]>> : w \in Workloads} \subseteq Workloads \X (TemplateImages \cup {{}})
  BY DEF World
<1>2. {<<i, vulnerabilities'[i]>> : i \in Images} \subseteq Images \X VulnLists
  BY DEF World
<1> QED  BY <1>1, <1>2 DEF World, Now, History, AllOccurrences

LEMMA NowIsCurrent == Current(Now)
BY DEF Current, Now

LEMMA NextNowIsCurrent ==
    ASSUME NEW h, Grows(Now', h)
    PROVE  /\ clusterGaps' \in h.gaps /\ clusterIsps' \in h.isps
           /\ authorities' \subseteq h.auths
           /\ \A w \in Workloads : <<w, workloads'[w]>> \in h.work
           /\ \A i \in Images : <<i, vulnerabilities'[i]>> \in h.vulns
           /\ occurrences' \subseteq h.occs
BY DEF Grows, Now

LEMMA JoinIsHistory ==
    ASSUME NEW h \in History, NEW k \in History
    PROVE  /\ Join(h, k) \in History
           /\ Grows(h, Join(h, k)) /\ Grows(k, Join(h, k))
BY DEF Join, History, Grows

\* A call's outcome only moves the bounds and the debt of its request.
LEMMA CallType ==
    ASSUME TypeOK, NEW r \in Requests, NEW ok \in BOOLEAN, Call(r, ok)
    PROVE  /\ owed' \in [Requests -> BOOLEAN]
           /\ faults' \in 0..MaxFaults /\ edits' \in 0..MaxEdits
<1>1. owed' \in [Requests -> BOOLEAN]  BY Zenon DEF TypeOK, Call
<1>2. faults' \in 0..MaxFaults  BY AdmissionAssumption DEF TypeOK, Call
<1> QED  BY <1>1, <1>2 DEF TypeOK, Call

-----------------------------------------------------------------------------
(* Frames.  A step changes several fields; each keeps the frame one.       *)

LEMMA SetField ==
    ASSUME NEW f \in Frame
    PROVE  /\ \A v \in PC : [f EXCEPT !.pc = v] \in Frame
           /\ \A v \in Objects : [f EXCEPT !.obj = v] \in Frame
           /\ \A v \in BOOLEAN : [f EXCEPT !.allowed = v] \in Frame
           /\ \A v \in {"allowed", "denied", "badRequest", "handlerFailed", "lost"} : [f EXCEPT !.answer = v] \in Frame
           /\ \A v \in SUBSET OwnerRefs : [f EXCEPT !.ownersLeft = v] \in Frame
           /\ \A v \in SUBSET Gaps : [f EXCEPT !.gapList = v] \in Frame
           /\ \A v \in SUBSET (Gaps \X AuthNames) : [f EXCEPT !.toCheck = v] \in Frame
           /\ \A v \in SUBSET Images : [f EXCEPT !.imagesLeft = v] \in Frame
           /\ \A v \in Images : [f EXCEPT !.image = v] \in Frame
           /\ \A v \in SUBSET Gaps : [f EXCEPT !.gapsLeft = v] \in Frame
           /\ \A v \in Gaps : [f EXCEPT !.gap = v] \in Frame
           /\ \A v \in SUBSET AuthNames : [f EXCEPT !.namesLeft = v] \in Frame
           /\ \A v \in SUBSET Authorities : [f EXCEPT !.auths = v] \in Frame
           /\ \A v \in BOOLEAN : [f EXCEPT !.missing = v] \in Frame
           /\ \A v \in SUBSET Images : [f EXCEPT !.badImages = v] \in Frame
           /\ \A v \in SUBSET Isps : [f EXCEPT !.ispList = v] \in Frame
           /\ \A v \in SUBSET Isps : [f EXCEPT !.ispsLeft = v] \in Frame
           /\ \A v \in Isps : [f EXCEPT !.isp = v] \in Frame
           /\ \A v \in SUBSET Images : [f EXCEPT !.attCache = v] \in Frame
           /\ \A v \in {SecretKey[s] : s \in SecretNames} \cup {None} : [f EXCEPT !.key = v] \in Frame
<1>1. \A v \in PC : [f EXCEPT !.pc = v] \in Frame  BY DEF Frame
<1>2. \A v \in Objects : [f EXCEPT !.obj = v] \in Frame  BY DEF Frame
<1>3. \A v \in BOOLEAN : [f EXCEPT !.allowed = v] \in Frame  BY DEF Frame
<1>4. \A v \in {"allowed", "denied", "badRequest", "handlerFailed", "lost"} : [f EXCEPT !.answer = v] \in Frame  BY DEF Frame
<1>5. \A v \in SUBSET OwnerRefs : [f EXCEPT !.ownersLeft = v] \in Frame  BY DEF Frame
<1>6. \A v \in SUBSET Gaps : [f EXCEPT !.gapList = v] \in Frame  BY DEF Frame
<1>7. \A v \in SUBSET (Gaps \X AuthNames) : [f EXCEPT !.toCheck = v] \in Frame  BY DEF Frame
<1>8. \A v \in SUBSET Images : [f EXCEPT !.imagesLeft = v] \in Frame  BY DEF Frame
<1>9. \A v \in Images : [f EXCEPT !.image = v] \in Frame  BY DEF Frame
<1>10. \A v \in SUBSET Gaps : [f EXCEPT !.gapsLeft = v] \in Frame  BY DEF Frame
<1>11. \A v \in Gaps : [f EXCEPT !.gap = v] \in Frame  BY DEF Frame
<1>12. \A v \in SUBSET AuthNames : [f EXCEPT !.namesLeft = v] \in Frame  BY DEF Frame
<1>13. \A v \in SUBSET Authorities : [f EXCEPT !.auths = v] \in Frame  BY DEF Frame
<1>14. \A v \in BOOLEAN : [f EXCEPT !.missing = v] \in Frame  BY DEF Frame
<1>15. \A v \in SUBSET Images : [f EXCEPT !.badImages = v] \in Frame  BY DEF Frame
<1>16. \A v \in SUBSET Isps : [f EXCEPT !.ispList = v] \in Frame  BY DEF Frame
<1>17. \A v \in SUBSET Isps : [f EXCEPT !.ispsLeft = v] \in Frame  BY DEF Frame
<1>18. \A v \in Isps : [f EXCEPT !.isp = v] \in Frame  BY DEF Frame
<1>19. \A v \in SUBSET Images : [f EXCEPT !.attCache = v] \in Frame  BY DEF Frame
<1>20. \A v \in {SecretKey[s] : s \in SecretNames} \cup {None} : [f EXCEPT !.key = v] \in Frame  BY DEF Frame
<1> QED  BY <1>1, <1>2, <1>3, <1>4, <1>5, <1>6, <1>7, <1>8, <1>9, <1>10,
            <1>11, <1>12, <1>13, <1>14, <1>15, <1>16, <1>17, <1>18, <1>19, <1>20

LEMMA FreshFrame == Fresh \in Frame
BY DEF Fresh, Frame, PC

LEMMA DeniedFrame ==
    ASSUME NEW f \in Frame
    PROVE  /\ Denied(f) \in Frame /\ ~Denied(f).allowed
           /\ Denied(f).obj = f.obj /\ Denied(f).answer = f.answer
BY DEF Denied, Frame

-----------------------------------------------------------------------------
(* One step of a goroutine, as the invariant sees it: it leads to a frame  *)
(* that its history backs, never from a denial to an admission.            *)

Lands(r, f) ==
    /\ f \in Frame
    /\ Good(f, seen[r])
    /\ f.allowed => loc[r].allowed
    /\ f.obj = loc[r].obj /\ f.answer \in {None, "allowed", "denied"}

Advances(r) ==
    /\ \E f : Lands(r, f) /\ Step(r, f)
    /\ Active(r)
    /\ UNCHANGED <<cluster, vulnerabilities, occurrences, seen>>
    /\ notes' \subseteq Notes
    /\ owed' \in [Requests -> BOOLEAN]
    /\ faults' \in 0..MaxFaults /\ edits' \in 0..MaxEdits

LEMMA AdvanceKeepsIInv ==
    ASSUME IInv, NEW r \in Requests, Advances(r)
    PROVE  IInv'
<1> PICK f : Lands(r, f) /\ Step(r, f)  BY DEF Advances
<1>1. loc' \in [Requests -> Frame]  BY DEF Lands, Step, IInv, TypeOK
<1>2. TypeOK'  BY <1>1 DEF TypeOK, IInv, Advances, cluster, AllOccurrences
<1>3. ASSUME NEW q \in Requests, Active(q)' PROVE Current(seen[q])'
  <2>1. Active(q)  BY <1>3 DEF Advances, Active, Step, IInv, TypeOK
  <2> QED  BY <2>1 DEF IInv, Current, Advances, cluster
<1>4. ASSUME NEW q \in Requests PROVE Good(loc[q], seen[q])'
  <2>1. loc'[q] = IF q = r THEN f ELSE loc[q]  BY DEF Step, IInv, TypeOK
  <2>2. seen' = seen  BY DEF Advances
  <2>3. Good(loc'[q], seen[q])  BY <2>1 DEF Lands, IInv
  <2> QED  BY <2>2, <2>3 DEF Good, GoodObject
<1> QED  BY <1>2, <1>3, <1>4 DEF IInv

-----------------------------------------------------------------------------
(* The ways out of the handler.                                            *)

\* A response leaves nothing for the invariant to look after but its grounds.
LEMMA AnsweredGood ==
    ASSUME NEW f \in Frame, f.obj \in Objects, NEW h,
           NEW how \in {"allowed", "denied", "badRequest", "handlerFailed", "lost"},
           how = "allowed" => f.allowed /\ Grounds(h, f.obj),
           how = "denied" => ~f.allowed
    PROVE  /\ Answered(f, how) \in Frame /\ Good(Answered(f, how), h)
           /\ Answered(f, how).allowed = f.allowed /\ Answered(f, how).pc = "done"
           /\ Answered(f, how).answer = how /\ Answered(f, how).obj = f.obj
<1> DEFINE g == Answered(f, how)
<1>0. Fresh \in Frame  BY FreshFrame
<1>1. g \in Frame
  <2>1. "done" \in PC /\ f.allowed \in BOOLEAN  BY DEF PC, Frame
  <2>2. [Fresh EXCEPT !.pc = "done", !.obj = f.obj] \in Frame  BY <2>1, <1>0, SetField
  <2>3. [Fresh EXCEPT !.pc = "done", !.obj = f.obj, !.allowed = f.allowed] \in Frame
    BY <2>1, <2>2, SetField
  <2> QED  BY <2>3, SetField DEF Answered
<1>2. g.pc = "done" /\ g.obj = f.obj /\ g.allowed = f.allowed /\ g.answer = how
  BY <1>0 DEF Answered, Frame
<1> HIDE DEF g
<1>3. GoodObject(g)  BY <1>2, AdmissionAssumption DEF GoodObject
<1>4. GoodOwners(g, h) /\ GoodVerdict(g, h)
  BY <1>2 DEF GoodOwners, GoodVerdict, IspPC, IspImagePC
<1>5. GoodGaps(g, h) /\ GoodGap(g, h)
  BY <1>2 DEF GoodGaps, GoodGap, GapPC, GapImagePC
<1>6. GoodIsps(g, h) /\ GoodIsp(g, h) /\ GoodAttest(g, h)
  BY <1>2 DEF GoodIsps, GoodIsp, GoodAttest, IspPC, IspImagePC, AttestPC
<1>7. GoodAnswer(g, h)  BY <1>2 DEF GoodAnswer
<1> QED  BY <1>1, <1>2, <1>3, <1>4, <1>5, <1>6, <1>7 DEF Good, g

LEMMA AnsweredLands ==
    ASSUME NEW r, NEW f \in Frame, f.obj \in Objects, f.obj = loc[r].obj,
           f.allowed => loc[r].allowed, NEW how \in {"allowed", "denied"},
           how = "allowed" => f.allowed /\ Grounds(seen[r], f.obj),
           how = "denied" => ~f.allowed
    PROVE  Lands(r, Answered(f, how))
BY AnsweredGood DEF Lands

\* A denial needs no grounds.
LEMMA DeniedLands ==
    ASSUME IInv, NEW r \in Requests, Active(r)
    PROVE  Lands(r, Respond(Denied(loc[r])))
<1>1. loc[r] \in Frame /\ loc[r].obj \in Objects
  BY DEF IInv, TypeOK, Good, GoodObject, Active
<1>2. Denied(loc[r]) \in Frame /\ Denied(loc[r]).obj = loc[r].obj /\ ~Denied(loc[r]).allowed
  BY <1>1, DeniedFrame
<1> QED  BY <1>1, <1>2, AnsweredLands DEF Respond

\* An admission needs them unless the response is already a denial.
LEMMA RespondLands ==
    ASSUME IInv, NEW r \in Requests, Active(r),
           loc[r].allowed => Grounds(seen[r], loc[r].obj)
    PROVE  Lands(r, Respond(loc[r]))
<1>1. loc[r] \in Frame /\ loc[r].obj \in Objects
  BY DEF IInv, TypeOK, Good, GoodObject, Active
<1> QED  BY <1>1, AnsweredLands DEF Respond, Frame

\* The end of the review of the generic attestation policies.
LEMMA GapsDoneLands ==
    ASSUME IInv, NEW r \in Requests, loc[r].pc \in GapPC,
           NEW f \in {loc[r], Denied(loc[r])},
           f.allowed => seenGapsSatisfied(seen[r], f.obj)
    PROVE  Lands(r, gapsDone(f))
<1> DEFINE g == gapsDone(f)
<1>1. loc[r] \in Frame /\ loc[r].obj \in Objects /\ loc[r].answer = None
  BY DEF IInv, TypeOK, Good, GoodObject, GapPC
<1>2. f \in Frame /\ f.obj = loc[r].obj /\ (f.allowed => loc[r].allowed) /\ f.answer = None
  BY <1>1, DeniedFrame
<1>3. g \in Frame
  <2>1. "ispList" \in PC /\ f.allowed \in BOOLEAN  BY <1>2 DEF PC, Frame
  <2> QED  BY <2>1, <1>1, <1>2, FreshFrame, SetField DEF gapsDone
<1>4. g.pc = "ispList" /\ g.obj = f.obj /\ g.allowed = f.allowed /\ g.answer = None
  BY <1>2, FreshFrame DEF gapsDone, Frame, Fresh
<1> HIDE DEF g
<1>5. GoodObject(g) /\ GoodAnswer(g, seen[r])
  BY <1>1, <1>2, <1>4, AdmissionAssumption DEF GoodObject, GoodAnswer
<1>6. GoodOwners(g, seen[r]) /\ GoodVerdict(g, seen[r])
  BY <1>4 DEF GoodOwners, GoodVerdict
<1>7. GoodGaps(g, seen[r]) /\ GoodGap(g, seen[r])
  BY <1>4 DEF GoodGaps, GoodGap, GapPC, GapImagePC
<1>8. GoodIsps(g, seen[r]) /\ GoodIsp(g, seen[r]) /\ GoodAttest(g, seen[r])
  BY <1>4 DEF GoodIsps, GoodIsp, GoodAttest, IspPC, IspImagePC, AttestPC
<1> QED  BY <1>2, <1>3, <1>4, <1>5, <1>6, <1>7, <1>8 DEF Lands, Good, g

LEMMA GapsFailedLands ==
    ASSUME IInv, NEW r \in Requests, loc[r].pc \in GapPC
    PROVE  Lands(r, gapsFailed(loc[r]))
<1>1. loc[r] \in Frame  BY DEF IInv, TypeOK
<1>2. ~Denied(loc[r]).allowed  BY <1>1, DeniedFrame
<1> QED  BY <1>2, GapsDoneLands DEF gapsFailed

-----------------------------------------------------------------------------
(* Which parts of the invariant matter in which phase.                     *)

LEMMA GapPhase ==
    ASSUME NEW f, NEW h, f.pc \in GapPC, f.obj \in Objects, f.answer = None,
           GoodGaps(f, h), GoodGap(f, h)
    PROVE  Good(f, h)
<1>1. GoodObject(f) /\ GoodAnswer(f, h)
  BY AdmissionAssumption DEF GapPC, GoodObject, GoodAnswer
<1>2. GoodOwners(f, h) /\ GoodVerdict(f, h)
  BY DEF GapPC, GoodOwners, GoodVerdict, IspPC, IspImagePC
<1>3. GoodIsps(f, h) /\ GoodIsp(f, h) /\ GoodAttest(f, h)
  BY DEF GapPC, GoodIsps, GoodIsp, GoodAttest, IspPC, IspImagePC, AttestPC
<1> QED  BY <1>1, <1>2, <1>3 DEF Good

LEMMA IspPhase ==
    ASSUME NEW f, NEW h, f.pc \in {"ispList", "ispClient", "ispNext"} \cup IspPC,
           f.obj \in Objects, f.answer = None, f.allowed => seenGapsSatisfied(h, f.obj),
           GoodIsps(f, h), GoodIsp(f, h), GoodAttest(f, h)
    PROVE  Good(f, h)
<1>1. GoodObject(f) /\ GoodAnswer(f, h)
  BY AdmissionAssumption DEF IspPC, IspImagePC, GoodObject, GoodAnswer
<1>2. GoodOwners(f, h) /\ GoodVerdict(f, h)
  BY DEF GoodOwners, GoodVerdict, IspPC, IspImagePC
<1>3. GoodGaps(f, h) /\ GoodGap(f, h)
  BY DEF GoodGaps, GoodGap, GapPC, GapImagePC, IspPC, IspImagePC
<1> QED  BY <1>1, <1>2, <1>3 DEF Good

LEMMA OwnersPhase ==
    ASSUME NEW f, NEW h, f.pc \in {"owners", "gapList"},
           f.obj \in Objects, f.answer = None, GoodOwners(f, h)
    PROVE  Good(f, h)
<1>1. GoodObject(f) /\ GoodAnswer(f, h)
  BY AdmissionAssumption DEF GoodObject, GoodAnswer
<1>2. GoodVerdict(f, h)  BY DEF GoodVerdict, IspPC, IspImagePC
<1>3. GoodGaps(f, h) /\ GoodGap(f, h)
  BY DEF GoodGaps, GoodGap, GapPC, GapImagePC
<1>4. GoodIsps(f, h) /\ GoodIsp(f, h) /\ GoodAttest(f, h)
  BY DEF GoodIsps, GoodIsp, GoodAttest, IspPC, IspImagePC, AttestPC
<1> QED  BY <1>1, <1>2, <1>3, <1>4 DEF Good

\* What the invariant says of a goroutine at work.
LEMMA AtWork ==
    ASSUME IInv, NEW r \in Requests, Active(r)
    PROVE  /\ loc[r] \in Frame /\ loc[r].obj \in Objects /\ loc[r].answer = None
           /\ loc[r].obj.images \subseteq Images
           /\ seen[r] \in History /\ Current(seen[r])
BY AdmissionAssumption DEF IInv, TypeOK, Good, GoodObject, Active

\* A step with a call, or without one, that leaves the world alone.
LEMMA CallAdvances ==
    ASSUME IInv, NEW r \in Requests, Active(r), NEW ok \in BOOLEAN, NEW f,
           Call(r, ok) \/ NoCall, Step(r, f), Lands(r, f),
           UNCHANGED <<cluster, metadata, seen>>
    PROVE  Advances(r)
<1>1. TypeOK  BY DEF IInv
<1>2. /\ owed' \in [Requests -> BOOLEAN]
      /\ faults' \in 0..MaxFaults /\ edits' \in 0..MaxEdits
  <2>1. CASE Call(r, ok)  BY <1>1, <2>1, CallType
  <2>2. CASE NoCall  BY <1>1, <2>2 DEF TypeOK, NoCall, bounds
  <2> QED  BY <2>1, <2>2
<1>3. notes' \subseteq Notes  BY <1>1 DEF TypeOK, metadata
<1>4. UNCHANGED <<cluster, vulnerabilities, occurrences, seen>>  BY DEF metadata
<1>5. \E g : Lands(r, g) /\ Step(r, g)  OBVIOUS
<1> QED  BY <1>2, <1>3, <1>4, <1>5 DEF Advances

-----------------------------------------------------------------------------
(* The owners and the generic attestation policies.                        *)

\* Where the handler goes when the owners do not settle the matter.
LEMMA AfterOwnersGood ==
    ASSUME NEW f \in Frame, f.obj \in Objects, f.answer = None, f.allowed, NEW h
    PROVE  /\ afterOwners(f) \in Frame /\ Good(afterOwners(f), h)
           /\ afterOwners(f).obj = f.obj /\ afterOwners(f).answer \in {None, "allowed"}
<1>1. CASE f.obj.breakglass
  <2>1. Grounds(h, f.obj)  BY <1>1 DEF Grounds
  <2> QED  BY <1>1, <2>1, AnsweredGood DEF afterOwners, Respond
<1>2. CASE ~f.obj.breakglass
  <2> DEFINE g == [f EXCEPT !.pc = "gapList"]
  <2>1. "gapList" \in PC  BY DEF PC
  <2>2. g \in Frame  BY <2>1, SetField
  <2>3. g.pc = "gapList" /\ g.obj = f.obj /\ g.answer = None  BY DEF Frame
  <2> HIDE DEF g
  <2>4. Good(g, h)  BY <2>3, OwnersPhase DEF GoodOwners
  <2> QED  BY <1>2, <2>2, <2>3, <2>4 DEF afterOwners, g
<1> QED  BY <1>1, <1>2

LEMMA CheckOwnerAdvances ==
    ASSUME IInv, NEW r \in Requests, CheckOwner(r)
    PROVE  Advances(r)
<1> DEFINE f == loc[r]
<1>1. Active(r)  BY DEF CheckOwner, Active
<1>2. /\ f \in Frame /\ f.obj \in Objects /\ f.answer = None /\ Current(seen[r])
      /\ f.obj.owners # {} /\ \A w \in f.obj.owners \ f.ownersLeft : seenOwner(seen[r], f.obj, w)
      /\ f.allowed
  BY <1>1, AtWork DEF CheckOwner, IInv, Good, GoodOwners
<1> DEFINE valid(w, ok) == /\ ok /\ w.kind \in handlers /\ workloads[w.name] # {}
                           /\ imagesAreValid(f.obj.images, workloads[w.name])
           rest == [f EXCEPT !.ownersLeft = {}]
<1>3. PICK w \in f.ownersLeft, ok \in BOOLEAN :
         /\ Call(r, ok)
         /\ Step(r, CASE ~valid(w, ok) -> afterOwners(rest)
                      [] valid(w, ok) /\ f.ownersLeft = {w} -> Respond(f)
                      [] OTHER -> [f EXCEPT !.ownersLeft = @ \ {w}])
  BY DEF CheckOwner
<1>4. UNCHANGED <<cluster, metadata, seen>>  BY DEF CheckOwner
<1>5. CASE ~valid(w, ok)
  <2>1. rest \in Frame /\ rest.obj = f.obj /\ rest.allowed = f.allowed /\ rest.answer = None
    <3>1. f \in Frame /\ f.answer = None  BY <1>2
    <3> QED  BY <3>1 DEF Frame
  <2>2. Lands(r, afterOwners(rest))  BY <1>2, <2>1, AfterOwnersGood DEF Lands
  <2>3. Step(r, afterOwners(rest))  BY <1>3, <1>5
  <2> QED  BY <1>1, <1>3, <1>4, <2>2, <2>3, CallAdvances
<1>6. CASE valid(w, ok)
  <2>1. seenOwner(seen[r], f.obj, w)
    <3>1. w.name \in Workloads  BY <1>2, AdmissionAssumption DEF Frame
    <3>2. <<w.name, workloads[w.name]>> \in seen[r].work  BY <1>2, <3>1 DEF Current
    <3> QED  BY <1>6, <3>2 DEF seenOwner
  <2>2. CASE f.ownersLeft = {w}
    <3>1. Grounds(seen[r], f.obj)  BY <1>2, <2>1, <2>2 DEF Grounds
    <3>2. Lands(r, Respond(f))  BY <1>1, <3>1, RespondLands
    <3>3. Step(r, Respond(f))  BY <1>3, <1>6, <2>2
    <3> QED  BY <1>1, <1>3, <1>4, <3>2, <3>3, CallAdvances
  <2>3. CASE f.ownersLeft # {w}
    <3> DEFINE g == [f EXCEPT !.ownersLeft = @ \ {w}]
    <3>1. g \in Frame  BY <1>2 DEF Frame
    <3>2. /\ g.pc = "owners" /\ g.obj = f.obj /\ g.allowed = f.allowed /\ g.answer = None
          /\ g.ownersLeft = f.ownersLeft \ {w}
      BY <1>2 DEF Frame, CheckOwner
    <3>3. Step(r, g)  BY <1>3, <1>6, <2>3
    <3> HIDE DEF g
    <3>4. GoodOwners(g, seen[r])
      <4>1. \A v \in g.obj.owners \ g.ownersLeft : v = w \/ v \in f.obj.owners \ f.ownersLeft
        BY <3>2
      <4> QED  BY <1>2, <2>1, <3>2, <4>1 DEF GoodOwners
    <3>5. Lands(r, g)  BY <1>2, <3>1, <3>2, <3>4, OwnersPhase DEF Lands
    <3> QED  BY <1>1, <1>3, <1>4, <3>3, <3>5, CallAdvances
  <2> QED  BY <2>2, <2>3
<1> QED  BY <1>5, <1>6

LEMMA FetchGAPsAdvances ==
    ASSUME IInv, NEW r \in Requests, FetchGAPs(r)
    PROVE  Advances(r)
<1> DEFINE f == loc[r]
           g == [f EXCEPT !.gapList = clusterGaps,
                          !.pc = IF clusterGaps = {} THEN "ispList" ELSE "gapClient"]
<1>1. Active(r)  BY DEF FetchGAPs, Active
<1>2. f \in Frame /\ f.obj \in Objects /\ f.answer = None /\ Current(seen[r])
  BY <1>1, AtWork
<1>3. PICK ok \in BOOLEAN : /\ Call(r, ok)
                            /\ Step(r, IF ~ok THEN Respond(Denied(f)) ELSE g)
  BY DEF FetchGAPs
<1>4. UNCHANGED <<cluster, metadata, seen>>  BY DEF FetchGAPs
<1>5. Lands(r, Respond(Denied(f)))  BY <1>1, DeniedLands
<1>6. Lands(r, g)
  <2>1. /\ "ispList" \in PC /\ "gapClient" \in PC
        /\ clusterGaps \in SUBSET Gaps /\ clusterGaps \in seen[r].gaps
    BY <1>2 DEF PC, IInv, TypeOK, Gaps, Current
  <2>2. g \in Frame  BY <1>2, <2>1, SetField
  <2>3. /\ g.pc = IF clusterGaps = {} THEN "ispList" ELSE "gapClient"
        /\ g.gapList = clusterGaps
        /\ g.obj = f.obj /\ g.allowed = f.allowed /\ g.answer = None
    BY <1>2 DEF Frame
  <2> HIDE DEF g
  <2>4. CASE clusterGaps = {}
    <3>1. seenGapsSatisfied(seen[r], g.obj)  BY <2>1, <2>4 DEF seenGapsSatisfied
    <3>2. GoodIsps(g, seen[r]) /\ GoodIsp(g, seen[r]) /\ GoodAttest(g, seen[r])
      BY <2>3, <2>4 DEF GoodIsps, GoodIsp, GoodAttest, IspPC, IspImagePC, AttestPC
    <3> QED  BY <1>2, <2>2, <2>3, <2>4, <3>1, <3>2, IspPhase DEF Lands
  <2>5. CASE clusterGaps # {}
    <3>1. GoodGaps(g, seen[r]) /\ GoodGap(g, seen[r])
      BY <2>1, <2>3, <2>5 DEF GoodGaps, GoodGap, GapPC, GapImagePC
    <3>2. g.pc \in GapPC  BY <2>3, <2>5 DEF GapPC
    <3> QED  BY <1>2, <2>2, <2>3, <3>1, <3>2, GapPhase DEF Lands
  <2> QED  BY <2>4, <2>5
<1> HIDE DEF g
<1> QED  BY <1>1, <1>3, <1>4, <1>5, <1>6, CallAdvances

LEMMA GapClientAdvances ==
    ASSUME IInv, NEW r \in Requests, GapClient(r)
    PROVE  Advances(r)
<1> DEFINE f == loc[r]
           g == [f EXCEPT !.pc = "gapCheck", !.toCheck =
                    UNION {{p} \X p.AttestationAuthorityNames : p \in f.gapList}]
           malformed == \E p \in f.gapList : p.AttestationAuthorityNames = {}
<1>1. Active(r) /\ f.pc \in GapPC  BY DEF GapClient, Active, GapPC
<1>2. /\ f \in Frame /\ f.obj \in Objects /\ f.answer = None
      /\ f.gapList \in seen[r].gaps /\ f.gapList # {}
  BY <1>1, AtWork DEF IInv, Good, GoodGaps
<1>3. PICK ok \in BOOLEAN : /\ Call(r, ok)
                            /\ Step(r, IF ~ok \/ malformed THEN gapsFailed(f) ELSE g)
  BY DEF GapClient
<1>4. UNCHANGED <<cluster, metadata, seen>>  BY DEF GapClient
<1>5. Lands(r, gapsFailed(f))  BY <1>1, GapsFailedLands
<1>6. ASSUME ~malformed PROVE Lands(r, g)
  <2>1. "gapCheck" \in PC  BY DEF PC
  <2>2. g.toCheck \in SUBSET (Gaps \X AuthNames)
    <3>1. g.toCheck = UNION {{p} \X p.AttestationAuthorityNames : p \in f.gapList}
      BY <1>2 DEF Frame
    <3>2. \A p \in f.gapList : p \in Gaps /\ p.AttestationAuthorityNames \subseteq AuthNames
      BY <1>2, AdmissionAssumption DEF Frame
    <3> QED  BY <3>1, <3>2
  <2>3. /\ g.pc = "gapCheck" /\ g.gapList = f.gapList
        /\ g.obj = f.obj /\ g.allowed = f.allowed /\ g.answer = None
    BY <1>2 DEF Frame
  <2>4. g \in Frame
    <3>1. g.toCheck = UNION {{p} \X p.AttestationAuthorityNames : p \in f.gapList}
      BY <1>2 DEF Frame
    <3> QED  BY <1>2, <2>1, <2>2, <3>1, SetField
  <2> HIDE DEF g
  <2>5. GoodGaps(g, seen[r]) /\ GoodGap(g, seen[r])
    BY <1>2, <1>6, <2>3 DEF GoodGaps, GoodGap, GapPC, GapImagePC
  <2>6. g.pc \in GapPC  BY <2>3 DEF GapPC
  <2> QED  BY <1>2, <2>3, <2>4, <2>5, <2>6, GapPhase DEF Lands
<1> HIDE DEF g, malformed
<1> QED  BY <1>1, <1>3, <1>4, <1>5, <1>6, CallAdvances

LEMMA CheckGAPsAdvances ==
    ASSUME IInv, NEW r \in Requests, CheckGAPs(r)
    PROVE  Advances(r)
<1> DEFINE f == loc[r]
           more(c) == [f EXCEPT !.toCheck = @ \ {c}]
           g == [f EXCEPT !.pc = "gapImage", !.toCheck = {},
                          !.imagesLeft = gapReviewed(f.obj.images, f.gapList)]
<1>1. Active(r) /\ f.pc = "gapCheck" /\ f.pc \in GapPC  BY DEF CheckGAPs, Active, GapPC
<1>2. /\ f \in Frame /\ f.obj \in Objects /\ f.answer = None /\ f.obj.images \subseteq Images
      /\ f.gapList \in seen[r].gaps /\ f.gapList # {}
      /\ \A p \in f.gapList : p.AttestationAuthorityNames # {}
  BY <1>1, AtWork DEF IInv, Good, GoodGaps
<1>3. PICK c \in f.toCheck, ok \in BOOLEAN :
         /\ Call(r, ok)
         /\ Step(r, CASE ~ok \/ ~exists(c[2]) -> gapsFailed(f)
                      [] ok /\ exists(c[2]) /\ f.toCheck # {c} -> more(c)
                      [] OTHER -> g)
  BY DEF CheckGAPs
<1>4. UNCHANGED <<cluster, metadata, seen>>  BY DEF CheckGAPs
<1>5. Lands(r, gapsFailed(f))  BY <1>1, GapsFailedLands
<1>6. Lands(r, more(c))
  <2>1. more(c) \in Frame  BY <1>2 DEF Frame
  <2>2. /\ more(c).pc = "gapCheck" /\ more(c).gapList = f.gapList
        /\ more(c).obj = f.obj /\ more(c).allowed = f.allowed /\ more(c).answer = None
    BY <1>1, <1>2 DEF Frame
  <2> HIDE DEF more
  <2>3. GoodGaps(more(c), seen[r]) /\ GoodGap(more(c), seen[r])
    BY <1>2, <2>2 DEF GoodGaps, GoodGap, GapPC, GapImagePC
  <2>4. more(c).pc \in GapPC  BY <2>2 DEF GapPC
  <2> QED  BY <1>2, <2>1, <2>2, <2>3, <2>4, GapPhase DEF Lands
<1>7. Lands(r, g)
  <2>1. "gapImage" \in PC /\ gapReviewed(f.obj.images, f.gapList) \in SUBSET Images
    BY <1>2 DEF PC, gapReviewed, notGloballyAllowed
  <2>2. g \in Frame  BY <1>2, <2>1, SetField
  <2>3. /\ g.pc = "gapImage" /\ g.gapList = f.gapList
        /\ g.imagesLeft = gapReviewed(g.obj.images, g.gapList)
        /\ g.obj = f.obj /\ g.allowed = f.allowed /\ g.answer = None
    BY <1>2 DEF Frame
  <2> HIDE DEF g
  <2>4. GoodGaps(g, seen[r]) /\ GoodGap(g, seen[r])
    BY <1>2, <2>3 DEF GoodGaps, GoodGap, GapPC, GapImagePC
  <2>5. g.pc \in GapPC  BY <2>3 DEF GapPC
  <2> QED  BY <1>2, <2>2, <2>3, <2>4, <2>5, GapPhase DEF Lands
<1> HIDE DEF g, more
<1>8. \E x : Step(r, x) /\ Lands(r, x)  BY <1>3, <1>5, <1>6, <1>7
<1> QED  BY <1>1, <1>3, <1>4, <1>8, CallAdvances

LEMMA GapImageAdvances ==
    ASSUME IInv, NEW r \in Requests, GapImage(r)
    PROVE  Advances(r)
<1> DEFINE f == loc[r]
           g(i) == [f EXCEPT !.pc = "gapNext", !.image = i,
                             !.imagesLeft = @ \ {i}, !.gapsLeft = f.gapList]
<1>1. Active(r) /\ f.pc = "gapImage" /\ f.pc \in GapPC  BY DEF GapImage, Active, GapPC
<1>2. /\ f \in Frame /\ f.obj \in Objects /\ f.answer = None
      /\ f.gapList \in seen[r].gaps /\ f.gapList # {}
      /\ \A p \in f.gapList : p.AttestationAuthorityNames # {}
      /\ \A i \in gapReviewed(f.obj.images, f.gapList) \ (f.imagesLeft \cup f.badImages) :
            seenGapSatisfied(seen[r], f.gapList, i)
  BY <1>1, AtWork DEF IInv, Good, GoodGaps, GapImagePC
<1>3. UNCHANGED <<cluster, metadata, seen>> /\ NoCall  BY DEF GapImage
<1>4. CASE f.imagesLeft = {} /\ Step(r, IF f.badImages = {} THEN gapsDone(f) ELSE gapsFailed(f))
  <2>1. CASE f.badImages = {}
    <3>1. seenGapsSatisfied(seen[r], f.obj)  BY <1>2, <1>4, <2>1 DEF seenGapsSatisfied
    <3>2. Lands(r, gapsDone(f))  BY <1>1, <3>1, GapsDoneLands
    <3> QED  BY <1>1, <1>3, <1>4, <2>1, <3>2, CallAdvances
  <2>2. CASE f.badImages # {}
    <3>1. Lands(r, gapsFailed(f))  BY <1>1, GapsFailedLands
    <3> QED  BY <1>1, <1>3, <1>4, <2>2, <3>1, CallAdvances
  <2> QED  BY <2>1, <2>2
<1>5. ASSUME NEW i \in f.imagesLeft, Step(r, g(i)) PROVE Advances(r)
  <2>1. "gapNext" \in PC /\ i \in Images /\ f.gapList \in SUBSET Gaps
        /\ f.imagesLeft \ {i} \in SUBSET Images
    BY <1>2 DEF PC, Frame
  <2>2. [f EXCEPT !.pc = "gapNext", !.image = i] \in Frame  BY <1>2, <2>1, SetField
  <2>3. /\ g(i).pc = "gapNext" /\ g(i).gapList = f.gapList /\ g(i).image = i
        /\ g(i).imagesLeft = f.imagesLeft \ {i} /\ g(i).badImages = f.badImages
        /\ g(i).gapsLeft = f.gapList
        /\ g(i).obj = f.obj /\ g(i).allowed = f.allowed /\ g(i).answer = None
    BY <1>2 DEF Frame
  <2>4. g(i) \in Frame
    <3>1. [f EXCEPT !.pc = "gapNext", !.image = i].imagesLeft = f.imagesLeft  BY <1>2 DEF Frame
    <3> QED  BY <2>1, <2>2, <3>1, SetField
  <2> HIDE DEF g
  <2>5. GoodGaps(g(i), seen[r]) /\ GoodGap(g(i), seen[r])
    BY <1>2, <2>1, <2>3 DEF GoodGaps, GoodGap, GapPC, GapImagePC
  <2>6. g(i).pc \in GapPC  BY <2>3 DEF GapPC
  <2>7. Lands(r, g(i))  BY <1>2, <2>3, <2>4, <2>5, <2>6, GapPhase DEF Lands
  <2> QED  BY <1>1, <1>3, <1>5, <2>7, CallAdvances
<1> QED  BY <1>4, <1>5 DEF GapImage

LEMMA GapNextAdvances ==
    ASSUME IInv, NEW r \in Requests, GapNext(r)
    PROVE  Advances(r)
<1> DEFINE f == loc[r]
           bad == [f EXCEPT !.pc = "gapImage", !.badImages = @ \cup {f.image}]
           g(p) == [f EXCEPT !.pc = "gapAuths", !.gap = p, !.gapsLeft = @ \ {p},
                             !.namesLeft = p.AttestationAuthorityNames,
                             !.auths = {}, !.missing = FALSE]
<1>1. Active(r) /\ f.pc = "gapNext" /\ f.pc \in GapPC  BY DEF GapNext, Active, GapPC
<1>2. /\ f \in Frame /\ f.obj \in Objects /\ f.answer = None
      /\ f.gapList \in seen[r].gaps /\ f.gapList # {}
      /\ \A p \in f.gapList : p.AttestationAuthorityNames # {}
      /\ \A i \in gapReviewed(f.obj.images, f.gapList) \ (f.imagesLeft \cup f.badImages) :
            i = f.image \/ seenGapSatisfied(seen[r], f.gapList, i)
      /\ f.image \in Images /\ f.gapsLeft \subseteq f.gapList
  BY <1>1, AtWork DEF IInv, Good, GoodGaps, GapImagePC
<1>3. UNCHANGED <<cluster, metadata, seen>> /\ NoCall  BY DEF GapNext
<1>4. ASSUME Step(r, bad) PROVE Advances(r)
  <2>1. "gapImage" \in PC /\ f.badImages \cup {f.image} \in SUBSET Images
    BY <1>2 DEF PC, Frame
  <2>2. bad \in Frame
    <3>1. [f EXCEPT !.pc = "gapImage"].badImages = f.badImages  BY <1>2 DEF Frame
    <3> QED  BY <1>2, <2>1, <3>1, SetField
  <2>3. /\ bad.pc = "gapImage" /\ bad.gapList = f.gapList
        /\ bad.imagesLeft = f.imagesLeft /\ bad.badImages = f.badImages \cup {f.image}
        /\ bad.obj = f.obj /\ bad.allowed = f.allowed /\ bad.answer = None
    BY <1>2 DEF Frame
  <2> HIDE DEF bad
  <2>4. GoodGaps(bad, seen[r]) /\ GoodGap(bad, seen[r])
    BY <1>2, <2>3 DEF GoodGaps, GoodGap, GapPC, GapImagePC
  <2>5. bad.pc \in GapPC  BY <2>3 DEF GapPC
  <2>6. Lands(r, bad)  BY <1>2, <2>2, <2>3, <2>4, <2>5, GapPhase DEF Lands
  <2> QED  BY <1>1, <1>3, <1>4, <2>6, CallAdvances
<1>5. ASSUME NEW p \in f.gapsLeft, Step(r, g(p)) PROVE Advances(r)
  <2>1. /\ "gapAuths" \in PC /\ p \in Gaps /\ p \in f.gapList
        /\ p.AttestationAuthorityNames \in SUBSET AuthNames
        /\ f.gapsLeft \ {p} \in SUBSET Gaps
    BY <1>2, AdmissionAssumption DEF PC, Frame
  <2>2. g(p) \in Frame
    <3>1. [f EXCEPT !.pc = "gapAuths", !.gap = p] \in Frame  BY <1>2, <2>1, SetField
    <3>2. [f EXCEPT !.pc = "gapAuths", !.gap = p].gapsLeft = f.gapsLeft  BY <1>2 DEF Frame
    <3>3. [f EXCEPT !.pc = "gapAuths", !.gap = p, !.gapsLeft = @ \ {p}] \in Frame
      BY <2>1, <3>1, <3>2, SetField
    <3> QED  BY <2>1, <3>3, SetField
  <2>3. /\ g(p).pc = "gapAuths" /\ g(p).gapList = f.gapList /\ g(p).image = f.image
        /\ g(p).imagesLeft = f.imagesLeft /\ g(p).badImages = f.badImages
        /\ g(p).gapsLeft = f.gapsLeft \ {p} /\ g(p).gap = p
        /\ g(p).namesLeft = p.AttestationAuthorityNames /\ g(p).auths = {} /\ ~g(p).missing
        /\ g(p).obj = f.obj /\ g(p).allowed = f.allowed /\ g(p).answer = None
    BY <1>2 DEF Frame
  <2> HIDE DEF g
  <2>4. GoodGaps(g(p), seen[r])
    BY <1>2, <2>1, <2>3 DEF GoodGaps, GapPC, GapImagePC
  <2>5. GoodGap(g(p), seen[r])  BY <2>1, <2>3 DEF GoodGap
  <2>6. g(p).pc \in GapPC  BY <2>3 DEF GapPC
  <2>7. Lands(r, g(p))  BY <1>2, <2>2, <2>3, <2>4, <2>5, <2>6, GapPhase DEF Lands
  <2> QED  BY <1>1, <1>3, <1>5, <2>7, CallAdvances
<1> QED  BY <1>4, <1>5 DEF GapNext

LEMMA GapAuthorityAdvances ==
    ASSUME IInv, NEW r \in Requests, GapAuthority(r)
    PROVE  Advances(r)
<1> DEFINE f == loc[r]
           g(a, n) == [f EXCEPT !.auths = @ \cup {a}, !.namesLeft = @ \ {n},
                                !.pc = IF f.namesLeft = {n} THEN "gapVerify" ELSE @]
<1>1. Active(r) /\ f.pc = "gapAuths" /\ f.pc \in GapPC  BY DEF GapAuthority, Active, GapPC
<1>2. /\ f \in Frame /\ f.obj \in Objects /\ f.answer = None
      /\ GoodGaps(f, seen[r]) /\ GoodGap(f, seen[r]) /\ Current(seen[r])
  BY <1>1, AtWork DEF IInv, Good
<1>3. UNCHANGED <<cluster, metadata, seen>>  BY DEF GapAuthority
<1>4. PICK n \in f.namesLeft, ok \in BOOLEAN :
         /\ Call(r, ok)
         /\ \/ Step(r, gapsFailed(f))
            \/ \E a \in authorities : a.name = n /\ Step(r, g(a, n))
  BY DEF GapAuthority
<1>5. CASE Step(r, gapsFailed(f))
  BY <1>1, <1>3, <1>4, <1>5, GapsFailedLands, CallAdvances
<1>6. ASSUME NEW a \in authorities, a.name = n, Step(r, g(a, n)) PROVE Advances(r)
  <2>1. /\ "gapVerify" \in PC /\ f.pc \in PC
        /\ f.auths \cup {a} \in SUBSET Authorities /\ f.namesLeft \ {n} \in SUBSET AuthNames
    BY <1>2 DEF PC, Frame, IInv, TypeOK
  <2>2. g(a, n) \in Frame
    <3> DEFINE x == [f EXCEPT !.auths = @ \cup {a}]
               y == [f EXCEPT !.auths = @ \cup {a}, !.namesLeft = @ \ {n}]
    <3>1. x \in Frame  BY <1>2, <2>1, SetField
    <3>2. x.namesLeft = f.namesLeft  BY <1>2 DEF Frame
    <3>3. y \in Frame  BY <2>1, <3>1, <3>2, SetField
    <3>4. y.pc = f.pc  BY <1>2 DEF Frame
    <3> QED  BY <2>1, <3>3, <3>4, SetField
  <2>3. /\ g(a, n).pc \in {"gapAuths", "gapVerify"}
        /\ g(a, n).pc = "gapVerify" => f.namesLeft = {n}
        /\ g(a, n).gapList = f.gapList /\ g(a, n).image = f.image
        /\ g(a, n).imagesLeft = f.imagesLeft /\ g(a, n).badImages = f.badImages
        /\ g(a, n).gapsLeft = f.gapsLeft /\ g(a, n).gap = f.gap
        /\ g(a, n).namesLeft = f.namesLeft \ {n} /\ g(a, n).auths = f.auths \cup {a}
        /\ g(a, n).missing = f.missing
        /\ g(a, n).obj = f.obj /\ g(a, n).allowed = f.allowed /\ g(a, n).answer = None
    BY <1>1, <1>2 DEF Frame
  <2> HIDE DEF g
  <2>4. GoodGaps(g(a, n), seen[r])
    BY <1>1, <1>2, <2>3 DEF GoodGaps, GapPC, GapImagePC
  <2>5. GoodGap(g(a, n), seen[r])
    BY <1>1, <1>2, <1>6, <2>3 DEF GoodGap, Current
  <2>6. g(a, n).pc \in GapPC  BY <2>3 DEF GapPC
  <2>7. Lands(r, g(a, n))  BY <1>2, <2>2, <2>3, <2>4, <2>5, <2>6, GapPhase DEF Lands
  <2> QED  BY <1>1, <1>3, <1>4, <1>6, <2>7, CallAdvances
<1> QED  BY <1>4, <1>5, <1>6

\* What isAttestedBy found is on record.
LEMMA AttestedIsSeen ==
    ASSUME IInv, NEW r \in Requests, Active(r), NEW a \in seen[r].auths, NEW i, NEW ok,
           isAttestedBy(loc[r].attCache, occurrences, a, i, ok)
    PROVE  seenAttested(seen[r], i, a.name)
<1>1. occurrences \subseteq seen[r].occs  BY AtWork DEF Current
<1>2. hasValidatedAttestation(a, occurrences, i)  BY DEF isAttestedBy
<1>3. hasValidatedAttestation(a, seen[r].occs, i)
  BY <1>1, <1>2 DEF hasValidatedAttestation, noteOccurrences
<1> QED  BY <1>3 DEF seenAttested

LEMMA AttCacheType ==
    ASSUME NEW f \in Frame, NEW a \in Authorities, NEW i \in Images, NEW ok
    PROVE  attCacheAfter(f.attCache, occurrences, a, i, ok) \in SUBSET Images
<1>1. f.attCache \in SUBSET Images  BY DEF Frame
<1> QED  BY <1>1 DEF attCacheAfter

LEMMA GapVerifyAdvances ==
    ASSUME IInv, NEW r \in Requests, GapVerify(r)
    PROVE  Advances(r)
<1> DEFINE f == loc[r]
           lacking(a, ok) == f.missing \/ ~isAttestedBy(f.attCache, occurrences, a, f.image, ok)
           next(a, ok) == CASE f.auths # {a} -> f.pc
                            [] f.auths = {a} /\ lacking(a, ok) -> "gapNext"
                            [] OTHER -> "gapImage"
           x(a, ok) == [f EXCEPT !.auths = @ \ {a}, !.missing = lacking(a, ok)]
           y(a, ok) == [f EXCEPT !.auths = @ \ {a}, !.missing = lacking(a, ok),
                                 !.attCache = attCacheAfter(f.attCache, occurrences, a, f.image, ok)]
           g(a, ok) == [f EXCEPT !.auths = @ \ {a}, !.missing = lacking(a, ok),
                                 !.attCache = attCacheAfter(f.attCache, occurrences, a, f.image, ok),
                                 !.pc = next(a, ok)]
<1>1. Active(r) /\ f.pc = "gapVerify" /\ f.pc \in GapPC  BY DEF GapVerify, Active, GapPC
<1>2. /\ f \in Frame /\ f.obj \in Objects /\ f.answer = None
      /\ GoodGaps(f, seen[r]) /\ GoodGap(f, seen[r])
      /\ f.image \in Images /\ f.auths \subseteq seen[r].auths
      /\ f.gap \in f.gapList /\ f.gap.AttestationAuthorityNames # {}
  BY <1>1, AtWork DEF IInv, Good, GoodGaps, GoodGap, GapImagePC
<1>3. UNCHANGED <<cluster, metadata, seen>>  BY DEF GapVerify
<1>4. PICK a \in f.auths, ok \in BOOLEAN :
         /\ Call(r, ok) \/ NoCall
         /\ Step(r, [f EXCEPT !.auths = @ \ {a}, !.missing = lacking(a, ok),
                              !.attCache = attCacheAfter(f.attCache, occurrences, a, f.image, ok),
                              !.pc = CASE f.auths # {a} -> @
                                       [] f.auths = {a} /\ lacking(a, ok) -> "gapNext"
                                       [] OTHER -> "gapImage"])
  BY DEF GapVerify
<1>5. y(a, ok).pc = f.pc  BY <1>2 DEF Frame
<1>6. Step(r, g(a, ok))  BY <1>4, <1>5
<1>7. ~lacking(a, ok) => seenAttested(seen[r], f.image, a.name)
  BY <1>1, <1>2, AttestedIsSeen
<1>8. lacking(a, ok) \in BOOLEAN /\ (~lacking(a, ok) => ~f.missing)
  BY <1>2 DEF Frame, isAttestedBy
<1>9. next(a, ok) \in PC  BY <1>1 DEF PC
<1>10. /\ next(a, ok) \in {"gapVerify", "gapNext", "gapImage"}
       /\ next(a, ok) = "gapImage" => f.auths = {a} /\ ~lacking(a, ok)
  BY <1>1
<1> HIDE DEF next, lacking
<1>11. g(a, ok) \in Frame
  <2>1. f.auths \ {a} \in SUBSET Authorities /\ a \in Authorities  BY <1>2 DEF Frame
  <2>2. attCacheAfter(f.attCache, occurrences, a, f.image, ok) \in SUBSET Images
    BY <1>2, <2>1, AttCacheType
  <2>3. x(a, ok) \in Frame  BY <1>2, <1>8, <2>1, SetField
  <2>4. y(a, ok) \in Frame  BY <2>2, <2>3, SetField
  <2> QED  BY <1>9, <2>4, SetField
<1>12. /\ g(a, ok).pc = next(a, ok) /\ g(a, ok).gapList = f.gapList
       /\ g(a, ok).image = f.image
       /\ g(a, ok).imagesLeft = f.imagesLeft /\ g(a, ok).badImages = f.badImages
       /\ g(a, ok).gapsLeft = f.gapsLeft /\ g(a, ok).gap = f.gap
       /\ g(a, ok).auths = f.auths \ {a} /\ g(a, ok).missing = lacking(a, ok)
       /\ g(a, ok).obj = f.obj /\ g(a, ok).allowed = f.allowed /\ g(a, ok).answer = None
  BY <1>2 DEF Frame
<1> HIDE DEF g
<1>13. ~lacking(a, ok) => \A n \in f.gap.AttestationAuthorityNames :
          (\E b \in f.auths \ {a} : b.name = n) \/ seenAttested(seen[r], f.image, n)
  BY <1>1, <1>2, <1>7, <1>8 DEF GoodGap
<1>14. GoodGap(g(a, ok), seen[r])  BY <1>1, <1>2, <1>10, <1>12, <1>13 DEF GoodGap
<1>15. GoodGaps(g(a, ok), seen[r])
  <2>1. next(a, ok) = "gapImage" => seenGapSatisfied(seen[r], f.gapList, f.image)
    BY <1>2, <1>10, <1>13 DEF seenGapSatisfied
  <2> QED  BY <1>1, <1>2, <1>10, <1>12, <2>1 DEF GoodGaps, GapPC, GapImagePC
<1>16. g(a, ok).pc \in GapPC  BY <1>10, <1>12 DEF GapPC
<1>17. Lands(r, g(a, ok))  BY <1>2, <1>11, <1>12, <1>14, <1>15, <1>16, GapPhase DEF Lands
<1> QED  BY <1>1, <1>3, <1>4, <1>6, <1>17, CallAdvances

-----------------------------------------------------------------------------
(* The image security policies.                                            *)

LEMMA FetchISPsAdvances ==
    ASSUME IInv, NEW r \in Requests, FetchISPs(r)
    PROVE  Advances(r)
<1> DEFINE f == loc[r]
           g == [f EXCEPT !.pc = "ispClient", !.ispList = clusterIsps]
<1>1. Active(r) /\ f.pc = "ispList"  BY DEF FetchISPs, Active
<1>2. /\ f \in Frame /\ f.obj \in Objects /\ f.answer = None /\ Current(seen[r])
      /\ f.allowed => seenGapsSatisfied(seen[r], f.obj)
  BY <1>1, AtWork DEF IInv, Good, GoodVerdict
<1>3. PICK ok \in BOOLEAN :
         /\ Call(r, ok)
         /\ Step(r, CASE ~ok -> Respond(Denied(f))
                      [] ok /\ clusterIsps = {} -> Respond(f)
                      [] OTHER -> g)
  BY DEF FetchISPs
<1>4. UNCHANGED <<cluster, metadata, seen>>  BY DEF FetchISPs
<1>5. Lands(r, Respond(Denied(f)))  BY <1>1, DeniedLands
<1>6. clusterIsps \in seen[r].isps /\ clusterIsps \in SUBSET Isps
  BY <1>2 DEF Current, IInv, TypeOK, Isps
<1>7. ASSUME clusterIsps = {} PROVE Lands(r, Respond(f))
  <2>1. seenIspsSatisfied(seen[r], f.obj)  BY <1>6, <1>7 DEF seenIspsSatisfied
  <2> QED  BY <1>1, <1>2, <2>1, RespondLands DEF Grounds
<1>8. Lands(r, g)
  <2>1. "ispClient" \in PC  BY DEF PC
  <2>2. g \in Frame  BY <1>2, <1>6, <2>1, SetField
  <2>3. /\ g.pc = "ispClient" /\ g.ispList = clusterIsps
        /\ g.obj = f.obj /\ g.allowed = f.allowed /\ g.answer = None
    BY <1>2 DEF Frame
  <2> HIDE DEF g
  <2>4. GoodIsps(g, seen[r]) /\ GoodIsp(g, seen[r]) /\ GoodAttest(g, seen[r])
    BY <1>6, <2>3 DEF GoodIsps, GoodIsp, GoodAttest, IspPC, IspImagePC, AttestPC
  <2> QED  BY <1>2, <2>2, <2>3, <2>4, IspPhase DEF Lands
<1> HIDE DEF g
<1>9. \E x : Step(r, x) /\ Lands(r, x)  BY <1>3, <1>5, <1>7, <1>8
<1> QED  BY <1>1, <1>3, <1>4, <1>9, CallAdvances

LEMMA IspClientAdvances ==
    ASSUME IInv, NEW r \in Requests, IspClient(r)
    PROVE  Advances(r)
<1> DEFINE f == loc[r]
           g == [f EXCEPT !.pc = "ispNext", !.ispsLeft = f.ispList, !.attCache = {}]
<1>1. Active(r) /\ f.pc = "ispClient"  BY DEF IspClient, Active
<1>2. /\ f \in Frame /\ f.obj \in Objects /\ f.answer = None
      /\ f.allowed => seenGapsSatisfied(seen[r], f.obj)
      /\ f.ispList \in seen[r].isps
  BY <1>1, AtWork DEF IInv, Good, GoodVerdict, GoodIsps
<1>3. PICK ok \in BOOLEAN :
         /\ Call(r, ok)
         /\ Step(r, CASE ~ok -> Respond(Denied(f))
                      [] ok /\ notGloballyAllowed(f.obj.images) = {} -> Respond(f)
                      [] OTHER -> g)
  BY DEF IspClient
<1>4. UNCHANGED <<cluster, metadata, seen>>  BY DEF IspClient
<1>5. Lands(r, Respond(Denied(f)))  BY <1>1, DeniedLands
<1>6. ASSUME notGloballyAllowed(f.obj.images) = {} PROVE Lands(r, Respond(f))
  <2>1. seenIspsSatisfied(seen[r], f.obj)  BY <1>2, <1>6 DEF seenIspsSatisfied
  <2> QED  BY <1>1, <1>2, <2>1, RespondLands DEF Grounds
<1>7. Lands(r, g)
  <2>1. "ispNext" \in PC /\ f.ispList \in SUBSET Isps  BY <1>2 DEF PC, Frame
  <2>2. g \in Frame  BY <1>2, <2>1, SetField
  <2>3. /\ g.pc = "ispNext" /\ g.ispList = f.ispList /\ g.ispsLeft = f.ispList
        /\ g.obj = f.obj /\ g.allowed = f.allowed /\ g.answer = None
    BY <1>2 DEF Frame
  <2> HIDE DEF g
  <2>4. GoodIsps(g, seen[r]) /\ GoodIsp(g, seen[r]) /\ GoodAttest(g, seen[r])
    BY <1>2, <2>3 DEF GoodIsps, GoodIsp, GoodAttest, IspPC, IspImagePC, AttestPC
  <2> QED  BY <1>2, <2>2, <2>3, <2>4, IspPhase DEF Lands
<1> HIDE DEF g
<1>8. \E x : Step(r, x) /\ Lands(r, x)  BY <1>3, <1>5, <1>6, <1>7
<1> QED  BY <1>1, <1>3, <1>4, <1>8, CallAdvances

LEMMA IspNextAdvances ==
    ASSUME IInv, NEW r \in Requests, IspNext(r)
    PROVE  Advances(r)
<1> DEFINE f == loc[r]
           next(p) == IF p.AttestationAuthorityName = "" THEN "ispImage" ELSE "ispAuth"
           x(p) == [f EXCEPT !.isp = p, !.ispsLeft = @ \ {p}]
           g(p) == [f EXCEPT !.isp = p, !.ispsLeft = @ \ {p}, !.auths = {},
                             !.imagesLeft = notGloballyAllowed(f.obj.images), !.pc = next(p)]
<1>1. Active(r) /\ f.pc = "ispNext"  BY DEF IspNext, Active
<1>2. /\ f \in Frame /\ f.obj \in Objects /\ f.answer = None /\ f.obj.images \subseteq Images
      /\ f.allowed => seenGapsSatisfied(seen[r], f.obj)
      /\ f.ispList \in seen[r].isps /\ f.ispsLeft \subseteq f.ispList
      /\ \A p \in f.ispList \ f.ispsLeft : \A i \in notGloballyAllowed(f.obj.images) :
            seenIspSatisfied(seen[r], p, i)
  BY <1>1, AtWork DEF IInv, Good, GoodVerdict, GoodIsps, IspPC, IspImagePC
<1>3. UNCHANGED <<cluster, metadata, seen>> /\ NoCall  BY DEF IspNext
<1>4. ASSUME f.ispsLeft = {}, Step(r, Respond(f)) PROVE Advances(r)
  <2>1. seenIspsSatisfied(seen[r], f.obj)  BY <1>2, <1>4 DEF seenIspsSatisfied
  <2>2. Lands(r, Respond(f))  BY <1>1, <1>2, <2>1, RespondLands DEF Grounds
  <2> QED  BY <1>1, <1>3, <1>4, <2>2, CallAdvances
<1>5. ASSUME NEW p \in f.ispsLeft, Step(r, g(p)) PROVE Advances(r)
  <2>1. /\ next(p) \in PC /\ p \in Isps /\ f.ispsLeft \ {p} \in SUBSET Isps
        /\ notGloballyAllowed(f.obj.images) \in SUBSET Images
        /\ next(p) \in {"ispImage", "ispAuth"}
    BY <1>2 DEF PC, Frame, notGloballyAllowed
  <2> HIDE DEF next
  <2>2. g(p) \in Frame
    <3>1. [f EXCEPT !.isp = p] \in Frame  BY <1>2, <2>1, SetField
    <3>2. [f EXCEPT !.isp = p].ispsLeft = f.ispsLeft  BY <1>2 DEF Frame
    <3>3. x(p) \in Frame  BY <2>1, <3>1, <3>2, SetField
    <3>4. [f EXCEPT !.isp = p, !.ispsLeft = @ \ {p}, !.auths = {}] \in Frame  BY <3>3, SetField
    <3> QED  BY <2>1, <3>4, SetField
  <2>3. /\ g(p).pc = next(p) /\ g(p).ispList = f.ispList /\ g(p).isp = p
        /\ g(p).ispsLeft = f.ispsLeft \ {p} /\ g(p).auths = {}
        /\ g(p).imagesLeft = notGloballyAllowed(g(p).obj.images)
        /\ g(p).obj = f.obj /\ g(p).allowed = f.allowed /\ g(p).answer = None
    BY <1>2 DEF Frame
  <2> HIDE DEF g
  <2>4. GoodIsps(g(p), seen[r])
    BY <1>2, <2>1, <2>3 DEF GoodIsps, IspPC, IspImagePC
  <2>5. GoodIsp(g(p), seen[r]) /\ GoodAttest(g(p), seen[r])
    BY <1>2, <2>1, <2>3 DEF GoodIsp, GoodAttest, IspPC, IspImagePC, AttestPC
  <2>6. g(p).pc \in IspPC  BY <2>1, <2>3 DEF IspPC
  <2>7. Lands(r, g(p))  BY <1>2, <2>2, <2>3, <2>4, <2>5, <2>6, IspPhase DEF Lands
  <2> QED  BY <1>1, <1>3, <1>5, <2>7, CallAdvances
<1> QED  BY <1>2, <1>4, <1>5 DEF IspNext

LEMMA IspAuthorityAdvances ==
    ASSUME IInv, NEW r \in Requests, IspAuthority(r)
    PROVE  Advances(r)
<1> DEFINE f == loc[r]
           g(a) == [f EXCEPT !.pc = "ispImage", !.auths = {a}]
<1>1. Active(r) /\ f.pc = "ispAuth" /\ f.pc \in IspPC  BY DEF IspAuthority, Active, IspPC
<1>2. /\ f \in Frame /\ f.obj \in Objects /\ f.answer = None
      /\ f.allowed => seenGapsSatisfied(seen[r], f.obj)
      /\ GoodIsps(f, seen[r]) /\ GoodIsp(f, seen[r]) /\ Current(seen[r])
  BY <1>1, AtWork DEF IInv, Good, GoodVerdict
<1>3. UNCHANGED <<cluster, metadata, seen>>  BY DEF IspAuthority
<1>4. PICK ok \in BOOLEAN :
         /\ Call(r, ok)
         /\ \/ Step(r, Respond(Denied(f)))
            \/ \E a \in authorities :
                  a.name = f.isp.AttestationAuthorityName /\ Step(r, g(a))
  BY DEF IspAuthority
<1>5. CASE Step(r, Respond(Denied(f)))
  BY <1>1, <1>3, <1>4, <1>5, DeniedLands, CallAdvances
<1>6. ASSUME NEW a \in authorities, a.name = f.isp.AttestationAuthorityName, Step(r, g(a))
      PROVE  Advances(r)
  <2>1. "ispImage" \in PC /\ {a} \in SUBSET Authorities /\ a \in seen[r].auths
    BY <1>2 DEF PC, IInv, TypeOK, Current
  <2>2. g(a) \in Frame  BY <1>2, <2>1, SetField
  <2>3. /\ g(a).pc = "ispImage" /\ g(a).auths = {a}
        /\ g(a).ispList = f.ispList /\ g(a).isp = f.isp /\ g(a).ispsLeft = f.ispsLeft
        /\ g(a).imagesLeft = f.imagesLeft
        /\ g(a).obj = f.obj /\ g(a).allowed = f.allowed /\ g(a).answer = None
    BY <1>2 DEF Frame
  <2> HIDE DEF g
  <2>4. GoodIsps(g(a), seen[r])
    BY <1>1, <1>2, <2>3 DEF GoodIsps, IspPC, IspImagePC
  <2>5. GoodIsp(g(a), seen[r]) /\ GoodAttest(g(a), seen[r])
    BY <1>1, <1>2, <1>6, <2>1, <2>3 DEF GoodIsp, GoodAttest, IspPC, IspImagePC, AttestPC
  <2>6. g(a).pc \in IspPC  BY <2>3 DEF IspPC
  <2>7. Lands(r, g(a))  BY <1>2, <2>2, <2>3, <2>4, <2>5, <2>6, IspPhase DEF Lands
  <2> QED  BY <1>1, <1>3, <1>4, <1>6, <2>7, CallAdvances
<1> QED  BY <1>4, <1>5, <1>6

LEMMA IspImageAdvances ==
    ASSUME IInv, NEW r \in Requests, IspImage(r)
    PROVE  Advances(r)
<1> DEFINE f == loc[r]
           last == [f EXCEPT !.pc = "ispNext"]
           next == IF f.auths = {} THEN "ispValidate" ELSE "ispAttested"
           g(i) == [f EXCEPT !.image = i, !.imagesLeft = @ \ {i}, !.pc = next]
<1>1. Active(r) /\ f.pc = "ispImage" /\ f.pc \in IspPC  BY DEF IspImage, Active, IspPC
<1>2. /\ f \in Frame /\ f.obj \in Objects /\ f.answer = None
      /\ f.allowed => seenGapsSatisfied(seen[r], f.obj)
      /\ GoodIsps(f, seen[r]) /\ GoodIsp(f, seen[r])
  BY <1>1, AtWork DEF IInv, Good, GoodVerdict
<1>3. UNCHANGED <<cluster, metadata, seen>> /\ NoCall  BY DEF IspImage
<1>4. ASSUME f.imagesLeft = {}, Step(r, last) PROVE Advances(r)
  <2>1. "ispNext" \in PC  BY DEF PC
  <2>2. last \in Frame  BY <1>2, <2>1, SetField
  <2>3. /\ last.pc = "ispNext" /\ last.ispList = f.ispList /\ last.ispsLeft = f.ispsLeft
        /\ last.obj = f.obj /\ last.allowed = f.allowed /\ last.answer = None
    BY <1>2 DEF Frame
  <2> HIDE DEF last
  <2>4. \A i \in notGloballyAllowed(f.obj.images) : seenIspSatisfied(seen[r], f.isp, i)
    BY <1>1, <1>2, <1>4 DEF GoodIsp, IspImagePC
  <2>5. GoodIsps(last, seen[r])
    BY <1>1, <1>2, <2>3, <2>4 DEF GoodIsps, IspPC, IspImagePC
  <2>6. GoodIsp(last, seen[r]) /\ GoodAttest(last, seen[r])
    BY <2>3 DEF GoodIsp, GoodAttest, IspPC, IspImagePC, AttestPC
  <2>7. Lands(r, last)  BY <1>2, <2>2, <2>3, <2>5, <2>6, IspPhase DEF Lands
  <2> QED  BY <1>1, <1>3, <1>4, <2>7, CallAdvances
<1>5. ASSUME NEW i \in f.imagesLeft, Step(r, g(i)) PROVE Advances(r)
  <2>1. next \in PC /\ next \in IspImagePC \ AttestPC  BY DEF PC, IspImagePC, AttestPC
  <2>2. i \in Images /\ f.imagesLeft \ {i} \in SUBSET Images  BY <1>2 DEF Frame
  <2> HIDE DEF next
  <2>3. g(i) \in Frame
    <3>1. [f EXCEPT !.image = i] \in Frame  BY <1>2, <2>2, SetField
    <3>2. [f EXCEPT !.image = i].imagesLeft = f.imagesLeft  BY <1>2 DEF Frame
    <3> QED  BY <2>1, <2>2, <3>1, <3>2, SetField
  <2>4. /\ g(i).pc = next /\ g(i).image = i /\ g(i).imagesLeft = f.imagesLeft \ {i}
        /\ g(i).ispList = f.ispList /\ g(i).isp = f.isp /\ g(i).ispsLeft = f.ispsLeft
        /\ g(i).auths = f.auths
        /\ g(i).obj = f.obj /\ g(i).allowed = f.allowed /\ g(i).answer = None
    BY <1>2 DEF Frame
  <2> HIDE DEF g
  <2>5. GoodIsps(g(i), seen[r])
    BY <1>1, <1>2, <2>1, <2>4 DEF GoodIsps, IspPC, IspImagePC
  <2>6. GoodIsp(g(i), seen[r])
    <3>1. /\ f.isp \in f.ispList
          /\ \A j \in notGloballyAllowed(f.obj.images) \ f.imagesLeft :
                seenIspSatisfied(seen[r], f.isp, j)
          /\ f.auths \subseteq seen[r].auths
          /\ \A a \in f.auths : a.name = f.isp.AttestationAuthorityName
          /\ f.imagesLeft \subseteq notGloballyAllowed(f.obj.images)
      BY <1>1, <1>2 DEF GoodIsp, IspPC, IspImagePC
    <3>2. g(i).pc \in IspImagePC /\ g(i).pc \notin {"ispAuth", "ispImage"}
      BY <2>1, <2>4 DEF IspImagePC
    <3> QED  BY <2>4, <3>1, <3>2 DEF GoodIsp
  <2>7. GoodAttest(g(i), seen[r]) /\ g(i).pc \in IspPC
    BY <2>1, <2>4 DEF GoodAttest, IspPC, IspImagePC, AttestPC
  <2>8. Lands(r, g(i))  BY <1>2, <2>3, <2>4, <2>5, <2>6, <2>7, IspPhase DEF Lands
  <2> QED  BY <1>1, <1>3, <1>5, <2>8, CallAdvances
<1> QED  BY <1>4, <1>5 DEF IspImage

\* One image under one policy: what a step may do to the frame.
LEMMA ImageStepLands ==
    ASSUME IInv, NEW r \in Requests, loc[r].pc \in IspImagePC, NEW g \in Frame,
           g.pc \in IspImagePC \cup {"ispImage"},
           g.obj = loc[r].obj, g.allowed = loc[r].allowed, g.answer = loc[r].answer,
           g.ispList = loc[r].ispList, g.ispsLeft = loc[r].ispsLeft, g.isp = loc[r].isp,
           g.auths = loc[r].auths, g.imagesLeft = loc[r].imagesLeft, g.image = loc[r].image,
           g.pc = "ispImage" => seenIspSatisfied(seen[r], g.isp, g.image),
           g.pc \in AttestPC => seenClean(seen[r], g.isp, g.image),
           g.pc = "attest" => /\ g.isp.PrivateKeySecretName \in SecretNames
                              /\ g.key = SecretKey[g.isp.PrivateKeySecretName]
    PROVE  Active(r) /\ Lands(r, g)
<1> DEFINE f == loc[r]
<1>1. Active(r) /\ f.pc \in IspPC  BY DEF Active, IspPC, IspImagePC
<1>2. /\ f \in Frame /\ f.obj \in Objects /\ f.answer = None
      /\ f.allowed => seenGapsSatisfied(seen[r], f.obj)
      /\ GoodIsps(f, seen[r]) /\ GoodIsp(f, seen[r])
  BY <1>1, AtWork DEF IInv, Good, GoodVerdict
<1>3. g.pc \in IspPC  BY DEF IspPC
<1>4. GoodIsps(g, seen[r])  BY <1>1, <1>2, <1>3 DEF GoodIsps
<1>5. GoodIsp(g, seen[r])
  <2>1. /\ f.isp \in f.ispList
        /\ \A j \in notGloballyAllowed(f.obj.images) \ f.imagesLeft :
              j = f.image \/ seenIspSatisfied(seen[r], f.isp, j)
        /\ f.auths \subseteq seen[r].auths
        /\ \A a \in f.auths : a.name = f.isp.AttestationAuthorityName
        /\ f.image \in notGloballyAllowed(f.obj.images)
        /\ f.imagesLeft \subseteq notGloballyAllowed(f.obj.images)
    BY <1>1, <1>2 DEF GoodIsp
  <2>2. g.pc # "ispAuth"  BY DEF IspImagePC
  <2> QED  BY <1>3, <2>1, <2>2 DEF GoodIsp
<1>6. GoodAttest(g, seen[r])  BY DEF GoodAttest
<1> QED  BY <1>1, <1>2, <1>3, <1>4, <1>5, <1>6, IspPhase DEF Lands

LEMMA IspAttestedAdvances ==
    ASSUME IInv, NEW r \in Requests, IspAttested(r)
    PROVE  Advances(r)
<1> DEFINE f == loc[r]
           next(a, ok) == IF isAttestedBy(f.attCache, occurrences, a, f.image, ok) THEN "ispImage" ELSE "ispValidate"
           g(a, ok) == [f EXCEPT !.attCache = attCacheAfter(f.attCache, occurrences, a, f.image, ok), !.pc = next(a, ok)]
<1>1. Active(r) /\ f.pc = "ispAttested" /\ f.pc \in IspPC /\ f.pc \in IspImagePC
  BY DEF IspAttested, Active, IspPC, IspImagePC
<1>2. /\ f \in Frame /\ f.obj.images \subseteq Images
      /\ f.image \in Images /\ f.auths \subseteq seen[r].auths
      /\ \A a \in f.auths : a.name = f.isp.AttestationAuthorityName
  BY <1>1, AtWork DEF IInv, Good, GoodIsp, notGloballyAllowed
<1>3. UNCHANGED <<cluster, metadata, seen>>  BY DEF IspAttested
<1>4. PICK a \in f.auths, ok \in BOOLEAN :
         (Call(r, ok) \/ NoCall) /\ Step(r, g(a, ok))
  BY DEF IspAttested
<1>5. /\ next(a, ok) \in PC /\ next(a, ok) \in IspImagePC \cup {"ispImage"}
      /\ next(a, ok) \notin AttestPC
      /\ next(a, ok) = "ispImage" => isAttestedBy(f.attCache, occurrences, a, f.image, ok)
  BY DEF PC, IspImagePC, AttestPC
<1> HIDE DEF next
<1>6. g(a, ok) \in Frame
  <2>1. attCacheAfter(f.attCache, occurrences, a, f.image, ok) \in SUBSET Images
    BY <1>2, AttCacheType DEF Frame
  <2> QED  BY <1>2, <1>5, <2>1, SetField
<1>7. /\ g(a, ok).pc = next(a, ok) /\ g(a, ok).image = f.image /\ g(a, ok).imagesLeft = f.imagesLeft
      /\ g(a, ok).ispList = f.ispList /\ g(a, ok).isp = f.isp /\ g(a, ok).ispsLeft = f.ispsLeft
      /\ g(a, ok).auths = f.auths
      /\ g(a, ok).obj = f.obj /\ g(a, ok).allowed = f.allowed /\ g(a, ok).answer = f.answer
  BY <1>2 DEF Frame
<1> HIDE DEF g
<1>8. next(a, ok) = "ispImage" => seenIspSatisfied(seen[r], f.isp, f.image)
  BY <1>1, <1>2, <1>5, AttestedIsSeen DEF seenIspSatisfied
<1>9. "attest" \in AttestPC  BY DEF AttestPC
<1>10. Lands(r, g(a, ok))  BY <1>1, <1>5, <1>6, <1>7, <1>8, <1>9, ImageStepLands
<1> QED  BY <1>1, <1>3, <1>4, <1>10, CallAdvances

\* A validation without violations is backed by a scan or by the allowlist.
LEMMA CleanIsSeen ==
    ASSUME IInv, NEW r \in Requests, loc[r].pc \in IspImagePC, NEW ok,
           validate(loc[r].isp, loc[r].image, vulnerabilities[loc[r].image], ok) = "clean"
    PROVE  seenClean(seen[r], loc[r].isp, loc[r].image)
<1> DEFINE f == loc[r]
<1>1. Active(r) /\ f.pc \in IspPC  BY DEF Active, IspPC, IspImagePC
<1>2. f.image \in Images /\ Current(seen[r])
  BY <1>1, AtWork DEF IInv, Good, GoodIsp, notGloballyAllowed
<1>3. CASE f.image \in f.isp.ImageAllowlist  BY <1>3 DEF seenClean
<1>4. CASE f.image \notin f.isp.ImageAllowlist
  <2>1. f.image \in FullyQualified /\ validateVulnz(f.isp, vulnerabilities[f.image]) = "clean"
    BY <1>4 DEF validate, vulnerabilityCall
  <2>2. <<f.image, vulnerabilities[f.image]>> \in seen[r].vulns  BY <1>2 DEF Current
  <2> QED  BY <2>1, <2>2 DEF seenClean
<1> QED  BY <1>3, <1>4

LEMMA IspValidateAdvances ==
    ASSUME IInv, NEW r \in Requests, IspValidate(r)
    PROVE  Advances(r)
<1> DEFINE f == loc[r]
           next == IF f.auths = {} THEN "ispImage" ELSE "noteGet"
           g == [f EXCEPT !.pc = next]
<1>1. Active(r) /\ f.pc \in IspImagePC /\ f \in Frame
  BY DEF IspValidate, Active, IspImagePC, IInv, TypeOK
<1>2. PICK ok \in BOOLEAN :
         /\ Call(r, ok) \/ NoCall
         /\ Step(r, IF validate(f.isp, f.image, vulnerabilities[f.image], ok) # "clean" THEN Respond(Denied(f)) ELSE g)
  BY DEF IspValidate
<1>3. UNCHANGED <<cluster, metadata, seen>>  BY DEF IspValidate
<1>4. Lands(r, Respond(Denied(f)))  BY <1>1, DeniedLands
<1>5. ASSUME validate(f.isp, f.image, vulnerabilities[f.image], ok) = "clean" PROVE Lands(r, g)
  <2>1. next \in PC /\ next \in IspImagePC \cup {"ispImage"} /\ next # "attest"
    BY DEF PC, IspImagePC
  <2> HIDE DEF next
  <2>2. g \in Frame  BY <1>1, <2>1, SetField
  <2>3. /\ g.pc = next /\ g.image = f.image /\ g.imagesLeft = f.imagesLeft
        /\ g.ispList = f.ispList /\ g.isp = f.isp /\ g.ispsLeft = f.ispsLeft
        /\ g.auths = f.auths
        /\ g.obj = f.obj /\ g.allowed = f.allowed /\ g.answer = f.answer
    BY <1>1 DEF Frame
  <2> HIDE DEF g
  <2>4. seenClean(seen[r], f.isp, f.image)  BY <1>1, <1>5, CleanIsSeen
  <2>5. seenIspSatisfied(seen[r], f.isp, f.image)  BY <2>4 DEF seenIspSatisfied
  <2> QED  BY <1>1, <2>1, <2>2, <2>3, <2>4, <2>5, ImageStepLands
<1> HIDE DEF g
<1>6. \E x : Step(r, x) /\ Lands(r, x)  BY <1>2, <1>4, <1>5
<1> QED  BY <1>1, <1>2, <1>3, <1>6, CallAdvances

-----------------------------------------------------------------------------
(* addAttestation.                                                         *)

\* Its steps move the program counter and the key, nothing else.
LEMMA AttestStepLands ==
    ASSUME IInv, NEW r \in Requests, loc[r].pc \in AttestPC,
           NEW pc \in AttestPC \cup {"ispImage"},
           NEW key \in {SecretKey[s] : s \in SecretNames} \cup {None},
           pc = "attest" => /\ loc[r].isp.PrivateKeySecretName \in SecretNames
                            /\ key = SecretKey[loc[r].isp.PrivateKeySecretName]
    PROVE  Active(r) /\ Lands(r, [loc[r] EXCEPT !.pc = pc, !.key = key])
<1> DEFINE f == loc[r]
           g == [f EXCEPT !.pc = pc, !.key = key]
<1>1. f.pc \in IspImagePC /\ f \in Frame  BY DEF AttestPC, IspImagePC, IInv, TypeOK
<1>2. pc \in PC /\ pc \in IspImagePC \cup {"ispImage"}  BY DEF AttestPC, PC, IspImagePC
<1>3. g \in Frame  BY <1>1, <1>2, SetField
<1>4. /\ g.pc = pc /\ g.key = key /\ g.image = f.image /\ g.imagesLeft = f.imagesLeft
      /\ g.ispList = f.ispList /\ g.isp = f.isp /\ g.ispsLeft = f.ispsLeft
      /\ g.auths = f.auths
      /\ g.obj = f.obj /\ g.allowed = f.allowed /\ g.answer = f.answer
  BY <1>1 DEF Frame
<1> HIDE DEF g
<1>5. seenClean(seen[r], f.isp, f.image)  BY DEF IInv, Good, GoodAttest
<1>6. seenIspSatisfied(seen[r], f.isp, f.image)  BY <1>5 DEF seenIspSatisfied
<1>7. Active(r) /\ Lands(r, g)  BY <1>1, <1>2, <1>3, <1>4, <1>5, <1>6, ImageStepLands
<1> QED  BY <1>7 DEF g

\* The same when the key stays.
LEMMA NoteStepLands ==
    ASSUME IInv, NEW r \in Requests, loc[r].pc \in AttestPC,
           NEW pc \in {"noteCreate", "secret", "ispImage"}
    PROVE  Active(r) /\ Lands(r, [loc[r] EXCEPT !.pc = pc])
<1> DEFINE f == loc[r]
           key == f.key
<1>1. f \in Frame  BY DEF IInv, TypeOK
<1>2. key \in {SecretKey[s] : s \in SecretNames} \cup {None}  BY <1>1 DEF Frame
<1>3. [f EXCEPT !.pc = pc, !.key = key] = [f EXCEPT !.pc = pc]  BY <1>1 DEF Frame
<1>4. pc \in AttestPC \cup {"ispImage"} /\ pc # "attest"  BY DEF AttestPC
<1> HIDE DEF key
<1>5. Active(r) /\ Lands(r, [f EXCEPT !.pc = pc, !.key = key])
  BY <1>2, <1>4, AttestStepLands
<1> QED  BY <1>3, <1>5, Zenon

LEMMA GetNoteAdvances ==
    ASSUME IInv, NEW r \in Requests, GetNote(r)
    PROVE  Advances(r)
<1> DEFINE f == loc[r]
<1>1. f.pc \in AttestPC  BY DEF GetNote, AttestPC
<1>2. PICK pc \in {"secret", "noteCreate"}, ok \in BOOLEAN :
         Call(r, ok) /\ Step(r, [f EXCEPT !.pc = pc])
  BY DEF GetNote
<1>3. UNCHANGED <<cluster, metadata, seen>>  BY DEF GetNote
<1>5. Active(r) /\ Lands(r, [f EXCEPT !.pc = pc])  BY <1>1, NoteStepLands
<1> QED  BY <1>2, <1>3, <1>5, CallAdvances

LEMMA CreateNoteAdvances ==
    ASSUME IInv, NEW r \in Requests, CreateNote(r)
    PROVE  Advances(r)
<1> DEFINE f == loc[r]
<1>1. f.pc \in AttestPC /\ f.auths \subseteq Authorities
  BY DEF CreateNote, AttestPC, IInv, TypeOK, Frame
<1>2. PICK a \in f.auths, ok \in BOOLEAN, done \in BOOLEAN :
         /\ Call(r, ok)
         /\ notes' = IF done /\ a.note # Malformed THEN notes \cup {a.note} ELSE notes
         /\ Step(r, [f EXCEPT !.pc =
               IF ok /\ a.note \notin notes \cup {Malformed} THEN "secret" ELSE "ispImage"])
  BY DEF CreateNote
<1>3. PICK pc \in {"secret", "ispImage"} : Step(r, [f EXCEPT !.pc = pc])  BY <1>2
<1>5. Active(r) /\ Lands(r, [f EXCEPT !.pc = pc])  BY <1>1, NoteStepLands
<1>6. notes' \subseteq Notes  BY <1>1, <1>2 DEF Notes, IInv, TypeOK
<1>7. UNCHANGED <<cluster, vulnerabilities, occurrences, seen>>  BY DEF CreateNote
<1>8. /\ owed' \in [Requests -> BOOLEAN]
      /\ faults' \in 0..MaxFaults /\ edits' \in 0..MaxEdits
  BY <1>2, CallType DEF IInv
<1> QED  BY <1>3, <1>5, <1>6, <1>7, <1>8 DEF Advances

LEMMA FetchSecretAdvances ==
    ASSUME IInv, NEW r \in Requests, FetchSecret(r)
    PROVE  Advances(r)
<1> DEFINE f == loc[r]
           s == f.isp.PrivateKeySecretName
<1>1. f.pc \in AttestPC  BY DEF FetchSecret, AttestPC
<1>2. PICK ok \in BOOLEAN :
         /\ Call(r, ok)
         /\ Step(r, IF ok /\ s \in SecretNames
                    THEN [f EXCEPT !.pc = "attest", !.key = SecretKey[s]]
                    ELSE [f EXCEPT !.pc = "ispImage"])
  BY DEF FetchSecret
<1>3. UNCHANGED <<cluster, metadata, seen>>  BY DEF FetchSecret
<1>4. "attest" \in AttestPC  BY DEF AttestPC
<1>5. Active(r) /\ Lands(r, [f EXCEPT !.pc = "ispImage"])
  BY <1>1, NoteStepLands
<1>6. ASSUME s \in SecretNames
      PROVE  Lands(r, [f EXCEPT !.pc = "attest", !.key = SecretKey[s]])
  BY <1>1, <1>4, <1>6, AttestStepLands
<1>7. \E x : Step(r, x) /\ Lands(r, x)  BY <1>2, <1>5, <1>6
<1> QED  BY <1>2, <1>3, <1>5, <1>7, CallAdvances

-----------------------------------------------------------------------------
(* Steps that change what the reviews look at.                             *)

\* The world changes, the histories take note, the frames stay backed.
LEMMA ObserveKeepsIInv ==
    ASSUME IInv, Observe, World', notes' \subseteq Notes,
           loc' \in [Requests -> Frame],
           \A q \in Requests : Good(loc'[q], seen[q]) /\ (Active(q)' => Active(q)),
           owed' \in [Requests -> BOOLEAN],
           faults' \in 0..MaxFaults, edits' \in 0..MaxEdits
    PROVE  IInv'
<1>1. Now' \in History  BY NextNowIsHistory
<1>2. ASSUME NEW q \in Requests
      PROVE  /\ seen'[q] \in History /\ Grows(seen[q], seen'[q])
             /\ Active(q) => Grows(Now', seen'[q])
  <2>1. seen[q] \in History  BY DEF IInv, TypeOK
  <2>2. seen'[q] = IF Active(q) THEN Join(seen[q], Now') ELSE seen[q]  BY DEF Observe
  <2>3. Grows(seen[q], seen[q])  BY DEF Grows
  <2> QED  BY <1>1, <2>1, <2>2, <2>3, JoinIsHistory
<1>3. seen' \in [Requests -> History]  BY <1>2 DEF Observe
<1>4. TypeOK'  BY <1>3 DEF TypeOK, World, AllOccurrences
<1>5. ASSUME NEW q \in Requests, Active(q)' PROVE Current(seen[q])'
  BY <1>2, <1>5, NextNowIsCurrent DEF Current
<1>6. ASSUME NEW q \in Requests PROVE Good(loc[q], seen[q])'
  <2>1. Good(loc'[q], seen'[q])  BY <1>2, GoodMonotone
  <2> QED  BY <2>1 DEF Good, GoodObject
<1> QED  BY <1>4, <1>5, <1>6 DEF IInv

\* CreateOccurrence: the goroutine moves on and its attestation is on record.
LEMMA CreateOccurrenceLands ==
    ASSUME IInv, NEW r \in Requests, CreateOccurrence(r)
    PROVE  /\ Active(r) /\ loc[r].pc = "attest"
           /\ \E g : Lands(r, g) /\ Step(r, g)
           /\ \E a \in loc[r].auths : occurrences' \subseteq
                 occurrences \cup {newOccurrence(a.note, loc[r].image, loc[r].key)}
<1> DEFINE f == loc[r]
           g == [f EXCEPT !.pc = "ispImage", !.key = None]
<1>1. f.pc = "attest" /\ f.pc \in AttestPC  BY DEF CreateOccurrence, AttestPC
<1>2. None \in {SecretKey[s] : s \in SecretNames} \cup {None}  OBVIOUS
<1>3. Active(r) /\ Lands(r, g)  BY <1>1, <1>2, AttestStepLands
<1>4. Step(r, g) /\ \E a \in f.auths : occurrences' \subseteq
                 occurrences \cup {newOccurrence(a.note, f.image, f.key)}
  BY DEF CreateOccurrence
<1> QED  BY <1>1, <1>3, <1>4

LEMMA CreateOccurrenceKeepsIInv ==
    ASSUME IInv, NEW r \in Requests, CreateOccurrence(r)
    PROVE  IInv'
<1>1. Active(r) /\ loc[r].pc = "attest"  BY CreateOccurrenceLands
<1>2. PICK g : Lands(r, g) /\ Step(r, g)  BY CreateOccurrenceLands
<1>3. PICK a \in loc[r].auths : occurrences' \subseteq
         occurrences \cup {newOccurrence(a.note, loc[r].image, loc[r].key)}
  BY CreateOccurrenceLands
<1>4. PICK ok \in BOOLEAN : Call(r, ok)  BY DEF CreateOccurrence
<1>5. loc' \in [Requests -> Frame]  BY <1>2 DEF Lands, Step, IInv, TypeOK
<1>6. World' /\ notes' \subseteq Notes
  <2>1. loc[r] \in Frame /\ loc[r].obj.images \subseteq Images  BY <1>1, AtWork
  <2>2. a \in Authorities  BY <2>1 DEF Frame
  <2>3. loc[r].image \in Images
    BY <1>1, <2>1 DEF IInv, Good, GoodIsp, IspImagePC, notGloballyAllowed
  <2>4. PICK s \in SecretNames : loc[r].key = SecretKey[s]
    BY <1>1 DEF IInv, Good, GoodAttest
  <2>5. newOccurrence(a.note, loc[r].image, loc[r].key) \in AllOccurrences
    BY <2>2, <2>3, <2>4 DEF AllOccurrences
  <2>6. occurrences' \subseteq AllOccurrences  BY <1>3, <2>5 DEF IInv, TypeOK
  <2> QED  BY <2>6 DEF CreateOccurrence, cluster, IInv, TypeOK, World, AllOccurrences
<1>7. ASSUME NEW q \in Requests
      PROVE  Good(loc'[q], seen[q]) /\ (Active(q)' => Active(q))
  <2>1. loc'[q] = IF q = r THEN g ELSE loc[q]  BY <1>2 DEF Step, IInv, TypeOK
  <2> QED  BY <1>1, <1>2, <2>1 DEF Lands, IInv, Active
<1>8. Observe  BY DEF CreateOccurrence
<1>9. /\ owed' \in [Requests -> BOOLEAN]
      /\ faults' \in 0..MaxFaults /\ edits' \in 0..MaxEdits
  BY <1>4, CallType DEF IInv
<1> QED  BY <1>5, <1>6, <1>7, <1>8, <1>9, ObserveKeepsIInv

\* An edit by others.
LEMMA EditKeepsIInv ==
    ASSUME IInv, World', UNCHANGED <<loc, notes, faults>>, Observe,
           edits < MaxEdits, edits' = edits + 1, owed' \in [Requests -> BOOLEAN]
    PROVE  IInv'
<1>1. edits' \in 0..MaxEdits  BY AdmissionAssumption DEF IInv, TypeOK
<1>2. \A q \in Requests : Good(loc'[q], seen[q]) /\ (Active(q)' => Active(q))
  BY DEF IInv, Active
<1>3. loc' \in [Requests -> Frame] /\ notes' \subseteq Notes /\ faults' \in 0..MaxFaults
  BY DEF IInv, TypeOK
<1> QED  BY <1>1, <1>2, <1>3, ObserveKeepsIInv

LEMMA EditFrame ==
    ASSUME IInv, NEW keeps \in BOOLEAN, Edit(keeps)
    PROVE  /\ UNCHANGED <<loc, notes, faults>> /\ Observe
           /\ edits < MaxEdits /\ edits' = edits + 1 /\ owed' \in [Requests -> BOOLEAN]
<1>1. owed' \in [Requests -> BOOLEAN]  BY Zenon DEF Edit, IInv, TypeOK
<1> QED  BY <1>1 DEF Edit

LEMMA FinalEditFrame ==
    ASSUME IInv, Edit(FALSE)
    PROVE  /\ UNCHANGED <<loc, notes, faults>> /\ Observe
           /\ edits < MaxEdits /\ edits' = edits + 1 /\ owed' \in [Requests -> BOOLEAN]
<1>1. owed' \in [Requests -> BOOLEAN]  BY Zenon DEF Edit, IInv, TypeOK
<1> QED  BY <1>1 DEF Edit

LEMMA EditsKeepIInv ==
    ASSUME IInv,
           \/ EditGaps \/ EditIsps \/ EditAuthority \/ EditWorkload
           \/ Rescan \/ DeleteOccurrence \/ AddOccurrence
    PROVE  IInv' /\ loc' = loc
<1>0. World  BY DEF IInv, TypeOK, World
<1>1. CASE EditGaps
  <2>1. World'  BY <1>0, <1>1 DEF EditGaps, World, AllOccurrences
  <2>2. Edit(FALSE)  BY <1>1 DEF EditGaps
  <2> QED  BY <2>1, <2>2, FinalEditFrame, EditKeepsIInv
<1>2. CASE EditIsps
  <2>1. World'  BY <1>0, <1>2 DEF EditIsps, World, AllOccurrences
  <2>2. Edit(FALSE)  BY <1>2 DEF EditIsps
  <2> QED  BY <2>1, <2>2, FinalEditFrame, EditKeepsIInv
<1>3. CASE EditAuthority
  <2>1. World'  BY <1>0, <1>3 DEF EditAuthority, World, AllOccurrences
  <2>2. Edit(FALSE)  BY <1>3 DEF EditAuthority
  <2> QED  BY <2>1, <2>2, FinalEditFrame, EditKeepsIInv
<1>4. CASE EditWorkload
  <2>1. World'  BY <1>0, <1>4 DEF EditWorkload, World, AllOccurrences
  <2>2. Edit(FALSE)  BY <1>4 DEF EditWorkload
  <2> QED  BY <2>1, <2>2, FinalEditFrame, EditKeepsIInv
<1>5. CASE Rescan
  <2>1. World'  BY <1>0, <1>5 DEF Rescan, cluster, World, AllOccurrences
  <2>2. Edit(FALSE)  BY <1>5 DEF Rescan
  <2> QED  BY <2>1, <2>2, FinalEditFrame, EditKeepsIInv
<1>6. CASE DeleteOccurrence
  <2>1. World'  BY <1>0, <1>6 DEF DeleteOccurrence, cluster, World, AllOccurrences
  <2>2. Edit(FALSE)  BY <1>6 DEF DeleteOccurrence
  <2> QED  BY <2>1, <2>2, FinalEditFrame, EditKeepsIInv
<1>7. CASE AddOccurrence
  <2>1. PICK o \in Occurrences : occurrences' = occurrences \cup {o} /\ Edit(o.known)
    BY <1>7 DEF AddOccurrence
  <2>2. o.known \in BOOLEAN  BY AdmissionAssumption
  <2>3. World'  BY <1>0, <1>7, <2>1 DEF AddOccurrence, cluster, World, AllOccurrences
  <2> QED  BY <2>1, <2>2, <2>3, EditFrame, EditKeepsIInv
<1> QED  BY <1>1, <1>2, <1>3, <1>4, <1>5, <1>6, <1>7

LEMMA CrashKeepsIInv ==
    ASSUME IInv, Crash
    PROVE  /\ IInv'
           /\ \A q \in Requests :
                 \/ ~Active(q) /\ loc'[q] = loc[q]
                 \/ /\ Active(q) /\ loc'[q].answer = "lost"
                    /\ loc'[q].obj = loc[q].obj /\ loc'[q].allowed = loc[q].allowed
<1>1. ASSUME NEW q \in Requests
      PROVE  /\ loc'[q] \in Frame /\ Good(loc'[q], seen[q]) /\ (Active(q)' => Active(q))
             /\ \/ ~Active(q) /\ loc'[q] = loc[q]
                \/ /\ Active(q) /\ loc'[q].answer = "lost"
                   /\ loc'[q].obj = loc[q].obj /\ loc'[q].allowed = loc[q].allowed
  <2>1. loc'[q] = IF Active(q) THEN Answered(loc[q], "lost") ELSE loc[q]  BY DEF Crash
  <2>2. CASE Active(q)
    <3>1. loc[q] \in Frame /\ loc[q].obj \in Objects  BY <2>2, AtWork
    <3>2. /\ Answered(loc[q], "lost") \in Frame /\ Good(Answered(loc[q], "lost"), seen[q])
          /\ Answered(loc[q], "lost").allowed = loc[q].allowed
          /\ Answered(loc[q], "lost").answer = "lost"
          /\ Answered(loc[q], "lost").obj = loc[q].obj
      BY <3>1, AnsweredGood
    <3> QED  BY <2>1, <2>2, <3>2
  <2>3. CASE ~Active(q)
    BY <2>1, <2>3 DEF IInv, TypeOK, Active
  <2> QED  BY <2>2, <2>3
<1>2. loc' \in [Requests -> Frame]  BY <1>1 DEF Crash
<1>3. UNCHANGED <<cluster, metadata, seen, owed, edits>> /\ faults' \in 0..MaxFaults
  BY AdmissionAssumption DEF Crash, IInv, TypeOK
<1>4. TypeOK'  BY <1>2, <1>3 DEF IInv, TypeOK, cluster, metadata, AllOccurrences
<1>5. ASSUME NEW q \in Requests, Active(q)' PROVE Current(seen[q])'
  <2>1. Active(q)  BY <1>1, <1>5
  <2> QED  BY <1>3, <2>1 DEF IInv, Current, cluster, metadata
<1>6. ASSUME NEW q \in Requests PROVE Good(loc[q], seen[q])'
  <2>1. Good(loc'[q], seen'[q])  BY <1>1, <1>3
  <2> QED  BY <2>1 DEF Good, GoodObject
<1>7. IInv'  BY <1>4, <1>5, <1>6 DEF IInv
<1> QED  BY <1>1, <1>7

\* A request comes in: its history starts with what is true now.
LEMMA ReviewHandlerKeepsIInv ==
    ASSUME IInv, NEW r \in Requests, ReviewHandler(r)
    PROVE  /\ IInv' /\ loc[r].pc = "idle"
           /\ loc'[r].obj \in Objects /\ loc'[r].answer # "lost"
           /\ \A q \in Requests \ {r} : loc'[q] = loc[q] /\ seen'[q] = seen[q]
<1> DEFINE f(o) == [Fresh EXCEPT !.obj = o, !.ownersLeft = o.owners]
           g(o) == CASE o.body = "badReview" -> Answered(Denied(f(o)), "badRequest")
                     [] o.body # "badReview" /\ o.kind \notin handlers -> Respond(f(o))
                     [] o.body = "badObject" /\ o.kind \in handlers ->
                           Answered(f(o), "handlerFailed")
                     [] OTHER -> IF o.owners = {} THEN afterOwners(f(o))
                                 ELSE [f(o) EXCEPT !.pc = "owners"]
<1>1. PICK o \in Objects : Step(r, g(o)) /\ owed' = [owed EXCEPT ![r] = Admissible(o)]
  BY DEF ReviewHandler
<1>2. loc[r].pc = "idle" /\ seen' = [seen EXCEPT ![r] = Now]
      /\ UNCHANGED <<cluster, metadata, bounds>>
  BY DEF ReviewHandler
<1>3. f(o) \in Frame /\ f(o).obj = o /\ f(o).allowed /\ f(o).answer = None /\ f(o).ownersLeft = o.owners
  <2>1. o.owners \in SUBSET OwnerRefs  BY DEF OwnerRefs
  <2>2. f(o) \in Frame  BY <2>1, FreshFrame, SetField
  <2>3. Fresh.allowed /\ Fresh.answer = None  BY DEF Fresh
  <2> QED  BY <2>2, <2>3, FreshFrame DEF Frame
<1> HIDE DEF f
<1>4. g(o) \in Frame /\ Good(g(o), Now) /\ g(o).obj = o /\ g(o).answer # "lost"
  <2>1. CASE o.body = "badReview"
    <3>1. Denied(f(o)) \in Frame /\ Denied(f(o)).obj = o  BY <1>3, DeniedFrame
    <3>2. g(o) = Answered(Denied(f(o)), "badRequest")  BY <2>1
    <3> HIDE DEF g
    <3> QED  BY <3>1, <3>2, AnsweredGood
  <2>2. CASE o.body # "badReview" /\ o.kind \notin handlers
    <3>1. g(o) = Answered(f(o), "allowed")  BY <1>3, <2>2 DEF Respond
    <3>2. Grounds(Now, o)  BY <2>2 DEF Grounds
    <3> HIDE DEF g
    <3> QED  BY <1>3, <3>1, <3>2, AnsweredGood
  <2>3. CASE o.body = "badObject" /\ o.kind \in handlers
    <3>1. g(o) = Answered(f(o), "handlerFailed")  BY <2>3
    <3> HIDE DEF g
    <3> QED  BY <1>3, <3>1, AnsweredGood
  <2>4. CASE o.body \notin {"badReview", "badObject"} /\ o.kind \in handlers /\ o.owners = {}
    <3>1. g(o) = afterOwners(f(o))  BY <2>4
    <3> HIDE DEF g
    <3> QED  BY <1>3, <3>1, AfterOwnersGood, AdmissionAssumption
  <2>5. CASE o.body \notin {"badReview", "badObject"} /\ o.kind \in handlers /\ o.owners # {}
    <3> DEFINE x == [f(o) EXCEPT !.pc = "owners"]
    <3>1. g(o) = x  BY <2>5
    <3>2. "owners" \in PC  BY DEF PC
    <3>3. x \in Frame  BY <1>3, <3>2, SetField
    <3>4. x.pc = "owners" /\ x.obj = o /\ x.allowed /\ x.answer = None /\ x.ownersLeft = o.owners
      <4>1. f(o) \in Frame  BY <1>3
      <4>2. x.pc = "owners" /\ x.obj = f(o).obj /\ x.allowed = f(o).allowed
            /\ x.answer = f(o).answer /\ x.ownersLeft = f(o).ownersLeft
        BY <4>1 DEF Frame
      <4> QED  BY <1>3, <4>2
    <3> HIDE DEF g, x
    <3>5. Good(x, Now)  BY <2>5, <3>4, OwnersPhase DEF GoodOwners
    <3> QED  BY <3>1, <3>3, <3>4, <3>5, AdmissionAssumption
  <2> QED  BY <2>1, <2>2, <2>3, <2>4, <2>5
<1> HIDE DEF g
<1>5. loc' \in [Requests -> Frame] /\ loc'[r] = g(o) /\ \A q \in Requests \ {r} : loc'[q] = loc[q]
  BY <1>1, <1>4 DEF Step, IInv, TypeOK
<1>6. owed' \in [Requests -> BOOLEAN]
  <2>1. Admissible(o) \in BOOLEAN  BY DEF Admissible
  <2> QED  BY <1>1, <2>1 DEF IInv, TypeOK
<1>7. Now \in History  BY NowIsHistory DEF IInv, TypeOK, World
<1>8. TypeOK'
  <2>1. seen' \in [Requests -> History]  BY <1>2, <1>7 DEF IInv, TypeOK
  <2>2. TypeOK  BY DEF IInv
  <2> QED  BY <1>2, <1>5, <1>6, <2>1, <2>2
           DEF TypeOK, cluster, metadata, bounds, AllOccurrences
<1>9. ASSUME NEW q \in Requests, Active(q)' PROVE Current(seen[q])'
  <2>1. CASE q = r
    <3>1. seen'[q] = Now  BY <1>2, <2>1 DEF IInv, TypeOK
    <3> QED  BY <1>2, <3>1, NowIsCurrent DEF Current, cluster, metadata
  <2>2. CASE q # r
    <3>1. seen'[q] = seen[q] /\ Active(q)  BY <1>2, <1>5, <1>9, <2>2 DEF Active, IInv, TypeOK
    <3> QED  BY <1>2, <3>1 DEF IInv, Current, cluster, metadata
  <2> QED  BY <2>1, <2>2
<1>10. ASSUME NEW q \in Requests PROVE Good(loc[q], seen[q])'
  <2>1. Good(loc'[q], seen'[q])
    <3>1. CASE q = r  BY <1>2, <1>4, <1>5, <3>1 DEF IInv, TypeOK
    <3>2. CASE q # r  BY <1>2, <1>5, <3>2 DEF IInv, TypeOK
    <3> QED  BY <3>1, <3>2
  <2> QED  BY <2>1 DEF Good, GoodObject
<1>11. IInv'  BY <1>8, <1>9, <1>10 DEF IInv
<1> QED  BY <1>2, <1>4, <1>5, <1>11 DEF IInv, TypeOK

-----------------------------------------------------------------------------
(* The theorems.                                                           *)

LEMMA InitEstablishesIInv == Init => IInv
<1> SUFFICES ASSUME Init PROVE IInv  OBVIOUS
<1>1. occurrences \subseteq AllOccurrences  BY DEF Init, AllOccurrences
<1>2. Now \in History  BY <1>1, NowIsHistory DEF Init, World
<1>3. TypeOK
  BY <1>1, <1>2, FreshFrame, AdmissionAssumption DEF Init, TypeOK
<1>4. Fresh.pc = "idle" /\ Fresh.obj = None /\ Fresh.allowed /\ Fresh.answer = None
  BY DEF Fresh
<1>5. ASSUME NEW r \in Requests PROVE loc[r] = Fresh /\ seen[r] = Now  BY DEF Init
<1>6. Good(Fresh, Now)
  <2>1. GoodObject(Fresh) /\ GoodAnswer(Fresh, Now)
    BY <1>4, AdmissionAssumption DEF GoodObject, GoodAnswer
  <2>2. GoodOwners(Fresh, Now) /\ GoodVerdict(Fresh, Now)
    BY <1>4 DEF GoodOwners, GoodVerdict, IspPC, IspImagePC
  <2>3. GoodGaps(Fresh, Now) /\ GoodGap(Fresh, Now)
    BY <1>4 DEF GoodGaps, GoodGap, GapPC, GapImagePC
  <2>4. GoodIsps(Fresh, Now) /\ GoodIsp(Fresh, Now) /\ GoodAttest(Fresh, Now)
    BY <1>4 DEF GoodIsps, GoodIsp, GoodAttest, IspPC, IspImagePC, AttestPC
  <2> QED  BY <2>1, <2>2, <2>3, <2>4 DEF Good
<1>7. \A r \in Requests : ~Active(r)  BY <1>4, <1>5 DEF Active
<1> QED  BY <1>3, <1>5, <1>6, <1>7 DEF IInv

\* Every step of a goroutine but the filing of an attestation.
LEMMA WorkAdvances ==
    ASSUME IInv, NEW r \in Requests, Work(r)
    PROVE  Advances(r) \/ CreateOccurrence(r)
BY CheckOwnerAdvances, FetchGAPsAdvances, GapClientAdvances, CheckGAPsAdvances,
   GapImageAdvances, GapNextAdvances, GapAuthorityAdvances, GapVerifyAdvances,
   FetchISPsAdvances, IspClientAdvances, IspNextAdvances, IspAuthorityAdvances,
   IspImageAdvances, IspAttestedAdvances, IspValidateAdvances,
   GetNoteAdvances, CreateNoteAdvances, FetchSecretAdvances
   DEF Work

LEMMA NextKeepsIInv == IInv /\ [Next]_vars => IInv'
<1> SUFFICES ASSUME IInv, [Next]_vars PROVE IInv'  OBVIOUS
<1>1. ASSUME NEW r \in Requests, ReviewHandler(r) PROVE IInv'
  BY <1>1, ReviewHandlerKeepsIInv
<1>2. ASSUME NEW r \in Requests, Work(r) PROVE IInv'
  BY <1>2, WorkAdvances, AdvanceKeepsIInv, CreateOccurrenceKeepsIInv
<1>3. CASE Environment  BY <1>3, EditsKeepIInv, CrashKeepsIInv DEF Environment
<1>4. CASE UNCHANGED vars
  <2>1. UNCHANGED <<clusterGaps, clusterIsps, authorities, workloads, vulnerabilities,
                    occurrences, notes, loc, seen, owed, faults, edits>>
    BY <1>4 DEF vars, cluster, metadata, bounds
  <2>2. TypeOK'  BY <2>1 DEF IInv, TypeOK, AllOccurrences
  <2>3. ASSUME NEW r \in Requests
        PROVE  (Active(r)' => Current(seen[r])') /\ Good(loc[r], seen[r])'
    BY <2>1 DEF IInv, Active, Current, Good, GoodObject
  <2> QED  BY <2>2, <2>3 DEF IInv
<1> QED  BY <1>1, <1>2, <1>3, <1>4 DEF Next

\* At every moment the position of each review in its loops is backed by what
\* has been true since the request came in.
THEOREM Inductive == Spec => []IInv
<1>1. Init => IInv  BY InitEstablishesIInv
<1>2. IInv /\ [Next]_vars => IInv'  BY NextKeepsIInv
<1> QED  BY <1>1, <1>2, PTL DEF Spec

\* The variables keep their types: in particular the webhook only ever files
\* well-formed attestations and only ever creates notes its authorities name.
THEOREM TypeCorrect == Spec => []TypeOK
<1>1. IInv => TypeOK  BY DEF IInv
<1> QED  BY <1>1, Inductive, PTL

\* No object is admitted without grounds, however calls fail, policies are
\* edited, authorities rotate and requests interleave.
THEOREM AdmissionsAreJustified == Spec => []Justified
<1>1. IInv => Justified  BY DEF IInv, Good, GoodAnswer, Justified
<1> QED  BY <1>1, Inductive, PTL

Sticks(r) ==
    /\ ~loc[r].allowed => ~loc'[r].allowed /\ loc'[r].answer # "allowed"
    /\ loc[r].answer # None => loc'[r].answer = loc[r].answer

LEMMA StepSticks ==
    ASSUME IInv, NEW r \in Requests, Active(r), NEW f, Lands(r, f), Step(r, f)
    PROVE  \A q \in Requests : Sticks(q)
<1>1. loc[r].answer = None  BY AtWork
<1>2. f.answer = "allowed" => f.allowed  BY DEF Lands, Good, GoodObject
<1>3. ASSUME NEW q \in Requests PROVE loc'[q] = IF q = r THEN f ELSE loc[q]
  BY DEF Step, IInv, TypeOK
<1>4. \A q \in Requests : loc[q].answer = "allowed" => loc[q].allowed
  BY DEF IInv, Good, GoodObject
<1> QED  BY <1>1, <1>2, <1>3, <1>4 DEF Lands, Sticks

\* A denial by one review is never undone by the other, and an answer stays:
\* the response ReviewHandler starts from is only ever turned into a denial.
THEOREM DenialsStick == Spec => DenialSticks
<1>1. IInv /\ [Next]_vars => \A r \in Requests : Sticks(r)
  <2> SUFFICES ASSUME IInv, [Next]_vars, NEW r \in Requests PROVE Sticks(r)  OBVIOUS
  <2>1. loc[r].answer = "allowed" => loc[r].allowed  BY DEF IInv, Good, GoodObject
  <2>2. loc'[r] = loc[r] => Sticks(r)  BY <2>1 DEF Sticks
  <2>3. ASSUME NEW q \in Requests, ReviewHandler(q) PROVE Sticks(r)
    <3>1. CASE r = q
      <4>1. loc[r].allowed /\ loc[r].answer = None
        BY <2>3, <3>1, ReviewHandlerKeepsIInv DEF IInv, Good, GoodObject
      <4> QED  BY <4>1 DEF Sticks
    <3>2. CASE r # q  BY <2>2, <2>3, <3>2, ReviewHandlerKeepsIInv
    <3> QED  BY <3>1, <3>2
  <2>4. ASSUME NEW q \in Requests, Work(q) PROVE Sticks(r)
    <3>1. CASE Advances(q)  BY <3>1, StepSticks DEF Advances
    <3>2. CASE CreateOccurrence(q)  BY <3>2, CreateOccurrenceLands, StepSticks
    <3> QED  BY <2>4, <3>1, <3>2, WorkAdvances
  <2>5. CASE Crash
    <3>1. \/ loc'[r] = loc[r]
          \/ Active(r) /\ loc'[r].allowed = loc[r].allowed /\ loc'[r].answer = "lost"
      BY <2>5, CrashKeepsIInv
    <3>2. Active(r) => loc[r].answer = None  BY AtWork
    <3> QED  BY <2>2, <3>1, <3>2 DEF Sticks
  <2>6. CASE Environment  BY <2>2, <2>5, <2>6, EditsKeepIInv DEF Environment
  <2>7. CASE UNCHANGED vars  BY <2>2, <2>7 DEF vars
  <2> QED  BY <2>3, <2>4, <2>6, <2>7 DEF Next
<1>2. IInv /\ [Next]_vars =>
        [\A r \in Requests :
            /\ ~loc[r].allowed => ~loc'[r].allowed /\ loc'[r].answer # "allowed"
            /\ loc[r].answer # None => loc'[r].answer = loc[r].answer]_vars
  BY <1>1 DEF Sticks
<1> QED  BY <1>2, Inductive, PTL DEF Spec, DenialSticks

\* The attestation behind a new occurrence that is not of the others' making.
Earned(o) ==
    \E r \in Requests : Active(r) /\
        \E P \in seen[r].isps : \E p \in P, a \in seen[r].auths :
           /\ p.AttestationAuthorityName = a.name
           /\ o.resource \in notGloballyAllowed(loc[r].obj.images)
           /\ o = newOccurrence(a.note, o.resource, SecretKey[p.PrivateKeySecretName])
           /\ seenClean(seen[r], p, o.resource)

LEMMA CreateOccurrenceEarned ==
    ASSUME IInv, NEW r \in Requests, CreateOccurrence(r)
    PROVE  \A o \in (occurrences' \ occurrences) \ Occurrences : Earned(o)
<1> DEFINE f == loc[r]
           p == f.isp
<1>1. Active(r) /\ f.pc = "attest"  BY CreateOccurrenceLands
<1>2. PICK a \in f.auths : occurrences' \subseteq
         occurrences \cup {newOccurrence(a.note, f.image, f.key)}
  BY CreateOccurrenceLands
<1>3. /\ f.ispList \in seen[r].isps /\ p \in f.ispList
      /\ a \in seen[r].auths /\ p.AttestationAuthorityName = a.name
      /\ f.image \in notGloballyAllowed(f.obj.images)
      /\ seenClean(seen[r], p, f.image)
      /\ f.key = SecretKey[p.PrivateKeySecretName]
  BY <1>1 DEF IInv, Good, GoodIsps, GoodIsp, GoodAttest, IspPC, IspImagePC, AttestPC
<1>4. TAKE o \in (occurrences' \ occurrences) \ Occurrences
<1>5. o = newOccurrence(a.note, f.image, f.key) /\ o.resource = f.image
  BY <1>2 DEF newOccurrence
<1> QED  BY <1>1, <1>3, <1>5 DEF Earned

\* What the webhook signs, it has found clean: an attestation is filed only for
\* an image under review, under the note and with the key its policy names.
THEOREM OnlyEarnedAttestations == Spec => AttestationsEarned
<1>1. ASSUME IInv, Next PROVE \A o \in (occurrences' \ occurrences) \ Occurrences : Earned(o)
  <2>1. ASSUME NEW r \in Requests, ReviewHandler(r) PROVE occurrences' = occurrences
    BY <2>1 DEF ReviewHandler, metadata
  <2>2. ASSUME NEW r \in Requests, Advances(r) PROVE occurrences' = occurrences
    BY <2>2 DEF Advances
  <2>3. CASE Environment
    <3>1. occurrences' \ occurrences \subseteq Occurrences
      BY <2>3 DEF Environment, EditGaps, EditIsps, EditAuthority, EditWorkload, Rescan,
                  AddOccurrence, DeleteOccurrence, Crash, metadata
    <3> QED  BY <3>1
  <2> QED  BY <1>1, <2>1, <2>2, <2>3, WorkAdvances, CreateOccurrenceEarned DEF Next
<1>2. IInv /\ [Next]_vars =>
        [\A o \in (occurrences' \ occurrences) \ Occurrences :
          \E r \in Requests : Active(r) /\
              \E P \in seen[r].isps : \E p \in P, a \in seen[r].auths :
                 /\ p.AttestationAuthorityName = a.name
                 /\ o.resource \in notGloballyAllowed(loc[r].obj.images)
                 /\ o = newOccurrence(a.note, o.resource, SecretKey[p.PrivateKeySecretName])
                 /\ seenClean(seen[r], p, o.resource)]_vars
  BY <1>1 DEF Earned
<1> QED  BY <1>2, Inductive, PTL DEF Spec, AttestationsEarned

=============================================================================
