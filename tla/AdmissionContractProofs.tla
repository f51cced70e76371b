----------------------- MODULE AdmissionContractProofs -----------------------
(***************************************************************************)
(* What the webhook promises to the API server and to the user.            *)
(*                                                                         *)
(* Admission implements AdmissionContract: the first state of the webhook  *)
(* is a first state of the contract, and every step of it is a step of the *)
(* contract or none.                                                       *)
(*                                                                         *)
(* No request is denied that the policies admit.  Where a review stands    *)
(* tells which of its checks are still to come, and OwedInv says that they *)
(* will all succeed: the proof follows each goroutine step once more, this *)
(* time for the requests to which an admission is owed.                    *)
(***************************************************************************)
EXTENDS AdmissionRefinement, AdmissionProofs

-----------------------------------------------------------------------------
(* The refinement.                                                         *)

\* What the contract calls open is a request at work.
LEMMA OpenIsActive ==
    ASSUME IInv, NEW r \in Requests
    PROVE  Contract!Open(r) <=> Active(r)
<1>1. Good(loc[r], seen[r])  BY DEF IInv
<1> QED  BY <1>1, AdmissionAssumption DEF Contract!Open, Active, Good, GoodObject

LEMMA InitRefines == Init => Contract!Init
<1> SUFFICES ASSUME Init PROVE Contract!Init  OBVIOUS
<1>1. \A r \in Requests : loc[r].obj = None /\ loc[r].allowed = TRUE /\ loc[r].answer = None
  BY DEF Init, Fresh
<1> QED  BY <1>1 DEF Contract!Init

-----------------------------------------------------------------------------
(* One lemma for each kind of step.                                        *)

\* A request comes in, and the rule for answers holds if it is answered.
LEMMA ReviewHandlerRefines ==
    ASSUME IInv, NEW r \in Requests, ReviewHandler(r)
    PROVE  Contract!Receive(r)
<1>1. /\ IInv' /\ loc[r].pc = "idle"
      /\ loc'[r].obj \in Objects /\ loc'[r].answer # "lost"
      /\ \A q \in Requests \ {r} : loc'[q] = loc[q] /\ seen'[q] = seen[q]
  BY ReviewHandlerKeepsIInv
<1>2. loc[r].obj = None  BY <1>1 DEF IInv, Good, GoodObject
<1>3. /\ loc'[r].answer = "allowed" => loc'[r].allowed /\ Grounds(seen'[r], loc'[r].obj)
      /\ loc'[r].answer = "denied" => ~loc'[r].allowed
  BY <1>1 DEF IInv, Good, GoodObject, GoodAnswer
<1>4. Contract!Fair(r)  BY <1>3 DEF Contract!Fair
<1>5. Contract!OnlyOf(r)  BY <1>1 DEF Contract!OnlyOf
<1> QED  BY <1>1, <1>2, <1>4, <1>5 DEF Contract!Receive

\* A step that leaves the world alone is a decision, an answer or neither.
LEMMA AdvanceRefines ==
    ASSUME IInv, NEW r \in Requests, Advances(r)
    PROVE  Contract!Decide(r)
<1>1. PICK f : Lands(r, f) /\ Step(r, f)  BY DEF Advances
<1>2. Active(r) /\ seen' = seen /\ IInv'  BY AdvanceKeepsIInv DEF Advances
<1>3. loc'[r] = f /\ \A q \in Requests \ {r} : loc'[q] = loc[q]
  BY <1>1 DEF Step, IInv, TypeOK
<1>4. /\ loc'[r].answer = "allowed" => loc'[r].allowed /\ Grounds(seen'[r], loc'[r].obj)
      /\ loc'[r].answer = "denied" => ~loc'[r].allowed
  BY <1>2 DEF IInv, Good, GoodObject, GoodAnswer
<1>5. Contract!Fair(r)  BY <1>4 DEF Contract!Fair
<1>6. Contract!OnlyOf(r)  BY <1>3 DEF Contract!OnlyOf
<1>7. Contract!Open(r)  BY <1>2, OpenIsActive
<1> QED  BY <1>1, <1>2, <1>3, <1>5, <1>6, <1>7 DEF Contract!Decide, Lands

\* Histories take note of a change in the world, which is all that the contract
\* sees of it.
LEMMA ObserveRefines ==
    ASSUME IInv, IInv', Observe,
           \A q \in Requests : /\ loc'[q].obj = loc[q].obj
                               /\ loc'[q].allowed = loc[q].allowed
                               /\ loc'[q].answer = loc[q].answer
    PROVE  Contract!Learn
<1>1. ASSUME NEW q \in Requests
      PROVE  IF Contract!Open(q) THEN includes(seen[q], seen'[q]) ELSE seen'[q] = seen[q]
  <2>1. seen'[q] = IF Active(q) THEN Join(seen[q], Now') ELSE seen[q]  BY DEF Observe
  <2>2. \A k \in DOMAIN seen[q] : seen[q][k] \subseteq Join(seen[q], Now')[k]
    BY DEF Join
  <2> QED  BY <2>1, <2>2, OpenIsActive DEF includes
<1>2. /\ [q \in Requests |-> loc'[q].obj] = [q \in Requests |-> loc[q].obj]
      /\ [q \in Requests |-> ~loc'[q].allowed] = [q \in Requests |-> ~loc[q].allowed]
      /\ [q \in Requests |-> loc'[q].answer] = [q \in Requests |-> loc[q].answer]
  OBVIOUS
<1> QED  BY <1>1, <1>2 DEF Contract!Learn

\* An attestation that the webhook files is a fact like any other.
LEMMA CreateOccurrenceRefines ==
    ASSUME IInv, NEW r \in Requests, CreateOccurrence(r)
    PROVE  Contract!Learn
<1> DEFINE g == [loc[r] EXCEPT !.pc = "ispImage", !.key = None]
<1>1. Step(r, g) /\ Observe  BY DEF CreateOccurrence
<1>2. loc[r] \in Frame  BY DEF IInv, TypeOK
<1>3. g.obj = loc[r].obj /\ g.allowed = loc[r].allowed /\ g.answer = loc[r].answer
  BY <1>2 DEF Frame
<1> HIDE DEF g
<1>4. \A q \in Requests : loc'[q] = IF q = r THEN g ELSE loc[q]
  BY <1>1 DEF Step, IInv, TypeOK
<1>5. IInv'  BY CreateOccurrenceKeepsIInv
<1> QED  BY <1>1, <1>3, <1>4, <1>5, ObserveRefines

LEMMA CrashRefines ==
    ASSUME IInv, Crash
    PROVE  Contract!Lose
<1>1. \A q \in Requests :
         \/ ~Active(q) /\ loc'[q] = loc[q]
         \/ /\ Active(q) /\ loc'[q].answer = "lost"
            /\ loc'[q].obj = loc[q].obj /\ loc'[q].allowed = loc[q].allowed
  BY CrashKeepsIInv
<1>2. \A q \in Requests :
         /\ loc'[q].answer = IF Contract!Open(q) THEN "lost" ELSE loc[q].answer
         /\ loc'[q].obj = loc[q].obj /\ loc'[q].allowed = loc[q].allowed
  BY <1>1, OpenIsActive
<1>3. seen' = seen  BY DEF Crash
<1>4. [q \in Requests |-> loc'[q].answer] =
         [q \in Requests |-> IF Contract!Open(q) THEN "lost"
                             ELSE [p \in Requests |-> loc[p].answer][q]]
  BY <1>2
<1>5. /\ [q \in Requests |-> loc'[q].obj] = [q \in Requests |-> loc[q].obj]
      /\ [q \in Requests |-> ~loc'[q].allowed] = [q \in Requests |-> ~loc[q].allowed]
  BY <1>2
<1> QED  BY <1>3, <1>4, <1>5 DEF Contract!Lose

LEMMA EditsRefine ==
    ASSUME IInv,
           \/ EditGaps \/ EditIsps \/ EditAuthority \/ EditWorkload
           \/ Rescan \/ DeleteOccurrence \/ AddOccurrence
    PROVE  Contract!Learn
<1>1. IInv' /\ loc' = loc  BY EditsKeepIInv
<1>2. Observe
  BY DEF EditGaps, EditIsps, EditAuthority, EditWorkload, Rescan, DeleteOccurrence,
         AddOccurrence, Edit
<1> QED  BY <1>1, <1>2, ObserveRefines

LEMMA NextRefines == IInv /\ [Next]_vars => [Contract!Next]_Contract!contract
<1> SUFFICES ASSUME IInv, [Next]_vars PROVE [Contract!Next]_Contract!contract  OBVIOUS
<1>1. ASSUME NEW r \in Requests, ReviewHandler(r) PROVE Contract!Next
  BY <1>1, ReviewHandlerRefines DEF Contract!Next
<1>2. ASSUME NEW r \in Requests, Work(r) PROVE Contract!Next
  <2>1. CASE Advances(r)  BY <2>1, AdvanceRefines DEF Contract!Next
  <2>2. CASE CreateOccurrence(r)  BY <2>2, CreateOccurrenceRefines DEF Contract!Next
  <2> QED  BY <1>2, <2>1, <2>2, WorkAdvances
<1>3. CASE Environment
  BY <1>3, EditsRefine, CrashRefines DEF Environment, Contract!Next
<1>4. CASE UNCHANGED vars
  <2>1. loc' = loc /\ seen' = seen  BY <1>4 DEF vars
  <2> QED  BY <2>1 DEF Contract!contract
<1> QED  BY <1>1, <1>2, <1>3, <1>4 DEF Next

\* The webhook keeps its contract with the API server, for any number of
\* requests, failures and edits: every step of a goroutine, of the environment
\* and of a crash is one the contract allows.
THEOREM Refinement == Spec => RefinesContract
<1>1. Init => Contract!Init  BY InitRefines
<1>2. IInv /\ [Next]_vars => [Contract!Next]_Contract!contract  BY NextRefines
<1> QED  BY <1>1, <1>2, Inductive, PTL DEF Spec, RefinesContract, Contract!Spec

-----------------------------------------------------------------------------
(* The admissions that are owed.                                           *)

\* All that OwedInv says of a frame.
Course(f) == OnCourse(f) /\ GapsOnCourse(f) /\ IspsOnCourse(f)

\* A call that fails cancels the debt; nobody else's changes.
LEMMA CallOwed ==
    ASSUME TypeOK, NEW r \in Requests, NEW ok \in BOOLEAN,
           Call(r, ok) \/ (ok /\ NoCall)
    PROVE  /\ owed'[r] => owed[r] /\ ok
           /\ \A q \in Requests \ {r} : owed'[q] = owed[q]
<1>1. CASE Call(r, ok)
  <2>1. owed' = [owed EXCEPT ![r] = @ /\ ok]  BY <1>1 DEF Call
  <2>2. owed \in [Requests -> BOOLEAN]  BY DEF TypeOK
  <2> QED  BY <2>1, <2>2, Zenon
<1>2. CASE ok /\ NoCall  BY <1>2 DEF NoCall
<1> QED  BY <1>1, <1>2

-----------------------------------------------------------------------------
(* Lookups.                                                                *)

\* A lookup that is not cut off fails only for an image nobody serves.
LEMMA CacheOnCourse ==
    ASSUME TypeOK, NothingHidden, NEW cache, NEW a, NEW i, \A j \in cache : ~isServed(j)
    PROVE  \A j \in attCacheAfter(cache, occurrences, a, i, TRUE) : ~isServed(j)
<1>1. Metadata # GrafeasMetadata => attestationsParse(occurrences, a.note, i)
  BY DEF TypeOK, NothingHidden, AllOccurrences, newOccurrence, attestationsParse,
         noteOccurrences, hasAttestations
<1>2. CASE Metadata = GrafeasMetadata
  BY <1>2 DEF attCacheAfter, GrafeasMetadata, ContainerAnalysisMetadata
<1>3. CASE Metadata # GrafeasMetadata
  BY <1>1, <1>3 DEF attCacheAfter, attestationsFetched
<1> QED  BY <1>2, <1>3

\* An attestation that is there is found, by the one authority of that name.
LEMMA LookupFinds ==
    ASSUME OwedInv, NEW cache, \A j \in cache : ~isServed(j),
           NEW a \in authorities, NEW i, attestedNow(i, a.name)
    PROVE  isAttestedBy(cache, occurrences, a, i, TRUE)
<1>1. PICK b \in authorities :
         /\ b.name = a.name /\ ~noVerifier(b, i)
         /\ attestationsFetched(occurrences, b, i, TRUE)
         /\ hasValidatedAttestation(b, occurrences, i)
  BY DEF attestedNow
<1>2. b = a  BY <1>1 DEF OwedInv
<1>3. isServed(i)  BY <1>1 DEF attestationsFetched
<1> QED  BY <1>1, <1>2, <1>3 DEF isAttestedBy, attestationCall

-----------------------------------------------------------------------------
(* Which parts of a course matter where.                                   *)

LEMMA DoneCourse ==
    ASSUME NEW f, f.pc = "done", f.attCache = {},
           f.answer \notin {"denied", "badRequest", "handlerFailed"}
    PROVE  Course(f)
BY DEF Course, OnCourse, GapsOnCourse, IspsOnCourse, GapPC, GapImagePC, IspPC, IspImagePC

LEMMA AnsweredCourse ==
    ASSUME NEW f \in Frame, NEW how \in {"allowed", "lost"}
    PROVE  Course(Answered(f, how))
<1> DEFINE g == Answered(f, how)
<1>1. g.pc = "done" /\ g.answer = how /\ g.attCache = {}
  BY FreshFrame DEF Answered, Fresh, Frame
<1> HIDE DEF g
<1> QED  BY <1>1, DoneCourse DEF g

LEMMA RespondCourse ==
    ASSUME NEW f \in Frame, f.allowed
    PROVE  Course(Respond(f))
BY AnsweredCourse DEF Respond

LEMMA EarlyCourse ==
    ASSUME NEW f, f.pc \in {"owners", "gapList"}, OnCourse(f), f.badImages = {}
    PROVE  Course(f)
BY DEF Course, GapsOnCourse, IspsOnCourse, GapPC, GapImagePC, IspPC, IspImagePC

LEMMA GapCourse ==
    ASSUME NEW f, f.pc \in GapPC, OnCourse(f), GapsOnCourse(f)
    PROVE  Course(f)
BY DEF Course, IspsOnCourse, GapPC, IspPC, IspImagePC

LEMMA IspCourse ==
    ASSUME NEW f, f.pc \in {"ispList", "ispClient", "ispNext"} \cup IspPC,
           OnCourse(f), IspsOnCourse(f)
    PROVE  Course(f)
BY DEF Course, GapsOnCourse, GapPC, GapImagePC, IspPC, IspImagePC

\* The policies have the word: neither an owner nor the annotation has spoken.
PoliciesDecide(f) == gapsSatisfied(f.obj.images) /\ ispsSatisfied(f.obj.images)

\* One step of a goroutine: a debt that is still there is on course.
OnTrack(r) ==
    /\ owed'[r] => owed[r] /\ Course(loc'[r])
    /\ \A q \in Requests \ {r} : owed'[q] = owed[q]

LEMMA TrackStep ==
    ASSUME IInv, NEW r \in Requests, NEW ok \in BOOLEAN,
           Call(r, ok) \/ (ok /\ NoCall), NEW g, Step(r, g),
           owed[r] /\ ok => Course(g)
    PROVE  OnTrack(r)
<1>1. loc'[r] = g  BY DEF Step, IInv, TypeOK
<1>2. TypeOK  BY DEF IInv
<1> QED  BY <1>1, <1>2, CallOwed DEF OnTrack

LEMMA Owing ==
    ASSUME IInv, OwedInv, NEW r \in Requests, owed[r], Active(r)
    PROVE  /\ loc[r] \in Frame /\ loc[r].obj \in Objects /\ loc[r].answer = None
           /\ Good(loc[r], seen[r]) /\ Course(loc[r])
           /\ loc[r].allowed /\ loc[r].obj.kind \in handlers /\ Admissible(loc[r].obj)
           /\ \A i \in loc[r].attCache : ~isServed(i)
<1>1. loc[r].pc \notin {"idle", "done"}  BY DEF Active
<1>2. OnCourse(loc[r]) /\ Admissible(loc[r].obj) /\ Course(loc[r])  BY DEF OwedInv, Course
<1>3. loc[r] \in Frame /\ Good(loc[r], seen[r])  BY DEF IInv, TypeOK
<1> QED  BY <1>1, <1>2, <1>3 DEF OnCourse, Good, GoodObject

\* Once the owners and the annotation are behind, the policies say yes.
LEMMA OwingPolicies ==
    ASSUME IInv, OwedInv, NEW r \in Requests, owed[r], Active(r), loc[r].pc # "owners"
    PROVE  PoliciesDecide(loc[r])
BY Owing DEF Course, OnCourse, Active, PoliciesDecide

-----------------------------------------------------------------------------
(* The owners.                                                             *)

LEMMA AfterOwnersCourse ==
    ASSUME NEW f \in Frame, f.allowed, f.answer = None, f.obj.kind \in handlers,
           f.badImages = {}, \A i \in f.attCache : ~isServed(i),
           f.obj.breakglass \/ PoliciesDecide(f)
    PROVE  Course(afterOwners(f))
<1>1. CASE f.obj.breakglass  BY <1>1, RespondCourse DEF afterOwners
<1>2. CASE ~f.obj.breakglass
  <2> DEFINE g == [f EXCEPT !.pc = "gapList"]
  <2>1. /\ g.pc = "gapList" /\ g.obj = f.obj /\ g.allowed = f.allowed /\ g.answer = None
        /\ g.badImages = {} /\ g.attCache = f.attCache
    BY DEF Frame
  <2> HIDE DEF g
  <2>2. OnCourse(g)
    BY <1>2, <2>1, AdmissionAssumption DEF OnCourse, PoliciesDecide
  <2>3. Course(g)  BY <2>1, <2>2, EarlyCourse
  <2> QED  BY <1>2, <2>3 DEF afterOwners, g
<1> QED  BY <1>1, <1>2

LEMMA CheckOwnerTracks ==
    ASSUME IInv, OwedInv, NEW r \in Requests, CheckOwner(r)
    PROVE  OnTrack(r)
<1> DEFINE f == loc[r]
           valid(w, ok) == /\ ok /\ w.kind \in handlers /\ workloads[w.name] # {}
                           /\ imagesAreValid(f.obj.images, workloads[w.name])
           rest == [f EXCEPT !.ownersLeft = {}]
           more(w) == [f EXCEPT !.ownersLeft = @ \ {w}]
           g(w, ok) == CASE ~valid(w, ok) -> afterOwners(rest)
                         [] valid(w, ok) /\ f.ownersLeft = {w} -> Respond(f)
                         [] OTHER -> more(w)
<1>1. Active(r) /\ f.pc = "owners"  BY DEF CheckOwner, Active
<1>2. PICK w \in f.ownersLeft, ok \in BOOLEAN : Call(r, ok) /\ Step(r, g(w, ok))
  BY DEF CheckOwner
<1>3. ASSUME owed[r], ok PROVE Course(g(w, ok))
  <2>1. /\ f \in Frame /\ f.allowed /\ f.answer = None /\ f.obj.kind \in handlers
        /\ Admissible(f.obj) /\ \A i \in f.attCache : ~isServed(i)
    BY <1>1, <1>3, Owing
  <2>2. f.ownersLeft \subseteq f.obj.owners /\ f.badImages = {}
    BY <1>1, <1>3, Owing DEF Course, OnCourse, GapsOnCourse
  <2>3. CASE ~valid(w, ok)
    <3>1. ~ownersVouch(f.obj)  BY <1>3, <2>2, <2>3 DEF ownersVouch
    <3>2. f.obj.breakglass \/ PoliciesDecide(f)
      BY <2>1, <3>1 DEF Admissible, PoliciesDecide
    <3>3. /\ rest \in Frame /\ rest.obj = f.obj /\ rest.allowed = f.allowed
          /\ rest.answer = None /\ rest.badImages = {} /\ rest.attCache = f.attCache
      <4>1. f \in Frame /\ f.answer = None /\ f.badImages = {}  BY <2>1, <2>2
      <4>2. rest \in Frame  BY <4>1, SetField
      <4> QED  BY <4>1, <4>2 DEF Frame
    <3> HIDE DEF rest
    <3>4. Course(afterOwners(rest))
      BY <2>1, <3>2, <3>3, AfterOwnersCourse DEF PoliciesDecide
    <3> QED  BY <2>3, <3>4
  <2>4. CASE valid(w, ok) /\ f.ownersLeft = {w}  BY <2>1, <2>4, RespondCourse
  <2>5. CASE valid(w, ok) /\ f.ownersLeft # {w}
    <3>1. /\ more(w).pc = f.pc /\ more(w).obj = f.obj /\ more(w).allowed = f.allowed
          /\ more(w).answer = None /\ more(w).badImages = {}
          /\ more(w).attCache = f.attCache /\ more(w).ownersLeft \subseteq f.ownersLeft
      BY <2>1, <2>2 DEF Frame
    <3> HIDE DEF more
    <3>2. OnCourse(more(w))
      BY <1>1, <2>1, <2>2, <3>1, AdmissionAssumption DEF OnCourse
    <3>3. Course(more(w))  BY <1>1, <3>1, <3>2, EarlyCourse
    <3> QED  BY <2>5, <3>3
  <2> QED  BY <2>3, <2>4, <2>5
<1> HIDE DEF g
<1> QED  BY <1>2, <1>3, TrackStep

-----------------------------------------------------------------------------
(* The generic attestation policies.                                       *)

LEMMA FetchGAPsTracks ==
    ASSUME IInv, OwedInv, NEW r \in Requests, FetchGAPs(r)
    PROVE  OnTrack(r)
<1> DEFINE f == loc[r]
           g == [f EXCEPT !.gapList = clusterGaps,
                          !.pc = IF clusterGaps = {} THEN "ispList" ELSE "gapClient"]
           x(ok) == IF ~ok THEN Respond(Denied(f)) ELSE g
<1>1. Active(r) /\ f.pc = "gapList"  BY DEF FetchGAPs, Active
<1>2. PICK ok \in BOOLEAN : Call(r, ok) /\ Step(r, x(ok))  BY DEF FetchGAPs
<1>3. ASSUME owed[r], ok PROVE Course(x(ok))
  <2>1. f \in Frame /\ OnCourse(f) /\ f.badImages = {}
    BY <1>1, <1>3, Owing DEF Course, GapsOnCourse
  <2>2. /\ g.pc = (IF clusterGaps = {} THEN "ispList" ELSE "gapClient")
        /\ g.gapList = clusterGaps /\ g.obj = f.obj /\ g.allowed = f.allowed
        /\ g.answer = f.answer /\ g.badImages = f.badImages /\ g.attCache = f.attCache
    BY <2>1 DEF Frame
  <2> HIDE DEF g
  <2>3. OnCourse(g)  BY <1>1, <2>1, <2>2 DEF OnCourse
  <2>4. CASE clusterGaps = {}
    <3>1. IspsOnCourse(g)  BY <2>2, <2>4 DEF IspsOnCourse, IspPC, IspImagePC
    <3> QED  BY <1>3, <2>2, <2>3, <2>4, <3>1, IspCourse
  <2>5. CASE clusterGaps # {}
    <3>1. GapsOnCourse(g)  BY <2>1, <2>2, <2>5 DEF GapsOnCourse, GapImagePC
    <3> QED  BY <1>3, <2>2, <2>3, <2>5, <3>1, GapCourse DEF GapPC
  <2> QED  BY <2>4, <2>5
<1> HIDE DEF x
<1> QED  BY <1>2, <1>3, TrackStep

\* The policies being satisfied, they are well formed.
LEMMA GapsWellFormed ==
    ASSUME IInv, OwedInv, NEW r \in Requests, owed[r], loc[r].pc \in GapPC
    PROVE  /\ loc[r].gapList = clusterGaps /\ loc[r].badImages = {}
           /\ \A p \in clusterGaps :
                 /\ p.AttestationAuthorityNames # {}
                 /\ \A n \in p.AttestationAuthorityNames : exists(n)
           /\ \A i \in gapReviewed(loc[r].obj.images, clusterGaps) :
                 \E p \in clusterGaps : allAttested(p, i)
           /\ loc[r] \in Frame /\ OnCourse(loc[r]) /\ GapsOnCourse(loc[r])
<1>1. Active(r) /\ loc[r].pc # "owners"  BY DEF GapPC, Active
<1>2. Course(loc[r]) /\ PoliciesDecide(loc[r]) /\ Good(loc[r], seen[r]) /\ loc[r] \in Frame
  BY <1>1, Owing, OwingPolicies
<1>3. loc[r].gapList = clusterGaps /\ clusterGaps # {} /\ loc[r].badImages = {}
  BY <1>2 DEF Course, GapsOnCourse, Good, GoodGaps
<1> QED  BY <1>2, <1>3 DEF PoliciesDecide, gapsSatisfied, allAttested, Course

LEMMA GapClientTracks ==
    ASSUME IInv, OwedInv, NEW r \in Requests, GapClient(r)
    PROVE  OnTrack(r)
<1> DEFINE f == loc[r]
           pairs == UNION {{p} \X p.AttestationAuthorityNames : p \in f.gapList}
           malformed == \E p \in f.gapList : p.AttestationAuthorityNames = {}
           g == [f EXCEPT !.pc = "gapCheck", !.toCheck = pairs]
           x(ok) == IF ~ok \/ malformed THEN gapsFailed(f) ELSE g
<1>1. Active(r) /\ f.pc = "gapClient" /\ f.pc \in GapPC  BY DEF GapClient, Active, GapPC
<1>2. PICK ok \in BOOLEAN : Call(r, ok) /\ Step(r, x(ok))  BY DEF GapClient
<1>3. ASSUME owed[r], ok PROVE Course(x(ok))
  <2>1. /\ f \in Frame /\ OnCourse(f) /\ f.gapList = clusterGaps /\ f.badImages = {}
        /\ ~malformed /\ \A p \in f.gapList : \A n \in p.AttestationAuthorityNames : exists(n)
    BY <1>1, <1>3, GapsWellFormed
  <2>2. ASSUME NEW c \in pairs PROVE exists(c[2])
    <3>1. PICK p \in f.gapList : c \in {p} \X p.AttestationAuthorityNames  OBVIOUS
    <3>2. c[2] \in p.AttestationAuthorityNames  BY <3>1
    <3> QED  BY <2>1, <3>2
  <2> HIDE DEF pairs
  <2>3. /\ g.pc = "gapCheck" /\ g.toCheck = pairs /\ g.gapList = f.gapList
        /\ g.obj = f.obj /\ g.allowed = f.allowed /\ g.answer = f.answer
        /\ g.badImages = f.badImages /\ g.attCache = f.attCache
    <3>1. f \in Frame  BY <2>1
    <3> QED  BY <3>1 DEF Frame
  <2> HIDE DEF g
  <2>4. OnCourse(g)  BY <1>1, <2>1, <2>3 DEF OnCourse
  <2>5. GapsOnCourse(g)  BY <2>1, <2>2, <2>3 DEF GapsOnCourse, GapImagePC
  <2>6. Course(g)  BY <2>3, <2>4, <2>5, GapCourse DEF GapPC
  <2> QED  BY <1>3, <2>1, <2>6
<1> HIDE DEF x
<1> QED  BY <1>2, <1>3, TrackStep

LEMMA CheckGAPsTracks ==
    ASSUME IInv, OwedInv, NEW r \in Requests, CheckGAPs(r)
    PROVE  OnTrack(r)
<1> DEFINE f == loc[r]
           more(c) == [f EXCEPT !.toCheck = @ \ {c}]
           g == [f EXCEPT !.pc = "gapImage", !.toCheck = {},
                          !.imagesLeft = gapReviewed(f.obj.images, f.gapList)]
           x(c, ok) == CASE ~ok \/ ~exists(c[2]) -> gapsFailed(f)
                         [] ok /\ exists(c[2]) /\ f.toCheck # {c} -> more(c)
                         [] OTHER -> g
<1>1. f.pc = "gapCheck" /\ f.pc \in GapPC  BY DEF CheckGAPs, GapPC
<1>2. PICK c \in f.toCheck, ok \in BOOLEAN : Call(r, ok) /\ Step(r, x(c, ok))
  BY DEF CheckGAPs
<1>3. ASSUME owed[r], ok PROVE Course(x(c, ok))
  <2>1. /\ f \in Frame /\ OnCourse(f) /\ f.gapList = clusterGaps /\ f.badImages = {}
        /\ \A d \in f.toCheck : exists(d[2])
    BY <1>1, <1>3, GapsWellFormed DEF GapsOnCourse
  <2>2. f \in Frame  BY <2>1
  <2>3. CASE f.toCheck # {c}
    <3>1. /\ more(c).pc = f.pc /\ more(c).toCheck \subseteq f.toCheck
          /\ more(c).gapList = f.gapList /\ more(c).obj = f.obj
          /\ more(c).allowed = f.allowed /\ more(c).answer = f.answer
          /\ more(c).badImages = f.badImages /\ more(c).attCache = f.attCache
      BY <2>2 DEF Frame
    <3>2. x(c, ok) = more(c)  BY <1>3, <2>1, <2>3
    <3> HIDE DEF x, more
    <3>3. OnCourse(more(c))  BY <1>1, <2>1, <3>1 DEF OnCourse
    <3>4. GapsOnCourse(more(c))  BY <1>1, <2>1, <3>1 DEF GapsOnCourse, GapImagePC
    <3> QED  BY <1>1, <3>1, <3>2, <3>3, <3>4, GapCourse
  <2>4. CASE f.toCheck = {c}
    <3>1. /\ g.pc = "gapImage" /\ g.imagesLeft = gapReviewed(f.obj.images, f.gapList)
          /\ g.gapList = f.gapList /\ g.obj = f.obj
          /\ g.allowed = f.allowed /\ g.answer = f.answer
          /\ g.badImages = f.badImages /\ g.attCache = f.attCache
      BY <2>2 DEF Frame
    <3>2. x(c, ok) = g  BY <1>3, <2>1, <2>4
    <3> HIDE DEF x, g
    <3>3. OnCourse(g)  BY <1>1, <2>1, <3>1 DEF OnCourse
    <3>4. GapsOnCourse(g)  BY <2>1, <3>1 DEF GapsOnCourse, GapImagePC
    <3> QED  BY <3>1, <3>2, <3>3, <3>4, GapCourse DEF GapPC
  <2> QED  BY <2>3, <2>4
<1> HIDE DEF x
<1> QED  BY <1>2, <1>3, TrackStep

LEMMA GapImageTracks ==
    ASSUME IInv, OwedInv, NEW r \in Requests, GapImage(r)
    PROVE  OnTrack(r)
<1> DEFINE f == loc[r]
           g(i) == [f EXCEPT !.pc = "gapNext", !.image = i,
                             !.imagesLeft = @ \ {i}, !.gapsLeft = f.gapList]
<1>1. f.pc = "gapImage" /\ f.pc \in GapPC /\ NoCall  BY DEF GapImage, GapPC
<1>2. CASE f.imagesLeft = {} /\ Step(r, IF f.badImages = {} THEN gapsDone(f) ELSE gapsFailed(f))
  <2>1. ASSUME owed[r]
        PROVE  Course(IF f.badImages = {} THEN gapsDone(f) ELSE gapsFailed(f))
    <3>1. f \in Frame /\ OnCourse(f) /\ f.badImages = {}  BY <1>1, <2>1, GapsWellFormed
    <3> DEFINE x == gapsDone(f)
    <3>2. /\ x.pc = "ispList" /\ x.obj = f.obj /\ x.allowed = f.allowed
          /\ x.answer = None /\ x.attCache = {}
      BY FreshFrame DEF gapsDone, Fresh, Frame
    <3> HIDE DEF x
    <3>3. OnCourse(x)  BY <1>1, <3>1, <3>2, AdmissionAssumption DEF OnCourse
    <3>4. IspsOnCourse(x)  BY <3>2 DEF IspsOnCourse, IspPC, IspImagePC
    <3>5. Course(x)  BY <3>2, <3>3, <3>4, IspCourse
    <3> QED  BY <3>1, <3>5 DEF x
  <2> QED  BY <1>1, <1>2, <2>1, TrackStep
<1>3. ASSUME NEW i \in f.imagesLeft, Step(r, g(i)) PROVE OnTrack(r)
  <2>1. ASSUME owed[r] PROVE Course(g(i))
    <3>1. /\ f \in Frame /\ OnCourse(f) /\ f.gapList = clusterGaps /\ f.badImages = {}
          /\ \A j \in gapReviewed(f.obj.images, clusterGaps) :
                \E p \in clusterGaps : allAttested(p, j)
          /\ f.imagesLeft \subseteq gapReviewed(f.obj.images, f.gapList)
      BY <1>1, <2>1, GapsWellFormed DEF GapsOnCourse
    <3>2. f \in Frame  BY <3>1
    <3>3. /\ g(i).pc = "gapNext" /\ g(i).image = i /\ g(i).gapsLeft = f.gapList
          /\ g(i).imagesLeft \subseteq f.imagesLeft
          /\ g(i).gapList = f.gapList /\ g(i).obj = f.obj
          /\ g(i).allowed = f.allowed /\ g(i).answer = f.answer
          /\ g(i).badImages = f.badImages /\ g(i).attCache = f.attCache
      BY <3>2 DEF Frame
    <3> HIDE DEF g
    <3>4. OnCourse(g(i))  BY <1>1, <3>1, <3>3 DEF OnCourse
    <3>5. GapsOnCourse(g(i))  BY <1>3, <3>1, <3>3 DEF GapsOnCourse, GapImagePC
    <3> QED  BY <3>3, <3>4, <3>5, GapCourse DEF GapPC
  <2> QED  BY <1>1, <1>3, <2>1, TrackStep
<1> QED  BY <1>2, <1>3 DEF GapImage

LEMMA GapNextTracks ==
    ASSUME IInv, OwedInv, NEW r \in Requests, GapNext(r)
    PROVE  OnTrack(r)
<1> DEFINE f == loc[r]
           bad == [f EXCEPT !.pc = "gapImage", !.badImages = @ \cup {f.image}]
           g(p) == [f EXCEPT !.pc = "gapAuths", !.gap = p, !.gapsLeft = @ \ {p},
                             !.namesLeft = p.AttestationAuthorityNames,
                             !.auths = {}, !.missing = FALSE]
<1>1. f.pc = "gapNext" /\ f.pc \in GapPC /\ NoCall  BY DEF GapNext, GapPC
<1>2. CASE f.gapsLeft = {} /\ Step(r, bad)
  <2>1. ~owed[r]  BY <1>1, <1>2, GapsWellFormed DEF GapsOnCourse
  <2> HIDE DEF bad
  <2> QED  BY <1>1, <1>2, <2>1, TrackStep
<1>3. ASSUME NEW p \in f.gapsLeft, Step(r, g(p)) PROVE OnTrack(r)
  <2>1. ASSUME owed[r] PROVE Course(g(p))
    <3>1. /\ f \in Frame /\ OnCourse(f) /\ f.gapList = clusterGaps /\ f.badImages = {}
          /\ f.imagesLeft \subseteq gapReviewed(f.obj.images, f.gapList)
          /\ \E q \in f.gapsLeft : allAttested(q, f.image)
      BY <1>1, <2>1, GapsWellFormed DEF GapsOnCourse, GapImagePC
    <3>2. f \in Frame  BY <3>1
    <3>3. /\ g(p).pc = "gapAuths" /\ g(p).image = f.image /\ g(p).gapsLeft = f.gapsLeft \ {p}
          /\ g(p).gap = p /\ g(p).namesLeft = p.AttestationAuthorityNames
          /\ g(p).auths = {} /\ ~g(p).missing /\ g(p).imagesLeft = f.imagesLeft
          /\ g(p).gapList = f.gapList /\ g(p).obj = f.obj
          /\ g(p).allowed = f.allowed /\ g(p).answer = f.answer
          /\ g(p).badImages = f.badImages /\ g(p).attCache = f.attCache
      BY <3>2 DEF Frame
    <3> HIDE DEF g
    <3>4. OnCourse(g(p))  BY <1>1, <3>1, <3>3 DEF OnCourse
    <3>5. GapsOnCourse(g(p))  BY <3>1, <3>3 DEF GapsOnCourse, GapImagePC
    <3> QED  BY <3>3, <3>4, <3>5, GapCourse DEF GapPC
  <2> QED  BY <1>1, <1>3, <2>1, TrackStep
<1> QED  BY <1>2, <1>3 DEF GapNext

LEMMA GapAuthorityTracks ==
    ASSUME IInv, OwedInv, NEW r \in Requests, GapAuthority(r)
    PROVE  OnTrack(r)
<1> DEFINE f == loc[r]
           g(a, n) == [f EXCEPT !.auths = @ \cup {a}, !.namesLeft = @ \ {n},
                                !.pc = IF f.namesLeft = {n} THEN "gapVerify" ELSE @]
<1>1. f.pc = "gapAuths" /\ f.pc \in GapPC  BY DEF GapAuthority, GapPC
<1>2. PICK n \in f.namesLeft, ok \in BOOLEAN :
         /\ Call(r, ok)
         /\ \/ (~ok \/ ~exists(n)) /\ Step(r, gapsFailed(f))
            \/ ok /\ \E a \in authorities : a.name = n /\ Step(r, g(a, n))
  BY DEF GapAuthority
<1>3. CASE (~ok \/ ~exists(n)) /\ Step(r, gapsFailed(f))
  <2>1. ~(owed[r] /\ ok)
    <3> SUFFICES ASSUME owed[r] PROVE exists(n)  BY <1>3
    <3>1. f.gap \in f.gapList  BY <1>1 DEF IInv, Good, GoodGap
    <3> QED  BY <1>1, <1>2, <3>1, GapsWellFormed DEF GapsOnCourse
  <2> QED  BY <1>2, <1>3, <2>1, TrackStep
<1>4. ASSUME NEW a \in authorities, ok, a.name = n, Step(r, g(a, n)) PROVE OnTrack(r)
  <2>1. ASSUME owed[r] PROVE Course(g(a, n))
    <3>1. /\ f \in Frame /\ OnCourse(f) /\ GapsOnCourse(f)
      BY <1>1, <2>1, GapsWellFormed
    <3>2. f \in Frame  BY <3>1
    <3>3. /\ g(a, n).pc = (IF f.namesLeft = {n} THEN "gapVerify" ELSE "gapAuths")
          /\ g(a, n).image = f.image /\ g(a, n).gapsLeft = f.gapsLeft
          /\ g(a, n).gap = f.gap /\ g(a, n).namesLeft \subseteq f.namesLeft
          /\ g(a, n).auths = f.auths \cup {a} /\ g(a, n).missing = f.missing
          /\ g(a, n).imagesLeft = f.imagesLeft
          /\ g(a, n).gapList = f.gapList /\ g(a, n).obj = f.obj
          /\ g(a, n).allowed = f.allowed /\ g(a, n).answer = f.answer
          /\ g(a, n).badImages = f.badImages /\ g(a, n).attCache = f.attCache
      BY <1>1, <3>2 DEF Frame
    <3> HIDE DEF g
    <3>4. OnCourse(g(a, n))  BY <1>1, <3>1, <3>3 DEF OnCourse
    <3>5. GapsOnCourse(g(a, n))
      BY <1>1, <1>2, <1>4, <3>1, <3>3 DEF GapsOnCourse, GapPC, GapImagePC
    <3> QED  BY <3>3, <3>4, <3>5, GapCourse DEF GapPC
  <2> QED  BY <1>2, <1>4, <2>1, TrackStep
<1> QED  BY <1>2, <1>3, <1>4

LEMMA GapVerifyTracks ==
    ASSUME IInv, OwedInv, NothingHidden, NEW r \in Requests, GapVerify(r)
    PROVE  OnTrack(r)
<1> DEFINE f == loc[r]
           lacking(a, ok) == f.missing \/ ~isAttestedBy(f.attCache, occurrences, a, f.image, ok)
           cache(a, ok) == attCacheAfter(f.attCache, occurrences, a, f.image, ok)
           next(a, ok) == CASE f.auths # {a} -> f.pc
                            [] f.auths = {a} /\ lacking(a, ok) -> "gapNext"
                            [] OTHER -> "gapImage"
           g(a, ok) == [f EXCEPT !.auths = @ \ {a}, !.missing = lacking(a, ok),
                                 !.attCache = cache(a, ok), !.pc = next(a, ok)]
<1>1. f.pc = "gapVerify" /\ f.pc \in GapPC  BY DEF GapVerify, GapPC
<1>2. PICK a \in f.auths, ok \in BOOLEAN :
         /\ Call(r, ok) \/ (ok /\ NoCall)
         /\ Step(r, g(a, ok))
  BY DEF GapVerify
<1>3. ASSUME owed[r], ok PROVE Course(g(a, ok))
  <2>1. f \in Frame /\ OnCourse(f) /\ GapsOnCourse(f)  BY <1>1, <1>3, GapsWellFormed
  <2>2. f \in Frame  BY <2>1
  <2>3. \A i \in cache(a, TRUE) : ~isServed(i)
    BY <2>1, CacheOnCourse DEF OnCourse, IInv
  <2>4. allAttested(f.gap, f.image) => isAttestedBy(f.attCache, occurrences, a, f.image, TRUE)
    BY <1>1, <2>1, LookupFinds DEF OnCourse, GapsOnCourse, allAttested
  <2>5. ok = TRUE  BY <1>3
  <2>6. next(a, ok) \in {"gapVerify", "gapNext", "gapImage"}
        /\ (next(a, ok) = "gapNext" => lacking(a, ok))
    BY <1>1
  <2> HIDE DEF cache, next, lacking
  <2>7. /\ g(a, ok).pc = next(a, ok) /\ g(a, ok).auths = f.auths \ {a}
        /\ g(a, ok).missing = lacking(a, ok) /\ g(a, ok).attCache = cache(a, ok)
        /\ g(a, ok).image = f.image /\ g(a, ok).gapsLeft = f.gapsLeft
        /\ g(a, ok).gap = f.gap /\ g(a, ok).namesLeft = f.namesLeft
        /\ g(a, ok).imagesLeft = f.imagesLeft
        /\ g(a, ok).gapList = f.gapList /\ g(a, ok).obj = f.obj
        /\ g(a, ok).allowed = f.allowed /\ g(a, ok).answer = f.answer
        /\ g(a, ok).badImages = f.badImages
    BY <2>2 DEF Frame
  <2> HIDE DEF g
  <2>8. OnCourse(g(a, ok))  BY <1>1, <2>1, <2>3, <2>5, <2>6, <2>7 DEF OnCourse
  <2>9. GapsOnCourse(g(a, ok))
    <3>1. \/ \E p \in f.gapsLeft : allAttested(p, f.image)
          \/ ~lacking(a, ok) /\ allAttested(f.gap, f.image)
      BY <1>1, <2>1, <2>4, <2>5 DEF GapsOnCourse, lacking
    <3>2. /\ f.badImages = {} /\ f.gapList = clusterGaps /\ f.auths \subseteq authorities
          /\ f.imagesLeft \subseteq gapReviewed(f.obj.images, f.gapList)
          /\ f.namesLeft \subseteq f.gap.AttestationAuthorityNames
          /\ \A b \in f.auths : b.name \in f.gap.AttestationAuthorityNames
      BY <1>1, <2>1 DEF GapsOnCourse, GapPC, GapImagePC
    <3> QED  BY <2>6, <2>7, <3>1, <3>2 DEF GapsOnCourse, GapImagePC
  <2> QED  BY <2>6, <2>7, <2>8, <2>9, GapCourse DEF GapPC
<1> HIDE DEF g
<1> QED  BY <1>2, <1>3, TrackStep

-----------------------------------------------------------------------------
(* The image security policies.                                            *)

LEMMA FetchISPsTracks ==
    ASSUME IInv, OwedInv, NEW r \in Requests, FetchISPs(r)
    PROVE  OnTrack(r)
<1> DEFINE f == loc[r]
           g == [f EXCEPT !.pc = "ispClient", !.ispList = clusterIsps]
           x(ok) == CASE ~ok -> Respond(Denied(f))
                      [] ok /\ clusterIsps = {} -> Respond(f)
                      [] OTHER -> g
<1>1. Active(r) /\ f.pc = "ispList"  BY DEF FetchISPs, Active
<1>2. PICK ok \in BOOLEAN : Call(r, ok) /\ Step(r, x(ok))  BY DEF FetchISPs
<1>3. ASSUME owed[r], ok PROVE Course(x(ok))
  <2>1. f \in Frame /\ f.allowed /\ OnCourse(f)  BY <1>1, <1>3, Owing DEF Course
  <2>2. f \in Frame  BY <2>1
  <2>3. /\ g.pc = "ispClient" /\ g.ispList = clusterIsps /\ g.obj = f.obj
        /\ g.allowed = f.allowed /\ g.answer = f.answer /\ g.attCache = f.attCache
    BY <2>2 DEF Frame
  <2> HIDE DEF g
  <2>4. OnCourse(g)  BY <1>1, <2>1, <2>3 DEF OnCourse
  <2>5. IspsOnCourse(g)  BY <2>3 DEF IspsOnCourse, IspPC, IspImagePC
  <2>6. Course(g)  BY <2>3, <2>4, <2>5, IspCourse
  <2>7. Course(Respond(f))  BY <2>1, RespondCourse
  <2> QED  BY <1>3, <2>6, <2>7
<1> HIDE DEF x
<1> QED  BY <1>2, <1>3, TrackStep

LEMMA IspClientTracks ==
    ASSUME IInv, OwedInv, NEW r \in Requests, IspClient(r)
    PROVE  OnTrack(r)
<1> DEFINE f == loc[r]
           g == [f EXCEPT !.pc = "ispNext", !.ispsLeft = f.ispList, !.attCache = {}]
           x(ok) == CASE ~ok -> Respond(Denied(f))
                      [] ok /\ notGloballyAllowed(f.obj.images) = {} -> Respond(f)
                      [] OTHER -> g
<1>1. Active(r) /\ f.pc = "ispClient"  BY DEF IspClient, Active
<1>2. PICK ok \in BOOLEAN : Call(r, ok) /\ Step(r, x(ok))  BY DEF IspClient
<1>3. ASSUME owed[r], ok PROVE Course(x(ok))
  <2>1. f \in Frame /\ f.allowed /\ OnCourse(f) /\ f.ispList = clusterIsps
    BY <1>1, <1>3, Owing DEF Course, IspsOnCourse
  <2>2. f \in Frame  BY <2>1
  <2>3. Course(Respond(f))  BY <2>1, RespondCourse
  <2>4. CASE notGloballyAllowed(f.obj.images) = {}  BY <1>3, <2>3, <2>4
  <2>5. CASE notGloballyAllowed(f.obj.images) # {}
    <3>1. /\ g.pc = "ispNext" /\ g.ispList = f.ispList /\ g.obj = f.obj
          /\ g.allowed = f.allowed /\ g.answer = f.answer /\ g.attCache = {}
      BY <2>2 DEF Frame
    <3> HIDE DEF g
    <3>2. OnCourse(g)  BY <1>1, <2>1, <3>1 DEF OnCourse
    <3>3. IspsOnCourse(g)  BY <2>1, <2>5, <3>1 DEF IspsOnCourse, IspPC, IspImagePC
    <3>4. Course(g)  BY <3>1, <3>2, <3>3, IspCourse
    <3> QED  BY <1>3, <2>5, <3>4
  <2> QED  BY <2>4, <2>5
<1> HIDE DEF x
<1> QED  BY <1>2, <1>3, TrackStep

\* The policies being satisfied, their authorities exist and every image is
\* attested or clean.
LEMMA IspsWellFormed ==
    ASSUME IInv, OwedInv, NEW r \in Requests, owed[r], loc[r].pc \in {"ispNext"} \cup IspPC
    PROVE  /\ loc[r].ispList = clusterIsps
           /\ \A p \in clusterIsps :
                 /\ p.AttestationAuthorityName # "" => exists(p.AttestationAuthorityName)
                 /\ \A i \in notGloballyAllowed(loc[r].obj.images) : satisfiesIsp(p, i)
           /\ loc[r] \in Frame /\ OnCourse(loc[r]) /\ IspsOnCourse(loc[r]) /\ loc[r].allowed
           /\ notGloballyAllowed(loc[r].obj.images) # {}
<1>1. Active(r) /\ loc[r].pc # "owners"  BY DEF IspPC, IspImagePC, Active
<1>2. Course(loc[r]) /\ PoliciesDecide(loc[r]) /\ loc[r] \in Frame /\ loc[r].allowed
  BY <1>1, Owing, OwingPolicies
<1>3. loc[r].ispList = clusterIsps /\ notGloballyAllowed(loc[r].obj.images) # {}
  BY <1>2 DEF Course, IspsOnCourse
<1> QED  BY <1>2, <1>3 DEF PoliciesDecide, ispsSatisfied, Course

LEMMA IspNextTracks ==
    ASSUME IInv, OwedInv, NEW r \in Requests, IspNext(r)
    PROVE  OnTrack(r)
<1> DEFINE f == loc[r]
           g(p) == [f EXCEPT !.isp = p, !.ispsLeft = @ \ {p}, !.auths = {},
                     !.imagesLeft = notGloballyAllowed(f.obj.images),
                     !.pc = IF p.AttestationAuthorityName = "" THEN "ispImage" ELSE "ispAuth"]
<1>1. f.pc = "ispNext" /\ NoCall  BY DEF IspNext
<1>2. CASE Step(r, Respond(f))
  <2>1. owed[r] => Course(Respond(f))  BY <1>1, IspsWellFormed, RespondCourse
  <2> QED  BY <1>1, <1>2, <2>1, TrackStep
<1>3. ASSUME NEW p \in f.ispsLeft, Step(r, g(p)) PROVE OnTrack(r)
  <2>1. ASSUME owed[r] PROVE Course(g(p))
    <3>1. /\ f \in Frame /\ OnCourse(f) /\ f.ispList = clusterIsps
          /\ notGloballyAllowed(f.obj.images) # {}
      BY <1>1, <2>1, IspsWellFormed
    <3>2. f \in Frame  BY <3>1
    <3>3. /\ g(p).pc = (IF p.AttestationAuthorityName = "" THEN "ispImage" ELSE "ispAuth")
          /\ g(p).isp = p /\ g(p).auths = {} /\ g(p).ispList = f.ispList /\ g(p).obj = f.obj
          /\ g(p).allowed = f.allowed /\ g(p).answer = f.answer /\ g(p).attCache = f.attCache
      BY <3>2 DEF Frame
    <3> HIDE DEF g
    <3>4. OnCourse(g(p))  BY <1>1, <3>1, <3>3 DEF OnCourse
    <3>5. IspsOnCourse(g(p))  BY <3>1, <3>3 DEF IspsOnCourse, IspPC, IspImagePC
    <3> QED  BY <3>3, <3>4, <3>5, IspCourse DEF IspPC
  <2> QED  BY <1>1, <1>3, <2>1, TrackStep
<1> QED  BY <1>2, <1>3 DEF IspNext

LEMMA IspAuthorityTracks ==
    ASSUME IInv, OwedInv, NEW r \in Requests, IspAuthority(r)
    PROVE  OnTrack(r)
<1> DEFINE f == loc[r]
           n == f.isp.AttestationAuthorityName
           g(a) == [f EXCEPT !.pc = "ispImage", !.auths = {a}]
<1>1. f.pc = "ispAuth" /\ f.pc \in IspPC  BY DEF IspAuthority, IspPC
<1>2. PICK ok \in BOOLEAN :
         /\ Call(r, ok)
         /\ \/ (~ok \/ ~exists(n)) /\ Step(r, Respond(Denied(f)))
            \/ ok /\ \E a \in authorities : a.name = n /\ Step(r, g(a))
  BY DEF IspAuthority
<1>3. CASE (~ok \/ ~exists(n)) /\ Step(r, Respond(Denied(f)))
  <2>1. ~(owed[r] /\ ok)
    <3> SUFFICES ASSUME owed[r] PROVE exists(n)  BY <1>3
    <3>1. f.isp \in f.ispList  BY <1>1 DEF IInv, Good, GoodIsp
    <3> QED  BY <1>1, <3>1, IspsWellFormed DEF IspsOnCourse
  <2> QED  BY <1>2, <1>3, <2>1, TrackStep
<1>4. ASSUME NEW a \in authorities, ok, a.name = n, Step(r, g(a)) PROVE OnTrack(r)
  <2>1. ASSUME owed[r] PROVE Course(g(a))
    <3>1. /\ f \in Frame /\ OnCourse(f) /\ f.ispList = clusterIsps /\ n # ""
          /\ notGloballyAllowed(f.obj.images) # {}
      BY <1>1, <2>1, IspsWellFormed DEF IspsOnCourse
    <3>2. f \in Frame  BY <3>1
    <3>3. /\ g(a).pc = "ispImage" /\ g(a).isp = f.isp /\ g(a).auths = {a}
          /\ g(a).ispList = f.ispList /\ g(a).obj = f.obj
          /\ g(a).allowed = f.allowed /\ g(a).answer = f.answer /\ g(a).attCache = f.attCache
      BY <3>2 DEF Frame
    <3> HIDE DEF g
    <3>4. OnCourse(g(a))  BY <1>1, <3>1, <3>3 DEF OnCourse
    <3>5. IspsOnCourse(g(a))  BY <3>1, <3>3 DEF IspsOnCourse, IspPC, IspImagePC
    <3> QED  BY <3>3, <3>4, <3>5, IspCourse DEF IspPC
  <2> QED  BY <1>2, <1>4, <2>1, TrackStep
<1> QED  BY <1>2, <1>3, <1>4

\* A step from image to image under one policy that finds no fault.
LEMMA IspStepCourse ==
    ASSUME NEW f, NEW g, OnCourse(f), IspsOnCourse(f),
           f.pc \in {"ispImage"} \cup IspImagePC,
           g.pc \in {"ispNext", "ispImage"} \cup IspImagePC,
           g.isp = f.isp, g.auths = f.auths, g.ispList = f.ispList, g.obj = f.obj,
           g.allowed = f.allowed, g.answer = f.answer,
           \A i \in g.attCache : ~isServed(i),
           g.pc = "ispValidate" =>
              \/ g.image \in g.isp.ImageAllowlist
              \/ /\ g.image \in FullyQualified /\ isServed(g.image)
                 /\ validateVulnz(g.isp, vulnerabilities[g.image]) = "clean"
    PROVE  Course(g)
<1>1. OnCourse(g)  BY DEF OnCourse, IspImagePC
<1>2. IspsOnCourse(g)  BY DEF IspsOnCourse, IspPC, IspImagePC
<1> QED  BY <1>1, <1>2, IspCourse DEF IspPC

LEMMA IspImageTracks ==
    ASSUME IInv, OwedInv, NEW r \in Requests, IspImage(r)
    PROVE  OnTrack(r)
<1> DEFINE f == loc[r]
           last == [f EXCEPT !.pc = "ispNext"]
           g(i) == [f EXCEPT !.image = i, !.imagesLeft = @ \ {i},
                     !.pc = IF f.auths = {} THEN "ispValidate" ELSE "ispAttested"]
<1>1. f.pc = "ispImage" /\ f.pc \in IspPC /\ NoCall  BY DEF IspImage, IspPC
<1>2. CASE Step(r, last)
  <2>1. ASSUME owed[r] PROVE Course(last)
    <3>1. f \in Frame /\ OnCourse(f) /\ IspsOnCourse(f)  BY <1>1, <2>1, IspsWellFormed
    <3>2. f \in Frame  BY <3>1
    <3>3. /\ last.pc = "ispNext" /\ last.isp = f.isp /\ last.auths = f.auths
          /\ last.ispList = f.ispList /\ last.obj = f.obj
          /\ last.allowed = f.allowed /\ last.answer = f.answer /\ last.attCache = f.attCache
      BY <3>2 DEF Frame
    <3> HIDE DEF last
    <3>4. \A i \in f.attCache : ~isServed(i)  BY <3>1 DEF OnCourse
    <3> QED  BY <1>1, <3>1, <3>3, <3>4, IspStepCourse
  <2> HIDE DEF last
  <2> QED  BY <1>1, <1>2, <2>1, TrackStep
<1>3. ASSUME NEW i \in f.imagesLeft, Step(r, g(i)) PROVE OnTrack(r)
  <2>1. ASSUME owed[r] PROVE Course(g(i))
    <3>1. f \in Frame /\ OnCourse(f) /\ IspsOnCourse(f)  BY <1>1, <2>1, IspsWellFormed
    <3>2. f \in Frame  BY <3>1
    <3>3. /\ g(i).pc = (IF f.auths = {} THEN "ispValidate" ELSE "ispAttested")
          /\ g(i).image = i /\ g(i).isp = f.isp /\ g(i).auths = f.auths
          /\ g(i).ispList = f.ispList /\ g(i).obj = f.obj
          /\ g(i).allowed = f.allowed /\ g(i).answer = f.answer /\ g(i).attCache = f.attCache
      BY <3>2 DEF Frame
    <3> HIDE DEF g
    <3>4. \A j \in f.attCache : ~isServed(j)  BY <3>1 DEF OnCourse
    <3>5. ASSUME f.auths = {}
          PROVE  \/ i \in f.isp.ImageAllowlist
                 \/ /\ i \in FullyQualified /\ isServed(i)
                    /\ validateVulnz(f.isp, vulnerabilities[i]) = "clean"
      <4>1. f.isp \in f.ispList /\ i \in notGloballyAllowed(f.obj.images)
        BY <1>1 DEF IInv, Good, GoodIsp
      <4>2. satisfiesIsp(f.isp, i)  BY <1>1, <2>1, <4>1, IspsWellFormed
      <4>3. f.isp.AttestationAuthorityName = ""  BY <1>1, <3>1, <3>5 DEF IspsOnCourse
      <4> QED  BY <4>2, <4>3 DEF satisfiesIsp
    <3> QED  BY <1>1, <3>1, <3>3, <3>4, <3>5, IspStepCourse DEF IspImagePC
  <2> QED  BY <1>1, <1>3, <2>1, TrackStep
<1> QED  BY <1>2, <1>3 DEF IspImage

LEMMA IspAttestedTracks ==
    ASSUME IInv, OwedInv, NothingHidden, NEW r \in Requests, IspAttested(r)
    PROVE  OnTrack(r)
<1> DEFINE f == loc[r]
           cache(a, ok) == attCacheAfter(f.attCache, occurrences, a, f.image, ok)
           found(a, ok) == isAttestedBy(f.attCache, occurrences, a, f.image, ok)
           g(a, ok) == [f EXCEPT !.attCache = cache(a, ok),
                          !.pc = IF found(a, ok) THEN "ispImage" ELSE "ispValidate"]
<1>1. f.pc = "ispAttested" /\ f.pc \in IspPC /\ f.pc \in IspImagePC
  BY DEF IspAttested, IspPC, IspImagePC
<1>2. PICK a \in f.auths, ok \in BOOLEAN :
         (Call(r, ok) \/ (ok /\ NoCall)) /\ Step(r, g(a, ok))
  BY DEF IspAttested
<1>3. ASSUME owed[r], ok PROVE Course(g(a, ok))
  <2>1. f \in Frame /\ OnCourse(f) /\ IspsOnCourse(f)  BY <1>1, <1>3, IspsWellFormed
  <2>2. f \in Frame  BY <2>1
  <2>3. \A i \in cache(a, TRUE) : ~isServed(i)
    BY <2>1, CacheOnCourse DEF OnCourse, IInv
  <2>4. ok = TRUE  BY <1>3
  <2>5. ASSUME ~found(a, TRUE)
        PROVE  \/ f.image \in f.isp.ImageAllowlist
               \/ /\ f.image \in FullyQualified /\ isServed(f.image)
                  /\ validateVulnz(f.isp, vulnerabilities[f.image]) = "clean"
    <3>1. /\ f.isp \in f.ispList /\ f.image \in notGloballyAllowed(f.obj.images)
          /\ a.name = f.isp.AttestationAuthorityName
      BY <1>1 DEF IInv, Good, GoodIsp
    <3>2. satisfiesIsp(f.isp, f.image)  BY <1>1, <1>3, <3>1, IspsWellFormed
    <3>3. a \in authorities  BY <1>1, <2>1 DEF IspsOnCourse
    <3>4. ~attestedNow(f.image, a.name)  BY <2>1, <2>5, <3>3, LookupFinds DEF OnCourse
    <3> QED  BY <3>1, <3>2, <3>4 DEF satisfiesIsp
  <2> HIDE DEF cache, found
  <2>6. /\ g(a, ok).pc = (IF found(a, ok) THEN "ispImage" ELSE "ispValidate")
        /\ g(a, ok).attCache = cache(a, ok) /\ g(a, ok).image = f.image
        /\ g(a, ok).isp = f.isp /\ g(a, ok).auths = f.auths
        /\ g(a, ok).ispList = f.ispList /\ g(a, ok).obj = f.obj
        /\ g(a, ok).allowed = f.allowed /\ g(a, ok).answer = f.answer
    BY <2>2 DEF Frame
  <2> HIDE DEF g
  <2> QED  BY <1>1, <2>1, <2>3, <2>4, <2>5, <2>6, IspStepCourse DEF IspImagePC
<1> HIDE DEF g
<1> QED  BY <1>2, <1>3, TrackStep

LEMMA IspValidateTracks ==
    ASSUME IInv, OwedInv, NEW r \in Requests, IspValidate(r)
    PROVE  OnTrack(r)
<1> DEFINE f == loc[r]
           g == [f EXCEPT !.pc = IF f.auths = {} THEN "ispImage" ELSE "noteGet"]
           x(ok) == IF validate(f.isp, f.image, vulnerabilities[f.image], ok) # "clean"
                    THEN Respond(Denied(f)) ELSE g
<1>1. f.pc = "ispValidate" /\ f.pc \in IspPC /\ f.pc \in IspImagePC
  BY DEF IspValidate, IspPC, IspImagePC
<1>2. PICK ok \in BOOLEAN : (Call(r, ok) \/ (ok /\ NoCall)) /\ Step(r, x(ok))
  BY DEF IspValidate
<1>3. ASSUME owed[r], ok PROVE Course(x(ok))
  <2>1. f \in Frame /\ OnCourse(f) /\ IspsOnCourse(f)  BY <1>1, <1>3, IspsWellFormed
  <2>2. f \in Frame  BY <2>1
  <2>3. validate(f.isp, f.image, vulnerabilities[f.image], ok) = "clean"
    <3>1. \/ f.image \in f.isp.ImageAllowlist
          \/ /\ f.image \in FullyQualified /\ isServed(f.image)
             /\ validateVulnz(f.isp, vulnerabilities[f.image]) = "clean"
      BY <1>1, <2>1 DEF IspsOnCourse
    <3>2. CASE f.image \in f.isp.ImageAllowlist
      BY <3>2 DEF validate, vulnerabilityCall
    <3>3. CASE f.image \notin f.isp.ImageAllowlist
      BY <1>3, <3>1, <3>3 DEF validate, vulnerabilityCall
    <3> QED  BY <3>2, <3>3
  <2>4. /\ g.pc = (IF f.auths = {} THEN "ispImage" ELSE "noteGet")
        /\ g.attCache = f.attCache /\ g.isp = f.isp /\ g.auths = f.auths
        /\ g.ispList = f.ispList /\ g.obj = f.obj
        /\ g.allowed = f.allowed /\ g.answer = f.answer
    BY <2>2 DEF Frame
  <2> HIDE DEF g
  <2>5. \A i \in f.attCache : ~isServed(i)  BY <2>1 DEF OnCourse
  <2>6. Course(g)  BY <1>1, <2>1, <2>4, <2>5, IspStepCourse DEF IspImagePC
  <2> QED  BY <2>3, <2>6
<1> HIDE DEF x
<1> QED  BY <1>2, <1>3, TrackStep

\* Attesting an image cannot turn into a denial.
LEMMA AttestStepCourse ==
    ASSUME IInv, OwedInv, NEW r \in Requests, owed[r], loc[r].pc \in AttestPC,
           NEW pc \in {"ispImage"} \cup AttestPC, NEW key
    PROVE  /\ Course([loc[r] EXCEPT !.pc = pc])
           /\ Course([loc[r] EXCEPT !.pc = pc, !.key = key])
<1> DEFINE f == loc[r]
           g == [f EXCEPT !.pc = pc]
           h == [f EXCEPT !.pc = pc, !.key = key]
<1>1. f \in Frame /\ OnCourse(f) /\ IspsOnCourse(f)
  BY IspsWellFormed DEF AttestPC, IspPC, IspImagePC
<1>2. f \in Frame  BY <1>1
<1>3. \A i \in f.attCache : ~isServed(i)  BY <1>1 DEF OnCourse
<1>4. f.pc \in IspImagePC /\ pc \in {"ispImage"} \cup IspImagePC /\ pc # "ispValidate"
  BY DEF AttestPC, IspImagePC
<1>5. /\ g.pc = pc /\ g.attCache = f.attCache /\ g.isp = f.isp /\ g.auths = f.auths
      /\ g.ispList = f.ispList /\ g.obj = f.obj
      /\ g.allowed = f.allowed /\ g.answer = f.answer
  BY <1>2 DEF Frame
<1>6. /\ h.pc = pc /\ h.attCache = f.attCache /\ h.isp = f.isp /\ h.auths = f.auths
      /\ h.ispList = f.ispList /\ h.obj = f.obj
      /\ h.allowed = f.allowed /\ h.answer = f.answer
  BY <1>2 DEF Frame
<1> HIDE DEF g, h
<1>7. Course(g)  BY <1>1, <1>3, <1>4, <1>5, IspStepCourse
<1>8. Course(h)  BY <1>1, <1>3, <1>4, <1>6, IspStepCourse
<1> QED  BY <1>7, <1>8 DEF g, h

LEMMA GetNoteTracks ==
    ASSUME IInv, OwedInv, NEW r \in Requests, GetNote(r)
    PROVE  OnTrack(r)
<1>1. loc[r].pc \in AttestPC  BY DEF GetNote, AttestPC
<1>2. PICK ok \in BOOLEAN, pc \in {"secret", "noteCreate"} :
         Call(r, ok) /\ Step(r, [loc[r] EXCEPT !.pc = pc])
  BY DEF GetNote
<1>3. owed[r] => Course([loc[r] EXCEPT !.pc = pc])
  BY <1>1, AttestStepCourse DEF AttestPC
<1> QED  BY <1>2, <1>3, TrackStep

LEMMA CreateNoteTracks ==
    ASSUME IInv, OwedInv, NEW r \in Requests, CreateNote(r)
    PROVE  OnTrack(r)
<1>1. loc[r].pc \in AttestPC  BY DEF CreateNote, AttestPC
<1>2. PICK ok \in BOOLEAN, pc \in {"secret", "ispImage"} :
         Call(r, ok) /\ Step(r, [loc[r] EXCEPT !.pc = pc])
  BY DEF CreateNote
<1>3. owed[r] => Course([loc[r] EXCEPT !.pc = pc])
  BY <1>1, AttestStepCourse DEF AttestPC
<1> QED  BY <1>2, <1>3, TrackStep

LEMMA FetchSecretTracks ==
    ASSUME IInv, OwedInv, NEW r \in Requests, FetchSecret(r)
    PROVE  OnTrack(r)
<1> DEFINE f == loc[r]
           s == f.isp.PrivateKeySecretName
           g == [f EXCEPT !.pc = "attest", !.key = SecretKey[s]]
           h == [f EXCEPT !.pc = "ispImage"]
<1>1. f.pc \in AttestPC  BY DEF FetchSecret, AttestPC
<1>2. PICK ok \in BOOLEAN : Call(r, ok) /\ (Step(r, g) \/ Step(r, h))
  BY DEF FetchSecret
<1>3. owed[r] => Course(g) /\ Course(h)
  BY <1>1, AttestStepCourse DEF AttestPC
<1> HIDE DEF g, h
<1>4. CASE Step(r, g)  BY <1>2, <1>3, <1>4, TrackStep
<1>5. CASE Step(r, h)  BY <1>2, <1>3, <1>5, TrackStep
<1> QED  BY <1>2, <1>4, <1>5

LEMMA CreateOccurrenceTracks ==
    ASSUME IInv, OwedInv, NEW r \in Requests, CreateOccurrence(r)
    PROVE  OnTrack(r)
<1> DEFINE g == [loc[r] EXCEPT !.pc = "ispImage", !.key = None]
<1>1. loc[r].pc \in AttestPC  BY DEF CreateOccurrence, AttestPC
<1>2. PICK ok \in BOOLEAN : Call(r, ok) /\ Step(r, g)  BY DEF CreateOccurrence
<1>3. owed[r] => Course(g)  BY <1>1, AttestStepCourse DEF AttestPC
<1> HIDE DEF g
<1> QED  BY <1>2, <1>3, TrackStep

LEMMA WorkTracks ==
    ASSUME IInv, OwedInv, NothingHidden, NEW r \in Requests, Work(r)
    PROVE  OnTrack(r)
BY CheckOwnerTracks, FetchGAPsTracks, GapClientTracks, CheckGAPsTracks,
   GapImageTracks, GapNextTracks, GapAuthorityTracks, GapVerifyTracks,
   FetchISPsTracks, IspClientTracks, IspNextTracks, IspAuthorityTracks,
   IspImageTracks, IspAttestedTracks, IspValidateTracks,
   GetNoteTracks, CreateNoteTracks, FetchSecretTracks, CreateOccurrenceTracks
   DEF Work

-----------------------------------------------------------------------------
(* The world, as far as a debt depends on it: it stays, or attestations of *)
(* a kind that the client knows are added to it.                           *)

WorldKept ==
    /\ UNCHANGED <<cluster, vulnerabilities>>
    /\ occurrences \subseteq occurrences'
    /\ \A o \in occurrences' \ occurrences : o.known

LEMMA AttestedKept ==
    ASSUME WorldKept
    PROVE  /\ \A i, n : attestedNow(i, n) => attestedNow(i, n)'
           /\ \A n : exists(n) <=> exists(n)'
<1>1. authorities' = authorities  BY DEF WorldKept, cluster
<1>2. \A a, i : attestationsFetched(occurrences, a, i, TRUE)
                   => attestationsFetched(occurrences', a, i, TRUE)
  BY DEF WorldKept, attestationsFetched, attestationsParse, noteOccurrences, hasAttestations
<1>3. \A a, i : hasValidatedAttestation(a, occurrences, i)
                   => hasValidatedAttestation(a, occurrences', i)
  BY DEF WorldKept, hasValidatedAttestation, noteOccurrences
<1> QED  BY <1>1, <1>2, <1>3 DEF attestedNow, exists

LEMMA PoliciesKept ==
    ASSUME WorldKept
    PROVE  /\ \A I : gapsSatisfied(I) => gapsSatisfied(I)'
           /\ \A I : ispsSatisfied(I) => ispsSatisfied(I)'
           /\ \A o : Admissible(o) => Admissible(o)'
<1>1. UNCHANGED <<clusterGaps, clusterIsps, workloads, vulnerabilities>>
  BY DEF WorldKept, cluster
<1>2. \A I : gapsSatisfied(I) => gapsSatisfied(I)'
  BY <1>1, AttestedKept DEF gapsSatisfied
<1>3. \A p, i : satisfiesIsp(p, i) => satisfiesIsp(p, i)'
  BY <1>1, AttestedKept DEF satisfiesIsp
<1>4. \A I : ispsSatisfied(I) => ispsSatisfied(I)'
  BY <1>1, <1>3, AttestedKept DEF ispsSatisfied
<1>5. \A o : ownersVouch(o) => ownersVouch(o)'  BY <1>1 DEF ownersVouch
<1>6. \A o : Admissible(o) => Admissible(o)'
  BY <1>2, <1>4, <1>5 DEF Admissible
<1> QED  BY <1>2, <1>4, <1>6

LEMMA CourseKept ==
    ASSUME WorldKept
    PROVE  \A f : Course(f) =>
              OnCourse(f)' /\ GapsOnCourse(f)' /\ IspsOnCourse(f)'
<1>1. UNCHANGED <<clusterGaps, clusterIsps, authorities, vulnerabilities>>
  BY DEF WorldKept, cluster
<1>2. \A g, i : allAttested(g, i) => allAttested(g, i)'
  BY AttestedKept DEF allAttested
<1>3. \A f : OnCourse(f) => OnCourse(f)'  BY PoliciesKept DEF OnCourse
<1>4. \A f : GapsOnCourse(f) => GapsOnCourse(f)'
  BY <1>1, <1>2, AttestedKept DEF GapsOnCourse
<1>5. \A f : IspsOnCourse(f) => IspsOnCourse(f)'
  BY <1>1 DEF IspsOnCourse
<1> QED  BY <1>3, <1>4, <1>5 DEF Course

\* The debts that are left after a step are on course.
LEMMA OwedInvKept ==
    ASSUME OwedInv, WorldKept,
           \A q \in Requests : owed'[q] =>
              /\ Course(loc'[q]) /\ Admissible(loc'[q].obj) /\ loc'[q].pc # "idle"
    PROVE  OwedInv'
<1>1. authorities' = authorities  BY DEF WorldKept, cluster
<1>2. ASSUME NEW q \in Requests, owed'[q]
      PROVE  (/\ loc[q].pc # "idle" /\ Admissible(loc[q].obj)
              /\ OnCourse(loc[q]) /\ GapsOnCourse(loc[q]) /\ IspsOnCourse(loc[q]))'
  BY <1>2, CourseKept, PoliciesKept
<1> QED  BY <1>1, <1>2 DEF OwedInv

LEMMA WorkKeepsOwedInv ==
    ASSUME IInv, OwedInv, NothingHidden, NEW r \in Requests, Work(r)
    PROVE  OwedInv'
<1>1. OnTrack(r)  BY WorkTracks
<1>2. PICK f : Lands(r, f) /\ Step(r, f)
  BY WorkAdvances, CreateOccurrenceLands DEF Advances
<1>3. Active(r)  BY WorkAdvances, CreateOccurrenceLands DEF Advances
<1>4. WorldKept
  <2>1. CASE Advances(r)  BY <2>1 DEF Advances, WorldKept
  <2>2. CASE CreateOccurrence(r)
    <3>1. PICK a \in loc[r].auths : occurrences' \in {occurrences,
             occurrences \cup {newOccurrence(a.note, loc[r].image, loc[r].key)}}
      BY <2>2 DEF CreateOccurrence
    <3> QED  BY <2>2, <3>1 DEF CreateOccurrence, WorldKept, newOccurrence
  <2> QED  BY <2>1, <2>2, WorkAdvances
<1>5. ASSUME NEW q \in Requests, owed'[q]
      PROVE  Course(loc'[q]) /\ Admissible(loc'[q].obj) /\ loc'[q].pc # "idle"
  <2>1. loc'[q] = IF q = r THEN f ELSE loc[q]  BY <1>2 DEF Step, IInv, TypeOK
  <2>2. CASE q = r
    <3>1. Course(f) /\ owed[r]  BY <1>1, <1>5, <2>1, <2>2 DEF OnTrack
    <3>2. Admissible(loc[r].obj) /\ f.obj = loc[r].obj
      BY <1>2, <3>1 DEF OwedInv, Lands
    <3>3. f.pc # "idle"
      <4>1. loc[r].obj \in Objects  BY <1>3, AtWork
      <4> QED  BY <1>2, <4>1, AdmissionAssumption DEF Lands, Good, GoodObject
    <3> QED  BY <2>1, <2>2, <3>1, <3>2, <3>3
  <2>3. CASE q # r
    <3>1. owed[q]  BY <1>1, <1>5, <2>3 DEF OnTrack
    <3> QED  BY <2>1, <2>3, <3>1 DEF OwedInv, Course
  <2> QED  BY <2>2, <2>3
<1> QED  BY <1>4, <1>5, OwedInvKept

LEMMA CrashKeepsOwedInv ==
    ASSUME IInv, OwedInv, Crash
    PROVE  OwedInv'
<1>1. WorldKept  BY DEF Crash, WorldKept, metadata
<1>2. ASSUME NEW q \in Requests, owed'[q]
      PROVE  Course(loc'[q]) /\ Admissible(loc'[q].obj) /\ loc'[q].pc # "idle"
  <2>1. owed[q]  BY <1>2 DEF Crash
  <2>2. loc[q].pc # "idle" /\ Admissible(loc[q].obj) /\ Course(loc[q])
    BY <2>1 DEF OwedInv, Course
  <2>3. loc'[q] = IF Active(q) THEN Answered(loc[q], "lost") ELSE loc[q]  BY DEF Crash
  <2>4. CASE Active(q)
    <3>1. loc[q] \in Frame /\ loc[q].obj \in Objects  BY <2>4, AtWork
    <3>2. Answered(loc[q], "lost").obj = loc[q].obj /\ Answered(loc[q], "lost").pc = "done"
      BY <3>1, AnsweredGood
    <3>3. Course(Answered(loc[q], "lost"))  BY <3>1, AnsweredCourse
    <3> QED  BY <2>2, <2>3, <2>4, <3>2, <3>3
  <2>5. CASE ~Active(q)  BY <2>2, <2>3, <2>5
  <2> QED  BY <2>4, <2>5
<1> QED  BY <1>1, <1>2, OwedInvKept

\* An edit cancels all debts, unless it adds an attestation of a known kind.
LEMMA EditsKeepOwedInv ==
    ASSUME IInv, OwedInv,
           \/ EditGaps \/ EditIsps \/ EditAuthority \/ EditWorkload
           \/ Rescan \/ DeleteOccurrence \/ AddOccurrence
    PROVE  OwedInv'
<1>1. CASE EditGaps \/ EditIsps \/ EditAuthority \/ EditWorkload \/ Rescan \/ DeleteOccurrence
  <2>1. \A q \in Requests : ~owed'[q]
    BY <1>1 DEF EditGaps, EditIsps, EditAuthority, EditWorkload, Rescan, DeleteOccurrence, Edit
  <2>2. \A a, b \in authorities' : a.name = b.name => a = b
    <3>1. CASE EditAuthority
      <4>1. PICK n \in AuthNames :
               authorities' \in {{a \in authorities : a.name # n}} \cup
                  {{a \in authorities : a.name # n} \cup {b} : b \in {c \in Authorities : c.name = n}}
        BY <3>1 DEF EditAuthority
      <4> QED  BY <4>1 DEF OwedInv
    <3>2. CASE ~EditAuthority
      BY <1>1, <3>2 DEF OwedInv, EditGaps, EditIsps, EditWorkload, Rescan, DeleteOccurrence,
                        cluster
    <3> QED  BY <3>1, <3>2
  <2> QED  BY <2>1, <2>2 DEF OwedInv
<1>2. CASE AddOccurrence
  <2>1. PICK o \in Occurrences : occurrences' = occurrences \cup {o} /\ Edit(o.known)
    BY <1>2 DEF AddOccurrence
  <2>2. o.known \in BOOLEAN  BY AdmissionAssumption
  <2>3. \A q \in Requests : owed'[q] => owed[q] /\ o.known  BY <2>1, <2>2 DEF Edit
  <2>4. loc' = loc  BY <2>1 DEF Edit
  <2>5. CASE o.known
    <3>1. WorldKept  BY <1>2, <2>1, <2>5 DEF AddOccurrence, WorldKept
    <3> QED  BY <2>3, <2>4, <3>1, OwedInvKept DEF OwedInv, Course
  <2>6. CASE ~o.known
    <3>1. authorities' = authorities  BY <1>2 DEF AddOccurrence, cluster
    <3> QED  BY <2>3, <2>6, <3>1 DEF OwedInv
  <2> QED  BY <2>5, <2>6
<1> QED  BY <1>1, <1>2

\* A request that its policies admit sets out on course.
LEMMA ReviewHandlerKeepsOwedInv ==
    ASSUME IInv, OwedInv, NEW r \in Requests, ReviewHandler(r)
    PROVE  OwedInv'
<1> DEFINE f(o) == [Fresh EXCEPT !.obj = o, !.ownersLeft = o.owners]
           own(o) == [f(o) EXCEPT !.pc = "owners"]
           g(o) == CASE o.body = "badReview" -> Answered(Denied(f(o)), "badRequest")
                     [] o.body # "badReview" /\ o.kind \notin handlers -> Respond(f(o))
                     [] o.body = "badObject" /\ o.kind \in handlers ->
                           Answered(f(o), "handlerFailed")
                     [] OTHER -> IF o.owners = {} THEN afterOwners(f(o)) ELSE own(o)
<1>1. PICK o \in Objects : Step(r, g(o)) /\ owed' = [owed EXCEPT ![r] = Admissible(o)]
  BY DEF ReviewHandler
<1>2. WorldKept  BY DEF ReviewHandler, WorldKept, metadata
<1>3. /\ f(o) \in Frame /\ f(o).obj = o /\ f(o).allowed /\ f(o).answer = None
      /\ f(o).ownersLeft = o.owners /\ f(o).badImages = {} /\ f(o).attCache = {}
  <2>1. o.owners \in SUBSET OwnerRefs  BY DEF OwnerRefs
  <2>2. f(o) \in Frame  BY <2>1, FreshFrame, SetField
  <2>3. Fresh.allowed /\ Fresh.answer = None /\ Fresh.badImages = {} /\ Fresh.attCache = {}
    BY DEF Fresh
  <2> QED  BY <2>2, <2>3, FreshFrame DEF Frame
<1> HIDE DEF f
<1>4. ASSUME Admissible(o) PROVE Course(g(o))
  <2>1. o.body # "badReview"  BY <1>4 DEF Admissible
  <2>2. CASE o.kind \notin handlers
    <3>1. g(o) = Respond(f(o))  BY <2>1, <2>2
    <3> HIDE DEF g
    <3> QED  BY <1>3, <3>1, RespondCourse
  <2>3. CASE o.kind \in handlers
    <3>1. o.body = "ok" /\ (o.breakglass \/ ownersVouch(o) \/
             (gapsSatisfied(o.images) /\ ispsSatisfied(o.images)))
      BY <1>4, <2>3 DEF Admissible
    <3>2. CASE o.owners = {}
      <4>1. g(o) = afterOwners(f(o))  BY <2>3, <3>1, <3>2
      <4>2. f(o).obj.breakglass \/ PoliciesDecide(f(o))
        BY <1>3, <3>1, <3>2 DEF ownersVouch, PoliciesDecide
      <4> HIDE DEF g
      <4> QED  BY <1>3, <2>3, <4>1, <4>2, AfterOwnersCourse
    <3>3. CASE o.owners # {}
      <4>1. g(o) = own(o)  BY <2>3, <3>1, <3>3
      <4>2. f(o) \in Frame  BY <1>3
      <4>3. /\ own(o).pc = "owners" /\ own(o).obj = f(o).obj /\ own(o).allowed = f(o).allowed
            /\ own(o).answer = f(o).answer /\ own(o).ownersLeft = f(o).ownersLeft
            /\ own(o).badImages = f(o).badImages /\ own(o).attCache = f(o).attCache
        BY <4>2 DEF Frame
      <4> HIDE DEF g, own
      <4>4. OnCourse(own(o))  BY <1>3, <2>3, <4>3, AdmissionAssumption DEF OnCourse
      <4> QED  BY <1>3, <4>1, <4>3, <4>4, EarlyCourse
    <3> QED  BY <3>2, <3>3
  <2> QED  BY <2>2, <2>3
<1> HIDE DEF g
<1>5. loc'[r] = g(o) /\ \A q \in Requests \ {r} : loc'[q] = loc[q]
  BY <1>1 DEF Step, IInv, TypeOK
<1>6. /\ owed'[r] => Admissible(o)
      /\ \A q \in Requests \ {r} : owed'[q] = owed[q]
  BY <1>1 DEF IInv, TypeOK
<1>7. g(o).obj = o /\ g(o).pc # "idle"
  <2>1. IInv' /\ loc'[r].obj \in Objects  BY ReviewHandlerKeepsIInv
  <2>2. loc'[r].pc # "idle"
    BY <2>1, AdmissionAssumption DEF IInv, Good, GoodObject
  <2>3. CASE o.body = "badReview"
    <3>1. g(o) = Answered(Denied(f(o)), "badRequest")  BY <2>3 DEF g
    <3>2. Denied(f(o)) \in Frame /\ Denied(f(o)).obj = o  BY <1>3, DeniedFrame
    <3> QED  BY <1>5, <2>2, <3>1, <3>2, AnsweredGood
  <2>4. CASE o.body # "badReview" /\ o.kind \notin handlers
    <3>1. g(o) = Respond(f(o))  BY <2>4 DEF g
    <3>2. Grounds(Now, o)  BY <2>4 DEF Grounds
    <3> QED  BY <1>3, <1>5, <2>2, <3>1, <3>2, AnsweredGood DEF Respond
  <2>5. CASE o.body = "badObject" /\ o.kind \in handlers
    <3>1. g(o) = Answered(f(o), "handlerFailed")  BY <2>5 DEF g
    <3> QED  BY <1>3, <1>5, <2>2, <3>1, AnsweredGood
  <2>6. CASE o.body \notin {"badReview", "badObject"} /\ o.kind \in handlers
    <3>1. g(o) = IF o.owners = {} THEN afterOwners(f(o)) ELSE own(o)  BY <2>6 DEF g
    <3>2. afterOwners(f(o)).obj = o  BY <1>3, AfterOwnersGood
    <3>3. own(o).obj = o
      <4>1. f(o) \in Frame  BY <1>3
      <4>2. own(o).obj = f(o).obj  BY <4>1 DEF Frame
      <4> QED  BY <1>3, <4>2
    <3> HIDE DEF own
    <3> QED  BY <1>5, <2>2, <3>1, <3>2, <3>3
  <2> QED  BY <2>3, <2>4, <2>5, <2>6
<1>8. ASSUME NEW q \in Requests, owed'[q]
      PROVE  Course(loc'[q]) /\ Admissible(loc'[q].obj) /\ loc'[q].pc # "idle"
  <2>1. CASE q = r  BY <1>4, <1>5, <1>6, <1>7, <1>8, <2>1
  <2>2. CASE q # r
    <3>1. owed[q] /\ loc'[q] = loc[q]  BY <1>5, <1>6, <1>8, <2>2
    <3> QED  BY <3>1 DEF OwedInv, Course
  <2> QED  BY <2>1, <2>2
<1> QED  BY <1>2, <1>8, OwedInvKept

LEMMA InitEstablishesOwedInv == Init => OwedInv
BY DEF Init, OwedInv

LEMMA NextKeepsOwedInv == NothingHidden /\ IInv /\ OwedInv /\ [Next]_vars => OwedInv'
<1> SUFFICES ASSUME NothingHidden, IInv, OwedInv, [Next]_vars PROVE OwedInv'  OBVIOUS
<1>1. ASSUME NEW r \in Requests, ReviewHandler(r) PROVE OwedInv'
  BY <1>1, ReviewHandlerKeepsOwedInv
<1>2. ASSUME NEW r \in Requests, Work(r) PROVE OwedInv'
  BY <1>2, WorkKeepsOwedInv
<1>3. CASE Environment
  BY <1>3, EditsKeepOwedInv, CrashKeepsOwedInv DEF Environment
<1>4. CASE UNCHANGED vars
  <2>1. WorldKept /\ loc' = loc /\ owed' = owed
    BY <1>4 DEF vars, metadata, WorldKept
  <2> QED  BY <2>1, OwedInvKept DEF OwedInv, Course
<1> QED  BY <1>1, <1>2, <1>3, <1>4 DEF Next

-----------------------------------------------------------------------------
(* The theorem.                                                            *)

\* A request that its policies admit when it comes in is not denied unless one
\* of its calls fails or something it depends on is edited, whatever the order
\* of the loops and whatever the other requests do.  The premise is the one
\* under which the cache of failed lookups is harmless: with Container Analysis
\* and an attestation of an unknown kind the statement is false, since the
\* failure is remembered for the image and not for the authority.
THEOREM AdmissionsOwedAreGiven == NothingHidden => (Spec => []OwedAdmission)
<1> SUFFICES ASSUME NothingHidden PROVE Spec => []OwedAdmission  OBVIOUS
<1>1. Init => OwedInv  BY InitEstablishesOwedInv
<1>2. IInv /\ OwedInv /\ [Next]_vars => OwedInv'  BY NextKeepsOwedInv
<1>3. OwedInv => OwedAdmission  BY DEF OwedInv, OnCourse, OwedAdmission
<1> QED  BY <1>1, <1>2, <1>3, Inductive, PTL DEF Spec

==============================================================================
