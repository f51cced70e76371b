-------------------------- MODULE GcbSignerProofs --------------------------
(***************************************************************************)
(* Proofs about GcbSigner, for any number of callbacks, events, policies,  *)
(* authorities, failures and changes of the cluster.                       *)
(***************************************************************************)
EXTENDS GcbSigner, TLAPS

\* Where a callback works on a build it has accepted, where it is in the loops
\* of process, and where it is at one signature.
AtItem == {"noteGet", "noteCreate", "secret", "occurrence"}
InLoop == AtItem \cup {"next"}
OnBuild == InLoop \cup {"policies", "client"}

\* What the stack frame of a callback says is so.
GoodFrame(f) ==
    /\ f \in Frame
    /\ f.pc # "idle" => f.event \in Events
    /\ f.pc \in OnBuild => f.event.parses /\ f.event.status = "SUCCESS"
    /\ f.pc \in InLoop =>
          /\ f.todo \subseteq toSign(f.event, f.bps)
          /\ \A t \in toSign(f.event, f.bps) : t \in f.todo \/ attested(t[1], t[2])
    /\ f.pc \in AtItem =>
          /\ f.item \in f.todo
          /\ \A a \in f.auths : a.name = f.item[2].AttestationAuthorityName
    /\ f.pc = "occurrence" => f.item[2].PrivateKeySecretName \in DOMAIN SecretKey
    /\ f.pc = "ack" =>
          /\ f.event.parses
          /\ \A t \in toSign(f.event, f.bps) : attested(t[1], t[2])

FramesInv == \A c \in Callbacks : GoodFrame(loc[c])

GInv == TypeOK /\ FramesInv /\ OnlyBuildsSigned

-----------------------------------------------------------------------------
(* The operators.                                                          *)

\* The loops run over images of the event and policies that were listed.
LEMMA ToSign ==
    ASSUME NEW e \in Events, NEW bps \in SUBSET Policies
    PROVE  /\ toSign(e, bps) \subseteq EventImages \X Policies
           /\ \A t \in toSign(e, bps) :
                 /\ e.status = "SUCCESS" /\ e.source \in t[2].BuiltFrom
                 /\ \E x \in e.images : x.ref = t[1] /\ ~x.latest
<1>1. ASSUME NEW i \in provenance(e)
      PROVE  /\ e.status = "SUCCESS" /\ i \in EventImages
             /\ \E x \in e.images : x.ref = i /\ ~x.latest
  BY <1>1 DEF provenance, EventImages
<1> QED  BY <1>1 DEF toSign, matches

LEMMA IdleIsGood ==
    /\ GoodFrame(Idle)
    /\ \A e \in Events : GoodFrame([Idle EXCEPT !.pc = "nack", !.event = e])
BY DEF GoodFrame, Idle, Frame, OnBuild, InLoop, AtItem

LEMMA FailedIsGood ==
    ASSUME NEW f, f.event \in Events
    PROVE  GoodFrame(failed(f))
BY IdleIsGood DEF failed

\* An attestation stays, and with it what a frame says.
LEMMA GoodFrameStays ==
    ASSUME occurrences \subseteq occurrences'
    PROVE  \A f : GoodFrame(f) => GoodFrame(f)'
<1>1. ASSUME NEW i, NEW bp, attested(i, bp)
      PROVE  attested(i, bp)'
  BY <1>1 DEF attested
<1> QED  BY <1>1 DEF GoodFrame

LEMMA CallType ==
    ASSUME TypeOK, NEW ok \in BOOLEAN, Call(ok)
    PROVE  faults' \in 0..MaxFaults /\ edits' \in 0..MaxEdits
BY GcbAssumption DEF TypeOK, Call

\* A step of one callback that leaves the metadata server alone.
LEMMA StepKeeps ==
    ASSUME GInv, NEW c \in Callbacks, NEW frame, Step(c, frame), GoodFrame(frame),
           UNCHANGED <<policies, authorities, occurrences>>,
           notes' \subseteq Notes, acked' \subseteq Events,
           faults' \in 0..MaxFaults, edits' \in 0..MaxEdits
    PROVE  GInv'
<1>1. \A d \in Callbacks : loc'[d] = IF d = c THEN frame ELSE loc[d]
  BY DEF Step, GInv, TypeOK
<1>2. \A f : GoodFrame(f) => GoodFrame(f)'  BY GoodFrameStays
<1>3. FramesInv'  BY <1>1, <1>2 DEF GInv, FramesInv
<1>4. TypeOK'
  <2>1. frame \in Frame  BY DEF GoodFrame
  <2>2. loc' \in [Callbacks -> Frame]  BY <2>1 DEF Step, GInv, TypeOK
  <2> QED  BY <2>2 DEF GInv, TypeOK
<1>5. OnlyBuildsSigned'  BY DEF GInv, OnlyBuildsSigned
<1> QED  BY <1>3, <1>4, <1>5 DEF GInv

-----------------------------------------------------------------------------
(* The steps of a callback.                                                *)

LEMMA ReceiveKeeps ==
    ASSUME GInv, NEW c \in Callbacks, Receive(c)
    PROVE  GInv'
<1>1. PICK e \in Events :
         /\ IF e \in acked THEN Call(FALSE) ELSE NoCall
         /\ Step(c, [Idle EXCEPT !.event = e,
                       !.pc = CASE ~e.parses -> "nack"
                                [] e.parses /\ e.status # "SUCCESS" -> "ack"
                                [] OTHER -> "policies"])
  BY DEF Receive
<1>2. UNCHANGED <<policies, authorities, occurrences, notes, acked>> /\ TypeOK
  BY DEF Receive, GInv
<1>3. faults' \in 0..MaxFaults /\ edits' \in 0..MaxEdits
  <2>1. CASE e \in acked  BY <1>1, <1>2, <2>1, GcbAssumption DEF Call, TypeOK
  <2>2. CASE e \notin acked  BY <1>1, <1>2, <2>2 DEF NoCall, TypeOK
  <2> QED  BY <2>1, <2>2
<1> DEFINE fr(where) == [Idle EXCEPT !.event = e, !.pc = where]
<1>4. GoodFrame(fr("nack"))
  BY DEF GoodFrame, Idle, Frame, OnBuild, InLoop, AtItem
<1>5. e.parses /\ e.status # "SUCCESS" => GoodFrame(fr("ack"))
  BY DEF GoodFrame, Idle, Frame, OnBuild, InLoop, AtItem, toSign, provenance
<1>6. e.parses /\ e.status = "SUCCESS" => GoodFrame(fr("policies"))
  BY DEF GoodFrame, Idle, Frame, OnBuild, InLoop, AtItem
<1>7. PICK where \in {"nack", "ack", "policies"} : Step(c, fr(where)) /\ GoodFrame(fr(where))
  <2> HIDE DEF GoodFrame, Step, Idle
  <2>1. CASE ~e.parses  BY <1>1, <1>4, <2>1
  <2>2. CASE e.parses /\ e.status # "SUCCESS"  BY <1>1, <1>5, <2>2
  <2>3. CASE e.parses /\ e.status = "SUCCESS"  BY <1>1, <1>6, <2>3
  <2> QED  BY <2>1, <2>2, <2>3
<1> HIDE DEF fr
<1> QED  BY <1>2, <1>3, <1>7, StepKeeps DEF TypeOK

LEMMA FrameOf ==
    ASSUME GInv, NEW c \in Callbacks
    PROVE  GoodFrame(loc[c]) /\ TypeOK
BY DEF GInv, FramesInv

LEMMA ListPoliciesKeeps ==
    ASSUME GInv, NEW c \in Callbacks, ListPolicies(c)
    PROVE  GInv'
<1> DEFINE f == loc[c]
           g == [f EXCEPT !.pc = "client", !.bps = policies]
<1>1. PICK ok \in BOOLEAN : Call(ok) /\ Step(c, IF ok THEN g ELSE failed(f))
  BY DEF ListPolicies
<1>2. UNCHANGED <<policies, authorities, occurrences, notes, acked>>
      /\ f.pc = "policies" /\ GoodFrame(f) /\ TypeOK
  BY FrameOf DEF ListPolicies
<1>3. f.event \in Events  BY <1>2 DEF GoodFrame
<1>4. policies \subseteq Policies  BY <1>2 DEF TypeOK, Policies
<1>5. GoodFrame(g)
  BY <1>2, <1>4 DEF GoodFrame, Frame, OnBuild, InLoop, AtItem
<1>6. GoodFrame(failed(f))  BY <1>3, FailedIsGood
<1> HIDE DEF f, g
<1>7. faults' \in 0..MaxFaults /\ edits' \in 0..MaxEdits  BY <1>1, <1>2, CallType
<1>8. GoodFrame(IF ok THEN g ELSE failed(f))  BY <1>5, <1>6
<1> QED  BY <1>1, <1>2, <1>7, <1>8, StepKeeps DEF TypeOK

LEMMA NewClientKeeps ==
    ASSUME GInv, NEW c \in Callbacks, NewClient(c)
    PROVE  GInv'
<1> DEFINE f == loc[c]
           g == [f EXCEPT !.pc = "next", !.todo = toSign(f.event, f.bps)]
<1>1. PICK ok \in BOOLEAN : Call(ok) /\ Step(c, IF ok THEN g ELSE failed(f))
  BY DEF NewClient
<1>2. UNCHANGED <<policies, authorities, occurrences, notes, acked>>
      /\ f.pc = "client" /\ GoodFrame(f) /\ TypeOK
  BY FrameOf DEF NewClient
<1>3. f.event \in Events /\ f \in Frame /\ f.bps \in SUBSET Policies
      /\ f.event.parses /\ f.event.status = "SUCCESS"
  BY <1>2 DEF GoodFrame, Frame, OnBuild
<1>4. toSign(f.event, f.bps) \subseteq EventImages \X Policies  BY <1>3, ToSign
<1>5. GoodFrame(g)
  BY <1>3, <1>4 DEF GoodFrame, Frame, OnBuild, InLoop, AtItem
<1>6. GoodFrame(failed(f))  BY <1>3, FailedIsGood
<1> HIDE DEF f, g
<1>7. faults' \in 0..MaxFaults /\ edits' \in 0..MaxEdits  BY <1>1, <1>2, CallType
<1>8. GoodFrame(IF ok THEN g ELSE failed(f))  BY <1>5, <1>6
<1> QED  BY <1>1, <1>2, <1>7, <1>8, StepKeeps DEF TypeOK

LEMMA NextItemKeeps ==
    ASSUME GInv, NEW c \in Callbacks, NextItem(c)
    PROVE  GInv'
<1> DEFINE f == loc[c]
           A(t) == {a \in authorities : a.name = t[2].AttestationAuthorityName}
           g(t) == [f EXCEPT !.pc = "noteGet", !.item = t, !.auths = A(t)]
           h == [f EXCEPT !.pc = "ack"]
<1>1. UNCHANGED <<policies, authorities, occurrences, notes, acked>>
      /\ f.pc = "next" /\ GoodFrame(f) /\ TypeOK
  BY FrameOf DEF NextItem
<1>2. f.event \in Events /\ f \in Frame  BY <1>1 DEF GoodFrame
<1>3. CASE f.todo = {} /\ Step(c, h) /\ NoCall
  <2>1. GoodFrame(h)
    BY <1>1, <1>2, <1>3 DEF GoodFrame, Frame, OnBuild, InLoop, AtItem
  <2> HIDE DEF f, h
  <2>2. faults' \in 0..MaxFaults /\ edits' \in 0..MaxEdits
    BY <1>1, <1>3 DEF NoCall, TypeOK
  <2> QED  BY <1>1, <1>3, <2>1, <2>2, StepKeeps DEF TypeOK
<1>4. CASE \E t \in f.todo, ok \in BOOLEAN :
             Call(ok) /\ Step(c, IF ok /\ A(t) # {} THEN g(t) ELSE failed(f))
  <2>1. PICK t \in f.todo, ok \in BOOLEAN :
             Call(ok) /\ Step(c, IF ok /\ A(t) # {} THEN g(t) ELSE failed(f))
    BY <1>4
  <2>2. /\ A(t) \subseteq Authorities /\ t \in EventImages \X Policies
        /\ \A a \in A(t) : a.name = t[2].AttestationAuthorityName
    BY <1>1, <1>2 DEF TypeOK, Frame
  <2> HIDE DEF A
  <2>3. GoodFrame(g(t))
    BY <1>1, <1>2, <2>2 DEF GoodFrame, Frame, OnBuild, InLoop, AtItem
  <2>4. GoodFrame(failed(f))  BY <1>2, FailedIsGood
  <2>5. faults' \in 0..MaxFaults /\ edits' \in 0..MaxEdits  BY <1>1, <2>1, CallType
  <2> HIDE DEF f, g
  <2>6. GoodFrame(IF ok /\ A(t) # {} THEN g(t) ELSE failed(f))  BY <2>3, <2>4
  <2> QED  BY <1>1, <2>1, <2>5, <2>6, StepKeeps DEF TypeOK
<1> QED  BY <1>3, <1>4 DEF NextItem

LEMMA NoteKeeps ==
    ASSUME GInv, NEW c \in Callbacks, GetNote(c) \/ CreateNote(c) \/ FetchSecret(c)
    PROVE  GInv'
<1> DEFINE f == loc[c]
           g(where) == [f EXCEPT !.pc = where]
<1>1. UNCHANGED <<policies, authorities, occurrences, acked>>
      /\ f.pc \in {"noteGet", "noteCreate", "secret"} /\ GoodFrame(f) /\ TypeOK
  BY FrameOf DEF GetNote, CreateNote, FetchSecret
<1>2. f.event \in Events /\ f \in Frame  BY <1>1 DEF GoodFrame
<1>3. notes' \subseteq Notes
  <2>1. \A a \in f.auths : a.note \in Notes  BY <1>2 DEF Frame, Notes
  <2> QED  BY <1>1, <2>1 DEF GetNote, CreateNote, FetchSecret, TypeOK
<1>4. PICK ok \in BOOLEAN, frame \in {failed(f), g("secret"), g("noteCreate"), g("occurrence")} :
         /\ Call(ok) /\ Step(c, frame)
         /\ frame = g("occurrence") =>
               f.item[2].PrivateKeySecretName \in DOMAIN SecretKey \/ frame = failed(f)
  <2>1. CASE GetNote(c)
    <3>1. PICK a \in f.auths, ok \in BOOLEAN :
             Call(ok) /\ Step(c, g(IF ok /\ a.note \in notes THEN "secret" ELSE "noteCreate"))
      BY <2>1 DEF GetNote
    <3>2. g("secret") # g("occurrence") /\ g("noteCreate") # g("occurrence")
      BY <1>2 DEF Frame
    <3> QED  BY <3>1, <3>2
  <2>2. CASE CreateNote(c)
    <3>1. g("secret") # g("occurrence")  BY <1>2 DEF Frame
    <3> QED  BY <2>2, <3>1 DEF CreateNote
  <2>3. CASE FetchSecret(c)  BY <2>3 DEF FetchSecret
  <2> QED  BY <2>1, <2>2, <2>3
<1>5. GoodFrame(failed(f))  BY <1>2, FailedIsGood
<1>6. GoodFrame(g("secret")) /\ GoodFrame(g("noteCreate"))
  BY <1>1, <1>2 DEF GoodFrame, Frame, OnBuild, InLoop, AtItem
<1>7. f.item[2].PrivateKeySecretName \in DOMAIN SecretKey => GoodFrame(g("occurrence"))
  BY <1>1, <1>2 DEF GoodFrame, Frame, OnBuild, InLoop, AtItem
<1> HIDE DEF f, g
<1>8. faults' \in 0..MaxFaults /\ edits' \in 0..MaxEdits  BY <1>1, <1>4, CallType
<1>9. GoodFrame(frame)  BY <1>4, <1>5, <1>6, <1>7
<1> QED  BY <1>1, <1>3, <1>4, <1>8, <1>9, StepKeeps DEF TypeOK

LEMMA AckKeeps ==
    ASSUME GInv, NEW c \in Callbacks, Ack(c)
    PROVE  GInv'
<1>1. UNCHANGED <<policies, authorities, occurrences, notes, faults, edits>>
      /\ Step(c, Idle) /\ GoodFrame(loc[c]) /\ TypeOK
  BY FrameOf DEF Ack
<1>2. acked' \subseteq Events
  BY <1>1 DEF Ack, GoodFrame, TypeOK
<1>3. /\ notes' \subseteq Notes /\ faults' \in 0..MaxFaults /\ edits' \in 0..MaxEdits
      /\ UNCHANGED <<policies, authorities, occurrences>>
  BY <1>1 DEF TypeOK
<1>4. GoodFrame(Idle) /\ Step(c, Idle)  BY <1>1, IdleIsGood
<1> QED  BY <1>2, <1>3, <1>4, StepKeeps

\* The occurrence is of the event's own image, under the note of an authority
\* of the policy and signed with the policy's key; then the turn is done.
LEMMA CreateOccurrenceKeeps ==
    ASSUME GInv, NEW c \in Callbacks, CreateOccurrence(c)
    PROVE  GInv'
<1>0. PICK f : f = loc[c]  OBVIOUS
<1> DEFINE image == f.item[1]
           bp == f.item[2]
           valid == image \in StrictDigest \cap OnGCR
           key == SecretKey[bp.PrivateKeySecretName]
           g == [f EXCEPT !.pc = "next", !.todo = @ \ {f.item}, !.item = None, !.auths = {}]
<1>1. PICK a \in f.auths, ok \in BOOLEAN, done \in BOOLEAN :
         /\ Call(ok) /\ (ok => done)
         /\ occurrences' = IF done /\ valid
                           THEN occurrences \cup {newOccurrence(a.note, image, key)}
                           ELSE occurrences
         /\ Step(c, IF ok /\ valid THEN g ELSE failed(f))
  BY <1>0 DEF CreateOccurrence
<1>2. UNCHANGED <<policies, authorities, notes, acked>>
      /\ f.pc = "occurrence" /\ GoodFrame(f) /\ TypeOK
  BY <1>0, FrameOf DEF CreateOccurrence
<1>3. /\ f \in Frame /\ f.event \in Events /\ f.bps \in SUBSET Policies /\ a \in Authorities
      /\ f.event.parses /\ f.event.status = "SUCCESS"
      /\ f.todo \subseteq toSign(f.event, f.bps) /\ f.item \in f.todo
      /\ a.name = bp.AttestationAuthorityName /\ bp.PrivateKeySecretName \in DOMAIN SecretKey
      /\ \A t \in toSign(f.event, f.bps) : t \in f.todo \/ attested(t[1], t[2])
      /\ f.todo \in SUBSET (EventImages \X Policies)
  BY <1>2 DEF GoodFrame, Frame, OnBuild, InLoop, AtItem
<1>4. /\ f.event.source \in bp.BuiltFrom /\ image \in EventImages /\ bp \in Policies
      /\ \E x \in f.event.images : x.ref = image /\ ~x.latest
  <2>1. f.item \in toSign(f.event, f.bps)  BY <1>3
  <2>2. f.item \in EventImages \X Policies  BY <1>3
  <2> QED  BY <1>3, <2>1, <2>2, ToSign
<1>5. /\ occurrences \subseteq occurrences'
      /\ occurrences' \subseteq occurrences \cup {newOccurrence(a.note, image, key)}
      /\ ok /\ valid => newOccurrence(a.note, image, key) \in occurrences'
  BY <1>1
<1>6. ok /\ valid => GoodFrame(g)'
  <2>1. \A i, b : attested(i, b) => attested(i, b)'  BY <1>5 DEF attested
  <2>2. ok /\ valid => attested(image, bp)'  BY <1>3, <1>5 DEF attested
  <2> HIDE DEF image, bp, valid, key
  <2>3. ASSUME ok, valid, NEW t \in toSign(f.event, f.bps)
        PROVE  t \in f.todo \ {f.item} \/ attested(t[1], t[2])'
    BY <1>3, <2>1, <2>2, <2>3 DEF image, bp
  <2>4. /\ g \in Frame /\ g.pc = "next" /\ g.event = f.event /\ g.bps = f.bps
        /\ g.todo = f.todo \ {f.item}
    BY <1>3 DEF Frame
  <2> HIDE DEF g
  <2>5. ASSUME ok, valid
        PROVE  \A t \in toSign(g.event, g.bps) : t \in g.todo \/ attested(t[1], t[2])'
    BY <2>3, <2>4, <2>5
  <2>6. g.todo \subseteq toSign(g.event, g.bps)  BY <1>3, <2>4
  <2>7. \A h : /\ h \in Frame /\ h.pc = "next" /\ h.event \in Events
               /\ h.event.parses /\ h.event.status = "SUCCESS"
               /\ h.todo \subseteq toSign(h.event, h.bps)
               /\ \A t \in toSign(h.event, h.bps) : t \in h.todo \/ attested(t[1], t[2])'
               => GoodFrame(h)'
    BY DEF GoodFrame, OnBuild, InLoop, AtItem
  <2> QED  BY <1>3, <2>4, <2>5, <2>6, <2>7
<1>7. GoodFrame(failed(f))'
  <2>1. GoodFrame(failed(f))  BY <1>3, FailedIsGood
  <2> QED  BY <1>5, <2>1, GoodFrameStays
<1>8. faults' \in 0..MaxFaults /\ edits' \in 0..MaxEdits  BY <1>1, <1>2, CallType
<1>9. OnlyBuildsSigned'
  <2>1. newOccurrence(a.note, image, key).resource = image  BY DEF newOccurrence
  <2>2. ASSUME NEW o \in occurrences'
        PROVE  \E e \in Events, b \in Policies, aa \in Authorities :
                  /\ e.parses /\ e.status = "SUCCESS" /\ e.source \in b.BuiltFrom
                  /\ \E x \in e.images : x.ref = o.resource /\ ~x.latest
                  /\ aa.name = b.AttestationAuthorityName
                  /\ o = newOccurrence(aa.note, o.resource, SecretKey[b.PrivateKeySecretName])
    <3>1. CASE o \in occurrences  BY <3>1 DEF GInv, OnlyBuildsSigned
    <3>2. CASE o = newOccurrence(a.note, image, key)
      BY <1>3, <1>4, <2>1, <3>2
    <3> QED  BY <1>5, <3>1, <3>2
  <2> QED  BY <2>2 DEF OnlyBuildsSigned
<1>10. PICK frame : Step(c, frame) /\ GoodFrame(frame)' /\ frame \in Frame
  <2>1. g \in Frame  BY <1>3 DEF Frame
  <2>2. failed(f) \in Frame  BY <1>3, FailedIsGood DEF GoodFrame
  <2> HIDE DEF g, valid
  <2> QED  BY <1>1, <1>6, <1>7, <2>1, <2>2
<1>11. TypeOK'
  <2>1. loc' \in [Callbacks -> Frame]  BY <1>2, <1>10 DEF Step, TypeOK
  <2>2. newOccurrence(a.note, image, key) \in
           {newOccurrence(n, i, SecretKey[s]) :
               n \in Notes, i \in EventImages, s \in DOMAIN SecretKey}
    BY <1>3, <1>4 DEF Notes
  <2> QED  BY <1>2, <1>5, <1>8, <2>1, <2>2 DEF TypeOK
<1>12. FramesInv'
  <2>1. \A d \in Callbacks : loc'[d] = IF d = c THEN frame ELSE loc[d]
    BY <1>2, <1>10 DEF Step, TypeOK
  <2>2. \A h : GoodFrame(h) => GoodFrame(h)'  BY <1>5, GoodFrameStays
  <2> QED  BY <1>10, <2>1, <2>2 DEF GInv, FramesInv
<1> QED  BY <1>9, <1>11, <1>12 DEF GInv

-----------------------------------------------------------------------------
(* The process dies, the cluster changes.                                  *)

LEMMA CrashKeeps ==
    ASSUME GInv, Crash
    PROVE  GInv'
<1>1. UNCHANGED <<policies, authorities, occurrences, notes, acked, edits>>
      /\ loc' = [c \in Callbacks |-> Idle] /\ faults' \in 0..MaxFaults /\ TypeOK
  BY GcbAssumption DEF Crash, GInv, TypeOK
<1>2. Idle \in Frame  BY IdleIsGood DEF GoodFrame
<1>3. TypeOK'  BY <1>1, <1>2 DEF TypeOK
<1>4. OnlyBuildsSigned'  BY <1>1 DEF GInv, OnlyBuildsSigned
<1>5. FramesInv'
  <2>1. GoodFrame(Idle)'  BY <1>1, IdleIsGood, GoodFrameStays
  <2> QED  BY <1>1, <2>1 DEF FramesInv
<1> QED  BY <1>3, <1>4, <1>5 DEF GInv

LEMMA EditClusterKeeps ==
    ASSUME GInv, EditCluster
    PROVE  GInv'
<1>1. UNCHANGED <<occurrences, notes, acked, loc, faults>> /\ edits' \in 0..MaxEdits /\ TypeOK
  BY GcbAssumption DEF EditCluster, GInv, TypeOK
<1>2. policies' \in PolicyLists /\ authorities' \subseteq Authorities
  BY <1>1 DEF EditCluster, TypeOK
<1>3. TypeOK'  BY <1>1, <1>2 DEF TypeOK
<1>4. OnlyBuildsSigned'  BY <1>1 DEF GInv, OnlyBuildsSigned
<1>5. FramesInv'
  <2>1. \A f : GoodFrame(f) => GoodFrame(f)'  BY <1>1, GoodFrameStays
  <2> QED  BY <1>1, <2>1 DEF GInv, FramesInv
<1> QED  BY <1>3, <1>4, <1>5 DEF GInv

-----------------------------------------------------------------------------
(* The invariant and what follows from it.                                 *)

\* The invariant holds in every state of every execution.
THEOREM GcbInvariant == Spec => []GInv
<1>1. Init => GInv
  <2> SUFFICES ASSUME Init PROVE GInv  OBVIOUS
  <2>1. Idle \in Frame  BY IdleIsGood DEF GoodFrame
  <2>2. TypeOK  BY <2>1, GcbAssumption DEF Init, TypeOK
  <2>3. FramesInv  BY IdleIsGood DEF Init, FramesInv
  <2>4. OnlyBuildsSigned  BY DEF Init, OnlyBuildsSigned
  <2> QED  BY <2>2, <2>3, <2>4 DEF GInv
<1>2. GInv /\ [Next]_vars => GInv'
  <2> SUFFICES ASSUME GInv, [Next]_vars PROVE GInv'  OBVIOUS
  <2>1. CASE UNCHANGED vars
    <3>1. UNCHANGED <<policies, authorities, occurrences, notes, acked, loc, faults, edits>>
      BY <2>1 DEF vars
    <3>2. \A f : GoodFrame(f) => GoodFrame(f)'  BY <3>1, GoodFrameStays
    <3>3. FramesInv'  BY <3>1, <3>2 DEF GInv, FramesInv
    <3>4. TypeOK' /\ OnlyBuildsSigned'  BY <3>1 DEF GInv, TypeOK, OnlyBuildsSigned
    <3> QED  BY <3>3, <3>4 DEF GInv
  <2>2. ASSUME NEW c \in Callbacks, Receive(c) \/ Work(c) PROVE GInv'
    BY <2>2, ReceiveKeeps, ListPoliciesKeeps, NewClientKeeps, NextItemKeeps, NoteKeeps,
       CreateOccurrenceKeeps, AckKeeps DEF Work
  <2> QED  BY <2>1, <2>2, CrashKeeps, EditClusterKeeps DEF Next
<1> QED  BY <1>1, <1>2, PTL DEF Spec

\* Every variable of the Cloud Build signer keeps its type.
THEOREM TypeCorrect == Spec => []TypeOK
<1>1. GInv => TypeOK  BY DEF GInv
<1> QED  BY <1>1, GcbInvariant, PTL

\* Whatever fails or dies part of the way, and however often an event is
\* delivered, no callback gets to msg.Ack while one of the images it owes a
\* signature has none (process).
THEOREM AcknowledgedIsSigned == Spec => []AckedIsSigned
<1>1. GInv => AckedIsSigned
  BY DEF GInv, FramesInv, GoodFrame, AckedIsSigned
<1> QED  BY <1>1, GcbInvariant, PTL

\* Each attestation is of an image of a complete build, from a source its
\* policy accepts, with the key and under the note of that policy
\* (ValidateAndSign, addAttestation).
THEOREM SignedBuildsOnly == Spec => []OnlyBuildsSigned
<1>1. GInv => OnlyBuildsSigned  BY DEF GInv
<1> QED  BY <1>1, GcbInvariant, PTL

=============================================================================
