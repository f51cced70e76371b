------------------------------ MODULE GcbSigner ------------------------------
(***************************************************************************)
(* The signer of Cloud Build images (cmd/kritis/gcbsigner, pkg/kritis/     *)
(* gcbsigner): it receives build events from a subscription and attests    *)
(* the images of successful builds whose source a BuildPolicy accepts.     *)
(*                                                                         *)
(* The subscription delivers at least once and runs callbacks side by      *)
(* side, so one event may be with two callbacks and may come back after it *)
(* was acknowledged.  One action is one call of a callback.                *)
(*                                                                         *)
(* An event is [parses, status, images, source]; an image of an event is   *)
(* [ref, latest], latest when its name has the tag.  A policy is           *)
(* [BuiltFrom, AttestationAuthorityName, PrivateKeySecretName], BuiltFrom  *)
(* the set of sources its regular expression matches.                      *)
(***************************************************************************)
EXTENDS Naturals, Attestations

CONSTANTS
    Callbacks,         \* callbacks of the subscription
    Events,            \* build events
    PolicyLists,       \* what listing the build policies may return
    Authorities,       \* AttestationAuthority objects that may exist
    StrictDigest, OnGCR, \* images the metadata client can attest
    SecretKey,         \* the key in each signing secret, by name
    MaxFaults, MaxEdits, \* bounds on failures and on changes of the cluster
    None               \* a local variable that holds nothing

ASSUME GcbAssumption == MaxFaults \in Nat /\ MaxEdits \in Nat

VARIABLES
    policies, authorities, \* build policies and authorities of the cluster
    occurrences, notes,    \* the metadata server
    acked,          \* events that have been acknowledged
    loc,            \* the stack frame of each callback
    faults, edits

vars == <<policies, authorities, occurrences, notes, acked, loc, faults, edits>>

Policies == UNION PolicyLists
EventImages == {i.ref : i \in UNION {e.images : e \in Events}}
Notes == {a.note : a \in Authorities}

\* ExtractBuildProvenanceFromEvent: the images of a complete build, without
\* the entries that carry the tag.
provenance(e) ==
    IF e.status = "SUCCESS" THEN {i.ref : i \in {x \in e.images : ~x.latest}} ELSE {}

\* Mutant: the source is not looked at.
matches_any(bp, e) == TRUE

\* ValidateBuildPolicy accepts the source.
matches(bp, e) == e.source \in bp.BuiltFrom

\* The turns of the loops of process and ValidateAndSign that lead to a
\* signature.
toSign(e, bps) == {t \in provenance(e) \X bps : matches(t[2], e)}

Frame ==
    [pc : {"idle", "policies", "client", "next", "noteGet", "noteCreate", "secret",
           "occurrence", "ack", "nack"},
     event : Events \cup {None},
     bps : SUBSET Policies,
     todo : SUBSET (EventImages \X Policies),
     item : (EventImages \X Policies) \cup {None},
     auths : SUBSET Authorities]

Idle == [pc |-> "idle", event |-> None, bps |-> {}, todo |-> {}, item |-> None, auths |-> {}]

Init ==
    /\ policies \in PolicyLists
    /\ authorities \in {A \in SUBSET Authorities : \A a, b \in A : a.name = b.name => a = b}
    /\ occurrences = {} /\ notes \in SUBSET Notes
    /\ acked = {}
    /\ loc = [c \in Callbacks |-> Idle]
    /\ faults = 0 /\ edits = 0

Step(c, frame) == loc' = [loc EXCEPT ![c] = frame]

\* Mutant: the error is logged and the event acknowledged.
failed_logged(f) == [f EXCEPT !.pc = "ack"]

\* process returns an error.
failed(f) == [Idle EXCEPT !.pc = "nack", !.event = f.event]

Call(ok) ==
    /\ ok \/ faults < MaxFaults
    /\ faults' = IF ok THEN faults ELSE faults + 1
    /\ UNCHANGED edits

NoCall == UNCHANGED <<faults, edits>>

-----------------------------------------------------------------------------
(* run and process.                                                        *)

\* The subscription hands out an event, an acknowledged one only by mistake.
\* Then ExtractBuildProvenanceFromEvent.
Receive(c) ==
    /\ loc[c].pc = "idle"
    /\ \E e \in Events :
          /\ IF e \in acked THEN Call(FALSE) ELSE NoCall
          /\ Step(c, [Idle EXCEPT !.event = e,
                        !.pc = CASE ~e.parses -> "nack"
                                 [] e.parses /\ e.status # "SUCCESS" -> "ack"
                                 [] OTHER -> "policies"])
    /\ UNCHANGED <<policies, authorities, occurrences, notes, acked>>

ListPolicies(c) ==
    /\ loc[c].pc = "policies"
    /\ \E ok \in BOOLEAN :
          /\ Call(ok)
          /\ Step(c, IF ok THEN [loc[c] EXCEPT !.pc = "client", !.bps = policies]
                     ELSE failed(loc[c]))
    /\ UNCHANGED <<policies, authorities, occurrences, notes, acked>>

NewClient(c) ==
    /\ loc[c].pc = "client"
    /\ \E ok \in BOOLEAN :
          LET f == loc[c] IN
          /\ Call(ok)
          /\ Step(c, IF ok THEN [f EXCEPT !.pc = "next", !.todo = toSign(f.event, f.bps)]
                     ELSE failed(f))
    /\ UNCHANGED <<policies, authorities, occurrences, notes, acked>>

\* The next signature: authFetcher.
NextItem(c) ==
    /\ loc[c].pc = "next"
    /\ LET f == loc[c] IN
       \/ f.todo = {} /\ Step(c, [f EXCEPT !.pc = "ack"]) /\ NoCall
       \/ \E t \in f.todo, ok \in BOOLEAN :
             LET A == {a \in authorities : a.name = t[2].AttestationAuthorityName} IN
             /\ Call(ok)
             /\ Step(c, IF ok /\ A # {}
                        THEN [f EXCEPT !.pc = "noteGet", !.item = t, !.auths = A]
                        ELSE failed(f))
    /\ UNCHANGED <<policies, authorities, occurrences, notes, acked>>

\* Mutant: the note is created without looking for it.
GetNote_alwaysCreates(c) ==
    /\ loc[c].pc = "noteGet"
    /\ Step(c, [loc[c] EXCEPT !.pc = "noteCreate"])
    /\ NoCall
    /\ UNCHANGED <<policies, authorities, occurrences, notes, acked>>

\* GetOrCreateAttestationNote.
GetNote(c) ==
    /\ loc[c].pc = "noteGet"
    /\ \E a \in loc[c].auths, ok \in BOOLEAN :
          /\ Call(ok)
          /\ Step(c, [loc[c] EXCEPT !.pc =
                IF ok /\ a.note \in notes THEN "secret" ELSE "noteCreate"])
    /\ UNCHANGED <<policies, authorities, occurrences, notes, acked>>

\* Mutant: the note gets the name of the authority.
CreateNote_byName(c) ==
    /\ loc[c].pc = "noteCreate"
    /\ \E a \in loc[c].auths, ok \in BOOLEAN :
          /\ Call(ok)
          /\ notes' = IF ok THEN notes \cup {a.name} ELSE notes
          /\ Step(c, IF ok THEN [loc[c] EXCEPT !.pc = "secret"] ELSE failed(loc[c]))
    /\ UNCHANGED <<policies, authorities, occurrences, acked>>

CreateNote(c) ==
    /\ loc[c].pc = "noteCreate"
    /\ \E a \in loc[c].auths, ok \in BOOLEAN, done \in BOOLEAN :
          /\ Call(ok)
          /\ ok => done
          /\ notes' = IF done THEN notes \cup {a.note} ELSE notes
          /\ Step(c, IF ok /\ a.note \notin notes THEN [loc[c] EXCEPT !.pc = "secret"]
                     ELSE failed(loc[c]))
    /\ UNCHANGED <<policies, authorities, occurrences, acked>>

\* secrets.Fetch.
FetchSecret(c) ==
    /\ loc[c].pc = "secret"
    /\ \E ok \in BOOLEAN :
          LET f == loc[c] IN
          /\ Call(ok)
          /\ Step(c, IF ok /\ f.item[2].PrivateKeySecretName \in DOMAIN SecretKey
                     THEN [f EXCEPT !.pc = "occurrence"] ELSE failed(f))
    /\ UNCHANGED <<policies, authorities, occurrences, notes, acked>>

\* CreateAttestationOccurrence, and the next turn of the loops.
CreateOccurrence(c) ==
    /\ loc[c].pc = "occurrence"
    /\ \E a \in loc[c].auths, ok \in BOOLEAN, done \in BOOLEAN :
          LET f == loc[c]
              image == f.item[1]
              valid == image \in StrictDigest \cap OnGCR
              key == SecretKey[f.item[2].PrivateKeySecretName]
          IN /\ Call(ok)
             /\ ok => done
             /\ occurrences' = IF done /\ valid
                               THEN occurrences \cup {newOccurrence(a.note, image, key)}
                               ELSE occurrences
             /\ Step(c, IF ok /\ valid
                        THEN [f EXCEPT !.pc = "next", !.todo = @ \ {f.item},
                                       !.item = None, !.auths = {}]
                        ELSE failed(f))
    /\ UNCHANGED <<policies, authorities, notes, acked>>

\* msg.Ack and msg.Nack.  A lost acknowledgement is a delivery after it.
Ack(c) ==
    /\ loc[c].pc \in {"ack", "nack"}
    /\ acked' = IF loc[c].pc = "ack" THEN acked \cup {loc[c].event} ELSE acked
    /\ Step(c, Idle)
    /\ UNCHANGED <<policies, authorities, occurrences, notes, faults, edits>>

\* The process dies: its events are delivered again.
Crash ==
    /\ faults < MaxFaults
    /\ loc # [c \in Callbacks |-> Idle]
    /\ loc' = [c \in Callbacks |-> Idle]
    /\ faults' = faults + 1
    /\ UNCHANGED <<policies, authorities, occurrences, notes, acked, edits>>

EditCluster ==
    /\ edits < MaxEdits
    /\ edits' = edits + 1
    /\ \/ policies' \in PolicyLists \ {policies} /\ UNCHANGED authorities
       \/ /\ \E a \in Authorities : authorities' =
                IF a \in authorities THEN authorities \ {a}
                ELSE {b \in authorities : b.name # a.name} \cup {a}
          /\ UNCHANGED policies
    /\ UNCHANGED <<occurrences, notes, acked, loc, faults>>

Work(c) ==
    \/ ListPolicies(c) \/ NewClient(c) \/ NextItem(c) \/ GetNote(c) \/ CreateNote(c)
    \/ FetchSecret(c) \/ CreateOccurrence(c) \/ Ack(c)

Next == (\E c \in Callbacks : Receive(c) \/ Work(c)) \/ Crash \/ EditCluster

\* Every call returns, and the subscription delivers every event until it is
\* acknowledged (external: at-least-once delivery).
deliver(e) == \E c \in Callbacks : Receive(c) /\ loc'[c].event = e

Fairness ==
    /\ \A c \in Callbacks : WF_vars(Work(c))
    /\ \A e \in Events : SF_vars(deliver(e) /\ e \notin acked)

Spec == Init /\ [][Next]_vars
FairSpec == Spec /\ Fairness

-----------------------------------------------------------------------------
(* Properties.                                                             *)

TypeOK ==
    /\ policies \in PolicyLists /\ authorities \subseteq Authorities
    /\ occurrences \subseteq {newOccurrence(n, i, SecretKey[s]) :
                                 n \in Notes, i \in EventImages, s \in DOMAIN SecretKey}
    /\ notes \subseteq Notes
    /\ acked \subseteq Events
    /\ loc \in [Callbacks -> Frame]
    /\ faults \in 0..MaxFaults /\ edits \in 0..MaxEdits

\* The image is attested for that policy by one of the authorities it may name.
attested(i, bp) ==
    \E a \in Authorities :
        /\ a.name = bp.AttestationAuthorityName
        /\ bp.PrivateKeySecretName \in DOMAIN SecretKey
        /\ newOccurrence(a.note, i, SecretKey[bp.PrivateKeySecretName]) \in occurrences

\* A callback acknowledges an event only when each of its images is attested for
\* each policy that it has listed and that accepts the source: a failure part of
\* the way, a crash or a second callback on the same event never leaves an image
\* of an acknowledged build without its attestation (process).
AckedIsSigned ==
    \A c \in Callbacks : loc[c].pc = "ack" =>
        /\ loc[c].event.parses
        /\ \A t \in toSign(loc[c].event, loc[c].bps) : attested(t[1], t[2])

\* Images are attested only for a complete build from a source that the policy
\* accepts, with the policy's own key under the note of its authority
\* (ValidateAndSign, addAttestation).
OnlyBuildsSigned ==
    \A o \in occurrences : \E e \in Events, bp \in Policies, a \in Authorities :
        /\ e.parses /\ e.status = "SUCCESS" /\ e.source \in bp.BuiltFrom
        /\ \E x \in e.images : x.ref = o.resource /\ ~x.latest
        /\ a.name = bp.AttestationAuthorityName
        /\ o = newOccurrence(a.note, o.resource, SecretKey[bp.PrivateKeySecretName])

\* Nothing stands in the way of signing the event for good.
signable(e) ==
    /\ e.parses
    /\ \A t \in toSign(e, policies) :
          /\ \E a \in authorities : a.name = t[2].AttestationAuthorityName
          /\ t[2].PrivateKeySecretName \in DOMAIN SecretKey
          /\ t[1] \in StrictDigest \cap OnGCR

\* Every event is acknowledged in the end, unless it cannot be parsed or an
\* authority, a secret or an image stands in the way: failed calls, a note
\* created by another callback and events that come back forever only delay it.
EventsAcked ==
    \A e \in Events : <>[]signable(e) => <>(e \in acked)

=============================================================================
