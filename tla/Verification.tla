---------------------------- MODULE Verification ----------------------------
(***************************************************************************)
(* Under the lookups of Admission: the server comes up with its metadata   *)
(* backend, a review holds an image against the allowlists, pages through  *)
(* the occurrences of an authority's note and verifies them, a scan result *)
(* is paged in the same way, an attestation is looked up and deleted, and  *)
(* attestors of every kind sign and file occurrences meanwhile             *)
(* (pkg/kritis/metadata/grafeas, pkg/attestlib, docs/standalone).          *)
(*                                                                         *)
(* The metadata server is external.  It keeps occurrences in the order of  *)
(* their creation, a page token is a place in that order, and a page holds *)
(* what the server finds up to that place when it is asked, which may be   *)
(* nothing although there is more behind it.  Whether the server honours   *)
(* the filter of a request is left open: both kinds exist.                 *)
(***************************************************************************)
EXTENDS Integers, Sequences, FiniteSets, Allowlist, Signatures, MetadataBackend

\* The view Admission and Cron have of the same lookup, in one step.
Review == INSTANCE Attestations

CONSTANTS
    Clients,           \* the goroutines and processes at work
    Situations,        \* where a behaviour may start, see Init
    HasDigest,         \* images that parse as a digest, StrictValidation
    GlobalImageAllowlist,          \* references that are always allowed
    PageSize

\* A key as NewPublicKey makes it: only a PGP key is known by its fingerprint.
wellMade(k) ==
    IF k.AuthenticatorType = "Pgp" THEN k.ID = <<"fingerprint", k.KeyData.key.id>>
    ELSE k.ID[1] # "fingerprint"

\* The job of a client is [does, image, note, keys, allowlist, signer].  Names are
\* sequences of symbols, and the key management service has a key of the kind its
\* algorithm wants.
wellFormed(j) ==
    /\ j.image \in Seq(STRING) \ {<<>>}
    /\ j.allowlist \in Seq(Seq(STRING))
    /\ Len(j.keys) \in Nat /\ DOMAIN j.keys = 1..Len(j.keys)
    /\ \A i \in DOMAIN j.keys : wellMade(j.keys[i])
    /\ j.signer.alg \in SignatureAlgorithm
    /\ j.signer.pem.key \in [type : STRING, id : STRING]
    /\ j.signer.kind = "kms" =>
          j.signer.pem.key.type = IF j.signer.alg \in Ecdsa THEN "ecdsa" ELSE "rsa"

\* The global list is a constant of the code, and each of its names parses.
ASSUME VerificationAssumption ==
    /\ PageSize \in Nat \ {0}
    /\ Len(GlobalImageAllowlist) \in Nat
    /\ DOMAIN GlobalImageAllowlist = 1..Len(GlobalImageAllowlist)
    /\ \A i \in DOMAIN GlobalImageAllowlist : Repository[GlobalImageAllowlist[i]] # NoReference
    /\ \A s \in Situations :
          /\ s.MaxFaults \in Nat /\ s.MaxEdits \in Nat
          /\ s.disk \in {"good", "bad"}
          /\ IsFiniteSet(s.occurrences)
          /\ \A o, p \in s.occurrences : o.place = p.place => o = p
          /\ \A o \in s.occurrences : o.place \in 1..Cardinality(s.occurrences)
          /\ \A c \in Clients : wellFormed(s.job[c])

VARIABLES
    server,     \* the process: its state, and config once it has one
    disk,       \* the certificates the configuration points to
    given,      \* the situation, which does not change
    occurrences, \* on the metadata server, each with its place
    notes,      \* notes on the metadata server
    frame,      \* the local variables of each client's job
    there, met, \* history: matching occurrences that were there throughout,
                \* or at some time, since the client began to page
    last,       \* the place of the latest occurrence
    faults, edits

outside == <<server, disk, given>>
history == <<there, met>>
vars == <<outside, occurrences, notes, frame, history, last, faults, edits>>

DefaultProjectNote == "att"
AttestationAuthority == "ATTESTATION_AUTHORITY"
PkgVulnerability == "PACKAGE_VULNERABILITY"

\* A process that is not there has no configuration.
NoConfig == Configure(<<>>, "")

job == given.job
MaxFaults == given.MaxFaults
MaxEdits == given.MaxEdits

Idle == [pc |-> "start", token |-> 0, got |-> {}, att |-> jwtAttestation,
         verdict |-> "none", failed |-> FALSE]
Go(c, f) == frame' = [frame EXCEPT ![c] = f]
Done(f, verdict) == [f EXCEPT !.pc = "done", !.verdict = verdict]

GetResourceURL(image) == <<"https://">> \o image

\* What a signature is about and what a verifier expects: the repository and the
\* digest of an image, not its name.
NewAtomicContainerSig(image) == [DockerRef |-> Repository[image], Digest |-> Last(image)]

\* What the request of a client's job asks for.
filtered(o, j) ==
    given.filters =>
        /\ o.uri = GetResourceURL(j.image)
        /\ o.kind = IF j.does = "vulnerabilities" THEN PkgVulnerability ELSE AttestationAuthority
listed(o, j) == (j.does # "vulnerabilities" => o.note = j.note) /\ filtered(o, j)
Listed(c, S) == {o \in S : listed(o, job[c])}

Call(ok) ==
    /\ ok \/ faults < MaxFaults
    /\ faults' = IF ok THEN faults ELSE faults + 1

\* The history of everyone who is paging, after occurrences has changed.
Observe ==
    /\ there' = [c \in Clients |-> there[c] \cap occurrences']
    /\ met' = [c \in Clients |-> IF frame[c].pc = "fetch" THEN met[c] \cup Listed(c, occurrences')
                                 ELSE met[c]]

\* A situation is what the server finds when it starts, kritisConfigs, certFile and
\* disk, what the metadata server holds, occurrences and notes, whether it honours
\* filters, the job of each client, and the bounds MaxFaults and MaxEdits.
Init ==
    /\ server = [state |-> "starting", config |-> NoConfig]
    /\ given \in Situations
    /\ disk = given.disk
    /\ occurrences = given.occurrences /\ notes = given.notes
    /\ frame = [c \in Clients |-> Idle]
    /\ there = [c \in Clients |-> {}] /\ met = [c \in Clients |-> {}]
    /\ last = Cardinality(occurrences) /\ faults = 0 /\ edits = 0

-----------------------------------------------------------------------------
(* The server.                                                             *)

\* What the cluster holds when the server asks.
KritisConfigs == given.kritisConfigs

\* main: one configuration at most, a background job that starts, then requests.
\* Whichever of its calls fails, the process ends.
Boot ==
    /\ server.state = "starting"
    /\ \E ok \in BOOLEAN :
          LET config == Configure(KritisConfigs, given.certFile)
              cron == StartCronJob(config, disk, ok)
          IN /\ Call(ok)
             /\ server' = IF ok /\ config.verdict = "ok" /\ cron = "ok"
                          THEN [state |-> "serving", config |-> config]
                          ELSE [state |-> "exited", config |-> NoConfig]
    /\ UNCHANGED <<disk, given, occurrences, notes, frame, history, last, edits>>

\* The ticker of the background job refuses an interval that is not positive,
\* and takes the process with it.
CronStart ==
    /\ server.state = "serving" /\ server.config.Interval = notPositive
    /\ server' = [state |-> "exited", config |-> NoConfig]
    /\ frame' = [c \in Clients |-> IF job[c].does = "review" /\ frame[c].pc = "fetch"
                                   THEN Done([frame[c] EXCEPT !.failed = TRUE], "lost")
                                   ELSE frame[c]]
    /\ UNCHANGED <<disk, given, occurrences, notes, history, last, faults, edits>>

\* Certificates are replaced while the server runs.
EditDisk ==
    /\ server.state = "serving" /\ edits < MaxEdits
    /\ disk' \in {"good", "bad"} \ {disk}
    /\ edits' = edits + 1
    /\ UNCHANGED <<server, given, occurrences, notes, frame, history, last, faults>>

-----------------------------------------------------------------------------
(* Listing.                                                                *)

StartFetch(c, f) ==
    /\ Go(c, [f EXCEPT !.pc = "fetch"])
    /\ there' = [there EXCEPT ![c] = Listed(c, occurrences)]
    /\ met' = [met EXCEPT ![c] = Listed(c, occurrences)]

\* The metadata server goes on from the token to a place of its choice and answers
\* with what it finds on the way, no more than PageSize, and that place as the token;
\* the token is 0 when the server knows that there is no more.
Pages(c) ==
    LET rest == {o \in Listed(c, occurrences) : o.place > frame[c].token}
        upTo(t) == {o \in rest : o.place <= t}
        ends == {t \in (frame[c].token + 1)..(last + 1) : Cardinality(upTo(t)) <= PageSize}
    IN {[page |-> upTo(t), token |-> t] : t \in ends}
       \cup {[page |-> rest, token |-> 0] : n \in {PageSize} \cap Cardinality(rest)..PageSize}

\* GetAttestationsFromOccurrence on one occurrence after the other: an unknown kind
\* of signature is an error, an occurrence without an attestation a nil pointer.
known(o) == o.stype \notin {"unknown", "none"}
parses(S) == \A o \in S : known(o)
panics(S) == \E o \in S : o.stype = "none" /\ \A p \in S : p.place < o.place => known(p)

VerifyAll(c, S) ==
    parses(S) /\ \E o \in S : VerifyAttestation(o.att, job[c].keys, NewAtomicContainerSig(job[c].image))

\* The attestations of a review: a panic loses the request, an error counts as not
\* attested.
reviewed(c, f) ==
    IF panics(f.got) THEN Done([f EXCEPT !.failed = TRUE], "panic")
    ELSE Done(f, IF VerifyAll(c, f.got) THEN "attested" ELSE "notAttested")

\* IsFixAvailable: no package is without a fixed version.
IsFixAvailable(issues) == "none" \notin issues /\ "maximum" \notin issues

\* GetVulnerabilityFromOccurrence.
VulnerabilitiesOf(S) ==
    {[CVE |-> o.note, HasFixAvailable |-> IsFixAvailable(o.issues)] :
        o \in {p \in S : p.kind = PkgVulnerability}}

\* Mutant: one of several attestations is deleted.
Listing_deletesAny(c, f) ==
    CASE job[c].does = "review" -> reviewed(c, f)
      [] job[c].does = "vulnerabilities" -> Done(f, "listed")
      [] job[c].does = "delete" ->
            IF f.got # {} THEN [f EXCEPT !.pc = "delete"] ELSE Done(f, "error")

\* What becomes of the occurrences once the loop has ended.
Listing(c, f) ==
    CASE job[c].does = "review" -> reviewed(c, f)
      [] job[c].does = "vulnerabilities" -> Done(f, "listed")
      [] job[c].does = "delete" ->
            IF Cardinality(f.got) = 1 THEN [f EXCEPT !.pc = "delete"] ELSE Done(f, "error")

\* An error counts as not attested in a review.
Failed(c) ==
    Done([frame[c] EXCEPT !.failed = TRUE, !.got = {}],
         IF job[c].does = "review" THEN "notAttested" ELSE "error")

\* Mutant: the token of the reply is not put into the next request.
FetchPage_sameToken(c) ==
    /\ frame[c].pc = "fetch"
    /\ \E r \in Pages(c) :
          LET got == frame[c].got \cup r.page
              f == [frame[c] EXCEPT !.got = got]
          IN Go(c, IF got = {} \/ r.token = 0 THEN Listing(c, [f EXCEPT !.token = r.token]) ELSE f)
    /\ UNCHANGED <<outside, occurrences, notes, history, last, faults, edits>>

\* Mutant: a page that is not full is taken for the last one.
FetchPage_shortIsLast(c) ==
    /\ frame[c].pc = "fetch"
    /\ \E r \in Pages(c) :
          LET got == frame[c].got \cup r.page
              f == [frame[c] EXCEPT !.got = got, !.token = r.token]
          IN Go(c, IF Cardinality(r.page) < PageSize \/ r.token = 0 THEN Listing(c, f) ELSE f)
    /\ UNCHANGED <<outside, occurrences, notes, history, last, faults, edits>>

\* fetchAttestationOccurrence and fetchVulnerabilityOccurrence, one page.
FetchPage(c) ==
    /\ frame[c].pc = "fetch"
    /\ \E ok \in BOOLEAN, r \in Pages(c) :
          LET got == frame[c].got \cup r.page
              f == [frame[c] EXCEPT !.got = got, !.token = r.token]
          IN /\ Call(ok)
             /\ Go(c, IF ~ok THEN Failed(c)
                      ELSE IF got = {} \/ r.token = 0 THEN Listing(c, f) ELSE f)
    /\ UNCHANGED <<outside, occurrences, notes, history, last, edits>>

-----------------------------------------------------------------------------
(* The jobs.                                                               *)

\* imageInGlobalAllowlist and imageInGapAllowlist.
allowed(j) ==
    \/ imageInAllowlistByReference(j.image, GlobalImageAllowlist)
    \/ imageInAllowlistByPattern(j.image, j.allowlist)

\* GetValidatedAttestations has no key, or no digest to verify.
givesUp(j) == j.does = "review" /\ (j.keys = <<>> \/ j.image \notin HasDigest)

\* A review makes its own client, then looks at the allowlists, then at the keys.
\* With a client of Container Analysis, which has no pages, it goes on in Admission;
\* making that client may fail.
StartReview(c) ==
    /\ frame[c].pc = "start" /\ job[c].does = "review" /\ server.state = "serving"
    /\ \E ok \in BOOLEAN :
          LET f == frame[c]
              ours == server.config.Metadata = GrafeasMetadata
              client == MetadataClient(server.config, disk, ok)
          IN /\ Call(ok) /\ (ours => ok)
             /\ \/ /\ client # "ok"
                   /\ Go(c, Done([f EXCEPT !.failed = TRUE], client)) /\ UNCHANGED history
                \/ client = "ok" /\ ~ours /\ Go(c, Done(f, "elsewhere")) /\ UNCHANGED history
                \/ /\ client = "ok" /\ ours /\ (allowed(job[c]) \/ givesUp(job[c]))
                   /\ Go(c, Done(f, IF allowed(job[c]) THEN "allowed" ELSE "notAttested"))
                   /\ UNCHANGED history
                \/ /\ client = "ok" /\ ours /\ ~allowed(job[c]) /\ ~givesUp(job[c])
                   /\ StartFetch(c, f)
    /\ UNCHANGED <<outside, occurrences, notes, last, edits>>

StartListing(c) ==
    /\ frame[c].pc = "start" /\ job[c].does \in {"vulnerabilities", "delete"}
    /\ StartFetch(c, frame[c])
    /\ UNCHANGED <<outside, occurrences, notes, last, faults, edits>>

\* DeleteAttestationOccurrence goes by the name of the one it has found.
Delete(c) ==
    /\ frame[c].pc = "delete"
    /\ \E o \in frame[c].got, ok, done \in BOOLEAN :
          /\ Call(ok)
          /\ ok => done
          /\ occurrences' = IF done THEN occurrences \ {o} ELSE occurrences
          /\ Go(c, Done([frame[c] EXCEPT !.failed = ~ok],
                        IF ok /\ o \in occurrences THEN "deleted" ELSE "error"))
    /\ Observe
    /\ UNCHANGED <<outside, notes, last, edits>>

\* The example of docs/standalone creates its note first and lists the notes; a
\* note that exists ends it.
ExampleNote(c) ==
    /\ frame[c].pc = "start" /\ job[c].does = "attest" /\ job[c].signer.kind = "example"
    /\ \E ok, done \in BOOLEAN :
          /\ Call(ok)
          /\ ok => done
          /\ notes' = IF done THEN notes \cup {DefaultProjectNote} ELSE notes
          /\ Go(c, IF ok /\ DefaultProjectNote \notin notes
                   THEN [frame[c] EXCEPT !.pc = "notes"]
                   ELSE Done([frame[c] EXCEPT !.failed = TRUE], "error"))
    /\ UNCHANGED <<outside, occurrences, history, last, edits>>

ExampleListNotes(c) ==
    /\ frame[c].pc = "notes"
    /\ \E ok \in BOOLEAN :
          /\ Call(ok)
          /\ Go(c, IF ok THEN [frame[c] EXCEPT !.pc = "sign"]
                   ELSE Done([frame[c] EXCEPT !.failed = TRUE], "error"))
    /\ UNCHANGED <<outside, occurrences, notes, history, last, edits>>

\* AtomicContainerPayload fails on an image without a digest.
hasPayload(image) == image \in HasDigest

\* What the signer makes: the payload needs a digest, the key comes from a file, a
\* secret or the key management service.
CreateAttestation(j, ok) ==
    LET s == j.signer
        payload == NewAtomicContainerSig(j.image)
    IN CASE ~ok \/ ~hasPayload(j.image) \/ s.kind = "jwt" -> jwtAttestation
         [] ok /\ hasPayload(j.image) /\ s.kind = "pkix" -> pkixAttestation(s, payload)
         [] ok /\ hasPayload(j.image) /\ s.kind = "kms" -> kmsAttestation(s, payload)
         [] OTHER -> pgpAttestation(s, payload)

signing(c) ==
    /\ job[c].does = "attest"
    /\ \/ frame[c].pc = "sign"
       \/ frame[c].pc = "start" /\ job[c].signer.kind # "example"

\* Mutant: the error of the signer is only logged.
Sign_logged(c) ==
    /\ signing(c)
    /\ \E ok \in BOOLEAN :
          /\ Call(ok)
          /\ Go(c, [frame[c] EXCEPT !.pc = "upload", !.att = CreateAttestation(job[c], ok)])
    /\ UNCHANGED <<outside, occurrences, notes, history, last, edits>>

Sign(c) ==
    /\ signing(c)
    /\ \E ok \in BOOLEAN :
          LET att == CreateAttestation(job[c], ok) IN
          /\ Call(ok)
          /\ Go(c, IF failed(att) THEN Done([frame[c] EXCEPT !.failed = TRUE], att.PublicKeyID[1])
                   ELSE [frame[c] EXCEPT !.pc = "upload", !.att = att])
    /\ UNCHANGED <<outside, occurrences, notes, history, last, edits>>

\* The occurrence is filed under the resource URL of the image; the example files
\* it under the image itself.
newOccurrence(c, place) ==
    LET example == job[c].signer.kind = "example" IN
    [place |-> place, note |-> IF example THEN DefaultProjectNote ELSE job[c].note,
     uri |-> IF example THEN job[c].image ELSE GetResourceURL(job[c].image),
     kind |-> AttestationAuthority, stype |-> job[c].signer.kind, att |-> frame[c].att,
     issues |-> {}]

\* UploadAttestationOccurrence: the reply may be lost.
Upload(c) ==
    /\ frame[c].pc = "upload"
    /\ \E ok, done \in BOOLEAN :
          /\ Call(ok)
          /\ ok => done
          /\ occurrences' = IF done THEN occurrences \cup {newOccurrence(c, last + 1)}
                            ELSE occurrences
          /\ last' = IF done THEN last + 1 ELSE last
          /\ Go(c, Done([frame[c] EXCEPT !.att = jwtAttestation, !.failed = ~ok],
                        IF ok THEN "filed" ELSE "error"))
    /\ Observe
    /\ UNCHANGED <<outside, notes, edits>>

\* Somebody else deletes an occurrence.
EditOccurrences ==
    /\ edits < MaxEdits
    /\ \E o \in occurrences : occurrences' = occurrences \ {o}
    /\ edits' = edits + 1
    /\ Observe
    /\ UNCHANGED <<outside, notes, frame, last, faults>>

Work(c) ==
    \/ StartReview(c) \/ StartListing(c) \/ FetchPage(c) \/ Delete(c)
    \/ ExampleNote(c) \/ ExampleListNotes(c) \/ Sign(c) \/ Upload(c)

Next ==
    \/ Boot \/ CronStart \/ EditDisk \/ EditOccurrences
    \/ \E c \in Clients : Work(c)

\* Every client runs, and each of its calls returns.
Spec == Init /\ [][Next]_vars /\ \A c \in Clients : WF_vars(Work(c))

-----------------------------------------------------------------------------
(* Properties.                                                             *)

\* Every occurrence has a place of its own, a client's state fits its job, what it
\* has fetched is what the server had, and what it is about to file is signed.
TypeOK ==
    /\ server.state \in {"starting", "serving", "exited"}
    /\ disk \in {"good", "bad"}
    /\ \A o, p \in occurrences : o.place = p.place => o = p
    /\ \A o \in occurrences : o.place \in 1..last
    /\ \A c \in Clients :
          /\ frame[c].pc \in {"start", "done"} \cup
                CASE job[c].does \in {"review", "vulnerabilities"} -> {"fetch"}
                  [] job[c].does = "delete" -> {"fetch", "delete"}
                  [] job[c].does = "attest" -> {"notes", "sign", "upload"}
                  [] OTHER -> {}
          /\ frame[c].pc = "upload" => ~failed(frame[c].att)
          /\ there[c] \subseteq met[c]
          /\ frame[c].got \subseteq met[c]
    /\ faults \in 0..MaxFaults /\ edits \in 0..MaxEdits

\* The loops stop at a first page that is empty, also when it comes with a token and
\* more occurrences are behind it.
brokeOff(f) == f.got = {} /\ f.token # 0

\* The loops of fetchAttestationOccurrence and fetchVulnerabilityOccurrence: one that
\* ends without an error has every occurrence that was there from its first page to
\* its last, wherever the server cuts the pages and whatever is created or deleted
\* between them, and none that was not there at some time; the result of
\* Vulnerabilities then names each of those vulnerabilities.  Otherwise it has broken
\* off with nothing at all: there is no part of a listing that passes for the whole.
FetchComplete ==
    \A c \in Clients :
        LET f == frame[c]
            ended == ~f.failed /\ (f.pc = "delete" \/ f.verdict \in {"attested", "notAttested", "listed"})
        IN ended /\ ~givesUp(job[c]) =>
              /\ there[c] \subseteq f.got \/ brokeOff(f)
              /\ f.got \subseteq met[c]
              /\ job[c].does = "vulnerabilities" /\ ~brokeOff(f) =>
                    \A o \in there[c] : o.kind = PkgVulnerability =>
                        \E v \in VulnerabilitiesOf(f.got) : v.CVE = o.note

\* What this module knows of a client's job and of its occurrences, as Admission
\* and Cron see them: an authority with keys, an occurrence with signatures.
authorityOf(j) ==
    [name |-> j.note, note |-> j.note,
     keys |-> {[KeyType |-> IF k.AuthenticatorType = "Pgp" THEN "PGP" ELSE "PKIX",
                pkix |-> k.AuthenticatorType # "Pgp", armored |-> {k.ID}] : k \in Range(j.keys)}]
asSeen(S, j) ==
    {[note |-> o.note, resource |-> j.image, known |-> known(o),
      signatures |-> {[publicKeyID |-> o.att.PublicKeyID,
                       signedBy |-> IF o.att.Signature.scheme = "PGP"
                                    THEN <<"fingerprint", o.att.Signature.by>>
                                    ELSE <<Review!Forged, "">>,
                       payload |-> IF o.att.Signature.payload = NewAtomicContainerSig(j.image)
                                   THEN j.image ELSE <<>>]}] : o \in S}

\* A review is right although its pages are read one after the other and attestors
\* work meanwhile.  It answers "attested" only if the one-step lookup of Admission
\* finds a validated attestation among the occurrences met: filed under the note,
\* signed by a PGP key of the authority, about this image.  It answers
\* "not attested" only if that lookup finds none among those that were there
\* throughout, or a page failed, or the loop has broken off at an empty first page,
\* or an occurrence was met that does not parse.
AcceptedMeansSigned ==
    \A c \in Clients :
        LET j == job[c]
            found(S) == Review!hasValidatedAttestation(authorityOf(j), asSeen(S, j), j.image)
        IN /\ frame[c].verdict = "attested" => found(met[c])
           /\ /\ frame[c].verdict = "notAttested" /\ ~frame[c].failed /\ ~brokeOff(frame[c])
              /\ Review!attestationsParse(asSeen(met[c], j), j.note, j.image)
              => ~found(there[c])

\* The images a pattern stands for: itself, or with a wildcard at its end every
\* name that goes on without another "/" (the comment of imageNamePatternMatch).
Denotes(pattern, image) ==
    \/ pattern = image /\ pattern # <<>> /\ Last(pattern) # "*"
    \/ /\ pattern # <<>> /\ Last(pattern) = "*"
       /\ \E n \in 0..Len(image) : /\ SubSeq(image, 1, n) = Front(pattern)
                                   /\ "/" \notin Range(SubSeq(image, n + 1, Len(image)))

\* A review skips the attestations of exactly the images that an allowlist stands
\* for: by the repository in the global list, by a pattern in the policy's list as
\* far as its first empty pattern.
SkipsTheAllowed ==
    \A c \in Clients :
        LET j == job[c]
            usable(i) == \A k \in 1..i : j.allowlist[k] # <<>>
            onList == \/ \E r \in Range(GlobalImageAllowlist) :
                            Repository[r] = Repository[j.image] /\ Repository[r] # NoReference
                      \/ \E i \in DOMAIN j.allowlist : usable(i) /\ Denotes(j.allowlist[i], j.image)
        IN j.does = "review" =>
              /\ frame[c].verdict = "allowed" => onList
              /\ frame[c].verdict \in {"attested", "notAttested"} \/ frame[c].pc = "fetch" => ~onList

\* The detached signatures of pkixSigner and kmsSigner are accepted by
\* verifyDetached under the key and the payload they were made with, and under
\* exactly those algorithms that have the same JWA name (getAlgName).
DetachedExact ==
    \A c, d \in Clients :
        frame[c].pc = "upload" /\ job[c].signer.kind \in {"pkix", "kms"} /\ job[d].does = "attest" =>
            LET key == job[d].signer.pem.key
                signed(x) == NewAtomicContainerSig(job[x].image) IN
            \A alg \in SignatureAlgorithm, payload \in {signed(c), signed(d)} :
                verifyDetached(frame[c].att.Signature, [blocks |-> 1, key |-> key], alg, payload)
                    <=> /\ key = job[c].signer.pem.key
                        /\ payload = signed(c)
                        /\ getAlgName(alg) = getAlgName(job[c].signer.alg)

\* DeleteAttestationOccurrence deletes one occurrence that it has listed, and only
\* if no other one of that image and note was there from its first page until the
\* deletion.
DeletesTheOne ==
    [][\A c \in Clients :
          frame[c].pc = "delete" /\ frame'[c].pc = "done" =>
              /\ occurrences \ occurrences' \subseteq met[c]
              /\ Cardinality(occurrences \ occurrences') <= 1
              /\ there[c] \subseteq frame[c].got /\ Cardinality(there[c]) <= 1]_vars

\* A server that serves has made a client with its configuration once, so that a
\* request fails to make its own only when the certificates have changed since or
\* the library of Container Analysis does not come up: it never panics on a nil
\* certificate configuration and never meets an unknown backend.
ServingMeansClient ==
    server.state = "serving" =>
        /\ \E d \in {"good", "bad"} : MetadataClient(server.config, d, TRUE) = "ok"
        /\ \A d \in {"good", "bad"}, ok \in BOOLEAN : MetadataClient(server.config, d, ok) # "panic"
        /\ edits = 0 => MetadataClient(server.config, disk, TRUE) = "ok"

\* Every job that has begun ends: a listing ends although others file occurrences
\* while it runs.
JobsEnd == \A c \in Clients : frame[c].pc # "start" ~> frame[c].pc = "done"

=============================================================================
