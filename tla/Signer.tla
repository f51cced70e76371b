------------------------------- MODULE Signer -------------------------------
(***************************************************************************)
(* The signer that build pipelines call (cmd/kritis/signer, pkg/kritis/    *)
(* signer): it waits for the vulnerability scan of an image, holds the     *)
(* result against a VulnzSigningPolicy and attests the image under a note. *)
(*                                                                         *)
(* Every invocation is a process that handles one image and exits.  All of *)
(* them use the same note.  One action is one call to Container Analysis   *)
(* or to the key management service; invocations run side by side and the  *)
(* scanner goes on while they run.                                         *)
(***************************************************************************)
EXTENDS Naturals, SecurityPolicy

CONSTANTS
    Signers,           \* invocations
    Image, Mode, Overwrite, \* what each of them is called with
    Images, FullyQualified, StrictDigest, OnGCR,  \* images, as in ImageReview
    Policy,            \* the VulnzSigningPolicy
    VulnLists,         \* vulnerability lists a scan may produce
    Earlier,           \* names of occurrences of earlier invocations
    MaxFaults, MaxScans \* bounds on failures and on the scanner's steps

CheckAndSign == "check-and-sign"
CheckOnly == "check-only"
BypassAndSign == "bypass-and-sign"

ASSUME SignerAssumption ==
    /\ MaxFaults \in Nat /\ MaxScans \in Nat
    /\ \A s \in Signers : /\ Image[s] \in Images
                          /\ Mode[s] \in {CheckAndSign, CheckOnly, BypassAndSign}
                          /\ Overwrite[s] \in BOOLEAN
    /\ Signers \cap Earlier = {}
    /\ StrictDigest \subseteq FullyQualified

VARIABLES
    analysis,       \* status of the discovery occurrence of each image
    vulnerabilities, \* the scanner's findings for each image
    occurrences,    \* attestations under the note, [image, by]
    note,           \* the note exists
    pc,             \* where each invocation is
    timer,          \* the timeout of WaitForVulnzAnalysis
    found,          \* the occurrences DeleteAttestationOccurrence has listed
    seen,           \* history: the scans since an invocation began
    faults, scans

metadata == <<analysis, vulnerabilities>>
vars == <<metadata, occurrences, note, pc, timer, found, seen, faults, scans>>

doCheck(s) == Mode[s] \in {CheckAndSign, CheckOnly}
doSign(s) == Mode[s] \in {CheckAndSign, BypassAndSign}

\* The status of an analysis that is over.
Finished == {"success", "failed", "unsupported"}
Statuses == {"absent", "pending"} \cup Finished

Waiting == {"find", "poll", "select"}
PC == {"start", "vulnz", "credentials", "exists", "list", "delete", "create",
       "noteGet", "noteCreate", "upload", "signed", "passed", "failed"} \cup Waiting
Exited == {"signed", "passed", "failed"}

Init ==
    /\ analysis \in [Images -> Statuses]
    /\ vulnerabilities \in [Images -> VulnLists]
    /\ occurrences \in SUBSET [image : Images, by : Earlier]
    /\ note \in BOOLEAN
    /\ occurrences # {} => note
    /\ pc = [s \in Signers |-> "start"]
    /\ timer = [s \in Signers |-> "off"]
    /\ found = [s \in Signers |-> {}]
    /\ seen = [s \in Signers |-> {}]
    /\ faults = 0 /\ scans = 0

Goto(s, where) == pc' = [pc EXCEPT ![s] = where]

\* One call: it succeeds or it fails.
Call(ok) ==
    /\ ok \/ faults < MaxFaults
    /\ faults' = IF ok THEN faults ELSE faults + 1
    /\ UNCHANGED scans

\* An invocation at that place moves on after one call.
At(s, place) == pc[s] = place /\ UNCHANGED <<metadata, seen>>

onServer(image) == {o \in occurrences : o.image = image}

scanOf(image) == <<analysis[image], vulnerabilities[image]>>

-----------------------------------------------------------------------------
(* main: the mode, the wait and the check.                                 *)

Start(s) ==
    /\ pc[s] = "start"
    /\ Goto(s, IF doCheck(s) THEN "find" ELSE "credentials")
    /\ timer' = [timer EXCEPT ![s] = IF doCheck(s) THEN "running" ELSE "off"]
    /\ seen' = [seen EXCEPT ![s] = {scanOf(Image[s])}]
    /\ UNCHANGED <<metadata, occurrences, note, found, faults, scans>>

\* WaitForVulnzAnalysis looks for the discovery occurrence.  Finding none it
\* looks again at once.
FindDiscovery(s) ==
    /\ At(s, "find")
    /\ \E ok \in BOOLEAN :
          /\ Call(ok)
          /\ Goto(s, CASE ~ok -> "failed"
                       [] ok /\ analysis[Image[s]] = "absent" -> "find"
                       [] OTHER -> "poll")
    /\ UNCHANGED <<occurrences, note, timer, found>>

\* Mutants: any end of the analysis will do, or the loop skips the select.
PollDiscovery_anyEnd(s) ==
    /\ At(s, "poll")
    /\ \E ok \in BOOLEAN :
          /\ Call(ok)
          /\ Goto(s, CASE ~ok -> "failed"
                       [] ok /\ analysis[Image[s]] \in Finished -> "vulnz"
                       [] OTHER -> "select")
    /\ timer' = [timer EXCEPT ![s] = IF pc'[s] = "select" THEN @ ELSE "off"]
    /\ UNCHANGED <<occurrences, note, found>>

PollDiscovery_continues(s) ==
    /\ At(s, "poll")
    /\ \E ok \in BOOLEAN :
          /\ Call(ok)
          /\ Goto(s, CASE ~ok \/ analysis[Image[s]] \in {"failed", "unsupported"} -> "failed"
                       [] ok /\ analysis[Image[s]] = "success" -> "vulnz"
                       [] OTHER -> "poll")
    /\ timer' = [timer EXCEPT ![s] = IF pc'[s] = "poll" THEN @ ELSE "off"]
    /\ UNCHANGED <<occurrences, note, found>>

PollDiscovery(s) ==
    /\ At(s, "poll")
    /\ \E ok \in BOOLEAN :
          /\ Call(ok)
          /\ Goto(s, CASE ~ok \/ analysis[Image[s]] \in {"failed", "unsupported"} -> "failed"
                       [] ok /\ analysis[Image[s]] = "success" -> "vulnz"
                       [] OTHER -> "select")
    /\ timer' = [timer EXCEPT ![s] = IF pc'[s] = "select" THEN @ ELSE "off"]
    /\ UNCHANGED <<occurrences, note, found>>

\* The two cases of the select.  The backoff starts at one nanosecond, so a
\* tick may come first however long the timeout has been over.
SelectTick(s) ==
    /\ At(s, "select")
    /\ Goto(s, "poll")
    /\ UNCHANGED <<occurrences, note, timer, found, faults, scans>>

SelectTimeout(s) ==
    /\ At(s, "select")
    /\ timer[s] = "fired"
    /\ Goto(s, "failed")
    /\ timer' = [timer EXCEPT ![s] = "off"]
    /\ UNCHANGED <<occurrences, note, found, faults, scans>>

\* ValidateVulnzSigningPolicy has a copy of the code for image security
\* policies, with other names for the thresholds and without image allowlist.
validateVulnzSigningPolicy(vsp, image, vulnz) ==
    IF image \notin FullyQualified THEN "violation"
    ELSE validateVulnz([MaximumSeverity |-> vsp.MaximumFixableSeverity,
                        MaximumFixUnavailableSeverity |-> vsp.MaximumUnfixableSeverity,
                        AllowlistCVEs |-> vsp.AllowlistCVEs], vulnz)

Check(s) ==
    /\ At(s, "vulnz")
    /\ \E ok \in BOOLEAN :
          /\ Call(ok)
          /\ Goto(s, CASE \/ ~ok \/ Image[s] \notin OnGCR
                          \/ validateVulnzSigningPolicy(Policy, Image[s],
                                vulnerabilities[Image[s]]) # "clean" -> "failed"
                       [] OTHER -> IF doSign(s) THEN "credentials" ELSE "passed")
    /\ UNCHANGED <<occurrences, note, timer, found>>

-----------------------------------------------------------------------------
(* main and SignImage: the attestation.                                    *)

\* The private key file or the client of the key management service.
ReadCredentials(s) ==
    /\ At(s, "credentials")
    /\ \E ok \in BOOLEAN : Call(ok) /\ Goto(s, IF ok THEN "exists" ELSE "failed")
    /\ UNCHANGED <<occurrences, note, timer, found>>

\* isAttestationAlreadyExist.
CheckExisting(s) ==
    /\ At(s, "exists")
    /\ \E ok \in BOOLEAN :
          /\ Call(ok)
          /\ Goto(s, CASE ~ok \/ Image[s] \notin OnGCR -> "failed"
                       [] ok /\ Image[s] \in OnGCR /\ onServer(Image[s]) = {} -> "create"
                       [] OTHER -> IF Overwrite[s] THEN "list" ELSE "signed")
    /\ UNCHANGED <<occurrences, note, timer, found>>

\* DeleteAttestationOccurrence: it wants exactly one, and deletes it by name.
ListExisting(s) ==
    /\ At(s, "list")
    /\ \E ok \in BOOLEAN :
          LET one == ok /\ \E o \in occurrences : onServer(Image[s]) = {o} IN
          /\ Call(ok)
          /\ Goto(s, IF one THEN "delete" ELSE "failed")
          /\ found' = [found EXCEPT ![s] = IF one THEN onServer(Image[s]) ELSE {}]
    /\ UNCHANGED <<occurrences, note, timer>>

DeleteExisting(s) ==
    /\ At(s, "delete")
    /\ \E ok \in BOOLEAN, done \in BOOLEAN :
          /\ Call(ok)
          /\ ok => done
          /\ occurrences' = IF done THEN occurrences \ found[s] ELSE occurrences
          /\ Goto(s, IF ok /\ found[s] \subseteq occurrences THEN "create" ELSE "failed")
    /\ found' = [found EXCEPT ![s] = {}]
    /\ UNCHANGED <<note, timer>>

\* createAttestation: the payload needs a digest, the signature the key service.
CreateAttestation(s) ==
    /\ At(s, "create")
    /\ \E ok \in BOOLEAN :
          /\ Call(ok)
          /\ Goto(s, IF ok /\ Image[s] \in StrictDigest THEN "noteGet" ELSE "failed")
    /\ UNCHANGED <<occurrences, note, timer, found>>

\* GetOrCreateAttestationNote: any error of the get leads to a create, which
\* fails when the note is there.
GetNote(s) ==
    /\ At(s, "noteGet")
    /\ \E ok \in BOOLEAN :
          Call(ok) /\ Goto(s, IF ok /\ note THEN "upload" ELSE "noteCreate")
    /\ UNCHANGED <<occurrences, note, timer, found>>

CreateNote(s) ==
    /\ At(s, "noteCreate")
    /\ \E ok \in BOOLEAN, done \in BOOLEAN :
          /\ Call(ok)
          /\ ok => done
          /\ note' = (note \/ done)
          /\ Goto(s, IF ok /\ ~note THEN "upload" ELSE "failed")
    /\ UNCHANGED <<occurrences, timer, found>>

\* Mutants: the occurrence has no resource, or a failed upload goes unnoticed.
Upload_noResource(s) ==
    /\ At(s, "upload")
    /\ \E ok \in BOOLEAN :
          /\ Call(ok)
          /\ occurrences' = IF ok THEN occurrences \cup {[image |-> "", by |-> s]}
                            ELSE occurrences
          /\ Goto(s, IF ok THEN "signed" ELSE "failed")
    /\ UNCHANGED <<note, timer, found>>

Upload_ignoresError(s) ==
    /\ At(s, "upload")
    /\ \E ok \in BOOLEAN :
          /\ Call(ok)
          /\ occurrences' = IF ok THEN occurrences \cup {[image |-> Image[s], by |-> s]}
                            ELSE occurrences
          /\ Goto(s, "signed")
    /\ UNCHANGED <<note, timer, found>>

\* UploadAttestationOccurrence: the server names every occurrence anew.
Upload(s) ==
    /\ At(s, "upload")
    /\ \E ok \in BOOLEAN, done \in BOOLEAN :
          /\ Call(ok)
          /\ ok => done
          /\ occurrences' = IF done THEN occurrences \cup {[image |-> Image[s], by |-> s]}
                            ELSE occurrences
          /\ Goto(s, IF ok THEN "signed" ELSE "failed")
    /\ UNCHANGED <<note, timer, found>>

-----------------------------------------------------------------------------
(* The clock and the scanner.  A scan goes on to one of its ends; findings *)
(* change while it runs and, with new CVEs, after it.                      *)

TimerFires(s) ==
    /\ timer[s] = "running"
    /\ timer' = [timer EXCEPT ![s] = "fired"]
    /\ UNCHANGED <<metadata, occurrences, note, pc, found, seen, faults, scans>>

Scan ==
    /\ scans < MaxScans
    /\ \E i \in Images, V \in VulnLists :
          /\ analysis' \in {[analysis EXCEPT ![i] = st] : st \in
                CASE analysis[i] = "absent" -> {"absent", "pending"}
                  [] analysis[i] = "pending" -> {"pending"} \cup Finished
                  [] OTHER -> {analysis[i]}}
          /\ vulnerabilities' = [vulnerabilities EXCEPT ![i] = V]
    /\ metadata' # metadata
    /\ scans' = scans + 1
    /\ seen' = [s \in Signers |->
                  IF pc[s] = "start" \/ pc[s] \in Exited THEN seen[s]
                  ELSE seen[s] \cup {scanOf(Image[s])'}]
    /\ UNCHANGED <<occurrences, note, pc, timer, found, faults>>

Work(s) ==
    \/ Start(s) \/ FindDiscovery(s) \/ PollDiscovery(s)
    \/ SelectTick(s) \/ SelectTimeout(s) \/ Check(s)
    \/ ReadCredentials(s) \/ CheckExisting(s) \/ ListExisting(s) \/ DeleteExisting(s)
    \/ CreateAttestation(s) \/ GetNote(s) \/ CreateNote(s) \/ Upload(s)

Next ==
    \/ \E s \in Signers : Work(s) \/ TimerFires(s)
    \/ Scan

\* Every call returns, the clock goes on, and a select that finds the timeout
\* ready time and again takes it: it picks at random among what is ready.
Fairness ==
    \A s \in Signers :
        WF_vars(Work(s)) /\ WF_vars(TimerFires(s)) /\ SF_vars(SelectTimeout(s))

Spec == Init /\ [][Next]_vars
FairSpec == Spec /\ Fairness

-----------------------------------------------------------------------------
(* Properties.                                                             *)

TypeOK ==
    /\ analysis \in [Images -> Statuses]
    /\ vulnerabilities \in [Images -> VulnLists]
    /\ occurrences \subseteq [image : Images, by : Earlier \cup Signers]
    /\ note \in BOOLEAN
    /\ pc \in [Signers -> PC]
    /\ timer \in [Signers -> {"off", "running", "fired"}]
    /\ found \in [Signers -> SUBSET [image : Images, by : Earlier \cup Signers]]
    /\ seen \in [Signers -> SUBSET (Statuses \X VulnLists)]
    /\ faults \in 0..MaxFaults /\ scans \in 0..MaxScans

\* With a check an image is attested only after a finished scan of it, seen
\* while the invocation ran, that the policy has nothing against: neither a
\* partial list of findings nor the timeout leads to a signature (main,
\* WaitForVulnzAnalysis).
SignedAfterScan ==
    \A s \in Signers : doCheck(s) /\ [image |-> Image[s], by |-> s] \in occurrences =>
        \E t \in seen[s] :
            /\ t[1] = "success"
            /\ validateVulnzSigningPolicy(Policy, Image[s], t[2]) = "clean"

\* When all invocations for an image have exited with success, and one of them
\* was to sign it, the image is attested: no overlap of check, delete and upload
\* of several invocations loses the attestation silently (SignImage).
SuccessMeansAttested ==
    \A i \in Images :
        LET S == {s \in Signers : Image[s] = i /\ doSign(s)} IN
        S # {} /\ (\A s \in S : pc[s] = "signed") => onServer(i) # {}

\* A wait whose time is over ends once the scanner has taken notice of the
\* image, whatever the scan does from then on.
WaitEnds ==
    \A s \in Signers :
        timer[s] = "fired" /\ analysis[Image[s]] # "absent" ~> pc[s] \notin Waiting

\* "wait until container analysis finishes. Throws an error if analysis is not
\* successful or timeouts" (pkg/kritis/metadata/containeranalysis/
\* containeranalysis.go:292): the timeout ends the wait.
TimeoutEndsWait ==
    \A s \in Signers : timer[s] = "fired" ~> pc[s] \notin Waiting

=============================================================================
