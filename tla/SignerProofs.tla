---------------------------- MODULE SignerProofs ----------------------------
(***************************************************************************)
(* Proofs about Signer, for any number of invocations, images, failures    *)
(* and scans.                                                              *)
(***************************************************************************)
EXTENDS Signer, TLAPS

Occurrence(s) == [image |-> Image[s], by |-> s]

\* The places where an invocation has decided to sign.
Signing == {"credentials", "exists", "list", "delete", "create",
            "noteGet", "noteCreate", "upload"}

\* The places where it has seen to it that nothing is on the server any more,
\* or found nothing there, and owes an attestation.
Owing == {"create", "noteGet", "noteCreate", "upload"}

cleanScanSeen(s) ==
    \E t \in seen[s] :
        /\ t[1] = "success"
        /\ validateVulnzSigningPolicy(Policy, Image[s], t[2]) = "clean"

\* The scan an invocation looks at is on record, and at the check it is over.
ScanInv ==
    \A s \in Signers :
        /\ pc[s] \in Waiting \cup {"vulnz"} => scanOf(Image[s]) \in seen[s]
        /\ pc[s] = "vulnz" => analysis[Image[s]] = "success"

\* Who signs after a check has seen a clean scan.
CheckedInv ==
    \A s \in Signers :
        doCheck(s) /\ (pc[s] \in Signing \/ Occurrence(s) \in occurrences) => cleanScanSeen(s)

\* Only those who are to sign delete, and only attestations of their image.
DeleteInv ==
    \A s \in Signers :
        /\ pc[s] \in Signing \cup {"signed"} => doSign(s)
        /\ \A o \in found[s] : o.image = Image[s]

\* An invocation that has not started has attested nothing.
OnceInv ==
    \A s \in Signers : pc[s] = "start" => Occurrence(s) \notin occurrences

toSign(i) == {s \in Signers : Image[s] = i /\ doSign(s)}

\* When an image has lost its attestation, either nobody has reported success
\* or somebody is about to make a new one or has reported failure.
LostInv ==
    \A i \in Images :
        \/ onServer(i) # {}
        \/ \A s \in toSign(i) : pc[s] # "signed"
        \/ \E s \in toSign(i) : pc[s] \in Owing \cup {"failed"}

SInv == TypeOK /\ ScanInv /\ CheckedInv /\ DeleteInv /\ OnceInv /\ LostInv

-----------------------------------------------------------------------------
(* A step of one invocation that only moves it.                            *)

Moves(s, where) ==
    /\ Goto(s, where) /\ where \in PC
    /\ UNCHANGED <<metadata, occurrences, found, seen>>
    /\ note' \in BOOLEAN /\ timer' \in [Signers -> {"off", "running", "fired"}]
    /\ faults' \in 0..MaxFaults /\ scans' \in 0..MaxScans

\* It may be where it goes.
MayGo(s, where) ==
    /\ where \in Waiting => pc[s] \in Waiting
    /\ where = "vulnz" => pc[s] \in Waiting /\ analysis[Image[s]] = "success"
    /\ where \in Signing => doSign(s) /\ (doCheck(s) => cleanScanSeen(s))
    /\ where = "signed" => doSign(s) /\ onServer(Image[s]) # {}
    /\ pc[s] \in Owing => where \in Owing \cup {"failed"}
    /\ pc[s] # "failed" /\ where # "start"

LEMMA CallType ==
    ASSUME TypeOK, NEW ok \in BOOLEAN, Call(ok)
    PROVE  faults' \in 0..MaxFaults /\ scans' \in 0..MaxScans
BY SignerAssumption DEF TypeOK, Call

LEMMA MovesKeepsSInv ==
    ASSUME SInv, NEW s \in Signers, NEW where, Moves(s, where), MayGo(s, where)
    PROVE  SInv'
<1>0. UNCHANGED <<analysis, vulnerabilities, occurrences, found, seen>>
  BY DEF Moves, metadata
<1>1. \A t \in Signers : pc'[t] = IF t = s THEN where ELSE pc[t]
  BY DEF Moves, Goto, SInv, TypeOK
<1>2. TypeOK'  BY <1>0 DEF SInv, TypeOK, Moves, Goto
<1>3. ScanInv'
  BY <1>0, <1>1 DEF SInv, ScanInv, MayGo, scanOf, Waiting
<1>4. CheckedInv'
  <2>1. ASSUME NEW t \in Signers PROVE cleanScanSeen(t)' <=> cleanScanSeen(t)
    BY <1>0 DEF cleanScanSeen
  <2> QED  BY <1>0, <1>1, <2>1 DEF SInv, CheckedInv, MayGo, Occurrence
<1>5. DeleteInv'
  BY <1>0, <1>1 DEF SInv, DeleteInv, MayGo, Signing
<1>6. LostInv'
  <2> SUFFICES ASSUME NEW i \in Images, onServer(i) = {}
               PROVE  \/ \A t \in toSign(i) : pc'[t] # "signed"
                      \/ \E t \in toSign(i) : pc'[t] \in Owing \cup {"failed"}
    BY <1>0 DEF LostInv, onServer
  <2>1. CASE \A t \in toSign(i) : pc[t] # "signed"
    BY <1>1, <2>1 DEF MayGo, toSign
  <2>2. CASE \E t \in toSign(i) : pc[t] \in Owing \cup {"failed"}
    BY <1>1, <2>2 DEF MayGo, toSign
  <2> QED  BY <2>1, <2>2 DEF SInv, LostInv
<1>7. OnceInv'  BY <1>0, <1>1 DEF SInv, OnceInv, Occurrence, MayGo
<1> QED  BY <1>2, <1>3, <1>4, <1>5, <1>6, <1>7 DEF SInv

LEMMA FindDiscoveryKeeps ==
    ASSUME SInv, NEW s \in Signers, FindDiscovery(s)
    PROVE  SInv'
<1>1. TypeOK  BY DEF SInv
<1>2. PICK ok \in BOOLEAN, where \in {"failed", "find", "poll"} : Call(ok) /\ Goto(s, where)
  BY DEF FindDiscovery
<1>3. Moves(s, where)
  BY <1>1, <1>2, CallType DEF FindDiscovery, At, Moves, PC, Waiting, TypeOK
<1>4. MayGo(s, where)
  BY <1>2 DEF FindDiscovery, At, MayGo, Waiting, Signing, Owing
<1> QED  BY <1>3, <1>4, MovesKeepsSInv

LEMMA PollDiscoveryKeeps ==
    ASSUME SInv, NEW s \in Signers, PollDiscovery(s)
    PROVE  SInv'
<1>1. TypeOK  BY DEF SInv
<1>2. PICK ok \in BOOLEAN, where \in {"failed", "vulnz", "select"} :
         /\ Call(ok) /\ Goto(s, where)
         /\ where = "vulnz" => analysis[Image[s]] = "success"
  BY DEF PollDiscovery
<1>3. timer' \in [Signers -> {"off", "running", "fired"}]
  BY <1>1 DEF PollDiscovery, TypeOK
<1>4. Moves(s, where)
  BY <1>1, <1>2, <1>3, CallType DEF PollDiscovery, At, Moves, PC, Waiting, TypeOK
<1>5. MayGo(s, where)
  BY <1>2 DEF PollDiscovery, At, MayGo, Waiting, Signing, Owing
<1> QED  BY <1>4, <1>5, MovesKeepsSInv

LEMMA SelectKeeps ==
    ASSUME SInv, NEW s \in Signers, SelectTick(s) \/ SelectTimeout(s)
    PROVE  SInv'
<1>1. TypeOK  BY DEF SInv
<1>2. PICK where \in {"poll", "failed"} : Goto(s, where)  BY DEF SelectTick, SelectTimeout
<1>3. timer' \in [Signers -> {"off", "running", "fired"}]
  BY <1>1 DEF SelectTick, SelectTimeout, TypeOK
<1>4. Moves(s, where)
  BY <1>1, <1>2, <1>3 DEF SelectTick, SelectTimeout, At, Moves, PC, Waiting, TypeOK
<1>5. MayGo(s, where)
  BY DEF SelectTick, SelectTimeout, At, MayGo, Waiting, Signing, Owing
<1> QED  BY <1>4, <1>5, MovesKeepsSInv

\* The check is of a scan that is over and on record.
LEMMA CheckKeeps ==
    ASSUME SInv, NEW s \in Signers, Check(s)
    PROVE  SInv'
<1>1. TypeOK /\ pc[s] = "vulnz"  BY DEF SInv, Check, At
<1>2. PICK ok \in BOOLEAN, where \in {"failed", "credentials", "passed"} :
         /\ Call(ok) /\ Goto(s, where)
         /\ where = "credentials" =>
               /\ doSign(s)
               /\ validateVulnzSigningPolicy(Policy, Image[s], vulnerabilities[Image[s]]) = "clean"
  BY DEF Check
<1>3. Moves(s, where)
  BY <1>1, <1>2, CallType DEF Check, At, Moves, PC, TypeOK
<1>4. where = "credentials" => cleanScanSeen(s)
  BY <1>1, <1>2 DEF SInv, ScanInv, scanOf, cleanScanSeen
<1>5. MayGo(s, where)
  BY <1>1, <1>2, <1>4 DEF MayGo, Waiting, Signing, Owing
<1> QED  BY <1>3, <1>5, MovesKeepsSInv

LEMMA SigningFacts ==
    ASSUME SInv, NEW s \in Signers, pc[s] \in Signing
    PROVE  doSign(s) /\ (doCheck(s) => cleanScanSeen(s))
BY DEF SInv, CheckedInv, DeleteInv

LEMMA ReadCredentialsKeeps ==
    ASSUME SInv, NEW s \in Signers, ReadCredentials(s)
    PROVE  SInv'
<1>1. TypeOK /\ pc[s] = "credentials" /\ pc[s] \in Signing
  BY DEF SInv, ReadCredentials, At, Signing
<1>2. PICK ok \in BOOLEAN, where \in {"exists", "failed"} : Call(ok) /\ Goto(s, where)
  BY DEF ReadCredentials
<1>3. Moves(s, where)
  BY <1>1, <1>2, CallType DEF ReadCredentials, At, Moves, PC, TypeOK
<1>4. MayGo(s, where)
  BY <1>1, SigningFacts DEF MayGo, Waiting, Signing, Owing
<1> QED  BY <1>3, <1>4, MovesKeepsSInv

LEMMA CheckExistingKeeps ==
    ASSUME SInv, NEW s \in Signers, CheckExisting(s)
    PROVE  SInv'
<1>1. TypeOK /\ pc[s] = "exists" /\ pc[s] \in Signing
  BY DEF SInv, CheckExisting, At, Signing
<1>2. PICK ok \in BOOLEAN, where \in {"failed", "create", "list", "signed"} :
         /\ Call(ok) /\ Goto(s, where)
         /\ where = "signed" => onServer(Image[s]) # {}
  BY DEF CheckExisting
<1>3. Moves(s, where)
  BY <1>1, <1>2, CallType DEF CheckExisting, At, Moves, PC, TypeOK
<1>4. MayGo(s, where)
  BY <1>1, <1>2, SigningFacts DEF MayGo, Waiting, Signing, Owing
<1> QED  BY <1>3, <1>4, MovesKeepsSInv

LEMMA CreateAttestationKeeps ==
    ASSUME SInv, NEW s \in Signers, CreateAttestation(s)
    PROVE  SInv'
<1>1. TypeOK /\ pc[s] = "create" /\ pc[s] \in Signing
  BY DEF SInv, CreateAttestation, At, Signing
<1>2. PICK ok \in BOOLEAN, where \in {"failed", "noteGet"} : Call(ok) /\ Goto(s, where)
  BY DEF CreateAttestation
<1>3. Moves(s, where)
  BY <1>1, <1>2, CallType DEF CreateAttestation, At, Moves, PC, TypeOK
<1>4. MayGo(s, where)
  BY <1>1, SigningFacts DEF MayGo, Waiting, Signing, Owing
<1> QED  BY <1>3, <1>4, MovesKeepsSInv

LEMMA NoteKeeps ==
    ASSUME SInv, NEW s \in Signers, GetNote(s) \/ CreateNote(s)
    PROVE  SInv'
<1>1. TypeOK /\ pc[s] \in {"noteGet", "noteCreate"} /\ pc[s] \in Signing
  BY DEF SInv, GetNote, CreateNote, At, Signing
<1>2. PICK ok \in BOOLEAN, where \in {"failed", "noteCreate", "upload"} :
         Call(ok) /\ Goto(s, where)
  BY DEF GetNote, CreateNote
<1>3. note' \in BOOLEAN  BY <1>1 DEF GetNote, CreateNote, TypeOK
<1>4. Moves(s, where)
  BY <1>1, <1>2, <1>3, CallType DEF GetNote, CreateNote, At, Moves, PC, TypeOK
<1>5. MayGo(s, where)
  BY <1>1, SigningFacts DEF MayGo, Waiting, Signing, Owing
<1> QED  BY <1>4, <1>5, MovesKeepsSInv

-----------------------------------------------------------------------------
(* Steps that change what is on the server, what was found, or the scans.  *)

LEMMA StartKeeps ==
    ASSUME SInv, NEW s \in Signers, Start(s)
    PROVE  SInv'
<1> DEFINE where == IF doCheck(s) THEN "find" ELSE "credentials"
<1>0. UNCHANGED <<analysis, vulnerabilities, occurrences, note, found, faults, scans>>
      /\ pc[s] = "start" /\ Image[s] \in Images
  BY SignerAssumption DEF Start, metadata
<1>1. /\ pc' \in [Signers -> PC]
      /\ \A t \in Signers : pc'[t] = IF t = s THEN where ELSE pc[t]
  BY DEF Start, Goto, SInv, TypeOK, PC, Waiting
<1>2. /\ seen' \in [Signers -> SUBSET (Statuses \X VulnLists)]
      /\ \A t \in Signers : seen'[t] = IF t = s THEN {scanOf(Image[s])} ELSE seen[t]
  BY <1>0 DEF Start, scanOf, SInv, TypeOK
<1>3. TypeOK'
  <2>1. timer' \in [Signers -> {"off", "running", "fired"}]  BY DEF Start, SInv, TypeOK
  <2> QED  BY <1>0, <1>1, <1>2, <2>1 DEF SInv, TypeOK
<1>4. ScanInv'
  BY <1>0, <1>1, <1>2 DEF SInv, ScanInv, scanOf, Waiting
<1>5. CheckedInv'
  <2> SUFFICES ASSUME NEW t \in Signers, doCheck(t),
                      pc'[t] \in Signing \/ Occurrence(t) \in occurrences
               PROVE  cleanScanSeen(t)'
    BY <1>0 DEF CheckedInv, Occurrence
  <2>1. CASE t # s
    <3>1. cleanScanSeen(t)  BY <1>1, <2>1 DEF SInv, CheckedInv
    <3> QED  BY <1>2, <2>1, <3>1 DEF cleanScanSeen
  <2>2. CASE t = s
    <3>1. pc'[s] = "find" /\ Occurrence(s) \in occurrences
      BY <1>1, <2>2 DEF Signing
    <3> QED  BY <1>0, <3>1 DEF SInv, OnceInv
  <2> QED  BY <2>1, <2>2
<1>6. DeleteInv'
  <2>1. ~doCheck(s) => doSign(s)  BY SignerAssumption DEF doCheck, doSign
  <2> QED  BY <1>0, <1>1, <2>1 DEF SInv, DeleteInv, Signing
<1>7. LostInv'
  <2> SUFFICES ASSUME NEW i \in Images, onServer(i) = {}
               PROVE  \/ \A t \in toSign(i) : pc'[t] # "signed"
                      \/ \E t \in toSign(i) : pc'[t] \in Owing \cup {"failed"}
    BY <1>0 DEF LostInv, onServer
  <2>1. CASE \A t \in toSign(i) : pc[t] # "signed"
    BY <1>1, <2>1 DEF toSign
  <2>2. CASE \E t \in toSign(i) : pc[t] \in Owing \cup {"failed"}
    BY <1>0, <1>1, <2>2 DEF toSign, Owing
  <2> QED  BY <2>1, <2>2 DEF SInv, LostInv
<1>8. OnceInv'
  BY <1>0, <1>1 DEF SInv, OnceInv, Occurrence
<1> QED  BY <1>3, <1>4, <1>5, <1>6, <1>7, <1>8 DEF SInv

LEMMA ListExistingKeeps ==
    ASSUME SInv, NEW s \in Signers, ListExisting(s)
    PROVE  SInv'
<1>0. /\ UNCHANGED <<analysis, vulnerabilities, occurrences, note, timer, seen>>
      /\ TypeOK /\ pc[s] = "list" /\ pc[s] \in Signing
  BY DEF ListExisting, At, metadata, SInv, Signing
<1>1. PICK ok \in BOOLEAN, where \in {"delete", "failed"}, F \in {onServer(Image[s]), {}} :
         Call(ok) /\ Goto(s, where) /\ found' = [found EXCEPT ![s] = F]
  BY DEF ListExisting
<1>2. /\ pc' \in [Signers -> PC]
      /\ \A t \in Signers : pc'[t] = IF t = s THEN where ELSE pc[t]
  BY <1>0, <1>1 DEF Goto, TypeOK, PC
<1>3. /\ F \subseteq occurrences /\ \A o \in F : o.image = Image[s]
      /\ \A t \in Signers : found'[t] = IF t = s THEN F ELSE found[t]
  BY <1>0, <1>1 DEF onServer, TypeOK
<1>4. TypeOK'
  <2>1. found' \in [Signers -> SUBSET [image : Images, by : Earlier \cup Signers]]
    BY <1>0, <1>1, <1>3 DEF TypeOK
  <2> QED  BY <1>0, <1>1, <1>2, <2>1, CallType DEF TypeOK
<1>5. ScanInv'
  BY <1>0, <1>2 DEF SInv, ScanInv, scanOf, Waiting
<1>6. CheckedInv'
  <2>1. ASSUME NEW t \in Signers PROVE cleanScanSeen(t)' <=> cleanScanSeen(t)
    BY <1>0 DEF cleanScanSeen
  <2> QED  BY <1>0, <1>2, <2>1 DEF SInv, CheckedInv, Occurrence
<1>7. DeleteInv'
  BY <1>0, <1>2, <1>3, SigningFacts DEF SInv, DeleteInv, Signing
<1>8. LostInv'
  <2> SUFFICES ASSUME NEW i \in Images, onServer(i) = {}
               PROVE  \/ \A t \in toSign(i) : pc'[t] # "signed"
                      \/ \E t \in toSign(i) : pc'[t] \in Owing \cup {"failed"}
    BY <1>0 DEF LostInv, onServer
  <2>1. CASE \A t \in toSign(i) : pc[t] # "signed"
    BY <1>2, <2>1 DEF toSign
  <2>2. CASE \E t \in toSign(i) : pc[t] \in Owing \cup {"failed"}
    BY <1>0, <1>2, <2>2 DEF toSign, Owing
  <2> QED  BY <2>1, <2>2 DEF SInv, LostInv
<1>9. OnceInv'
  BY <1>0, <1>2 DEF SInv, OnceInv, Occurrence
<1> QED  BY <1>4, <1>5, <1>6, <1>7, <1>8, <1>9 DEF SInv

\* Who takes an attestation away owes another one, or reports failure.
LEMMA DeleteExistingKeeps ==
    ASSUME SInv, NEW s \in Signers, DeleteExisting(s)
    PROVE  SInv'
<1>0. /\ UNCHANGED <<analysis, vulnerabilities, note, timer, seen>>
      /\ TypeOK /\ pc[s] = "delete" /\ pc[s] \in Signing
      /\ found' = [found EXCEPT ![s] = {}]
  BY DEF DeleteExisting, At, metadata, SInv, Signing
<1>1. PICK ok \in BOOLEAN, where \in {"create", "failed"} :
         /\ Call(ok) /\ Goto(s, where)
         /\ occurrences' \subseteq occurrences
         /\ \A o \in occurrences : o \notin found[s] => o \in occurrences'
  BY DEF DeleteExisting
<1>2. /\ pc' \in [Signers -> PC]
      /\ \A t \in Signers : pc'[t] = IF t = s THEN where ELSE pc[t]
  BY <1>0, <1>1 DEF Goto, TypeOK, PC
<1>3. \A t \in Signers : found'[t] = IF t = s THEN {} ELSE found[t]
  BY <1>0 DEF TypeOK
<1>4. TypeOK'
  <2>1. found' \in [Signers -> SUBSET [image : Images, by : Earlier \cup Signers]]
    BY <1>0 DEF TypeOK
  <2> QED  BY <1>0, <1>1, <1>2, <2>1, CallType DEF TypeOK
<1>5. ScanInv'
  BY <1>0, <1>2 DEF SInv, ScanInv, scanOf, Waiting
<1>6. CheckedInv'
  <2>1. ASSUME NEW t \in Signers PROVE cleanScanSeen(t)' <=> cleanScanSeen(t)
    BY <1>0 DEF cleanScanSeen
  <2> QED  BY <1>0, <1>1, <1>2, <2>1 DEF SInv, CheckedInv, Occurrence
<1>7. DeleteInv'
  BY <1>0, <1>2, <1>3, SigningFacts DEF SInv, DeleteInv, Signing
<1>8. LostInv'
  <2> SUFFICES ASSUME NEW i \in Images, onServer(i)' = {}
               PROVE  \/ \A t \in toSign(i) : pc'[t] # "signed"
                      \/ \E t \in toSign(i) : pc'[t] \in Owing \cup {"failed"}
    BY DEF LostInv
  <2>1. CASE i = Image[s]
    <3>1. s \in toSign(i)  BY <1>0, <2>1, SigningFacts DEF toSign
    <3> QED  BY <1>2, <3>1 DEF Owing
  <2>2. CASE i # Image[s]
    <3>1. onServer(i) = {}  BY <1>1, <2>2 DEF SInv, DeleteInv, onServer
    <3>2. \A t \in toSign(i) : pc'[t] = pc[t]  BY <1>2, <2>2 DEF toSign
    <3> QED  BY <3>1, <3>2 DEF SInv, LostInv
  <2> QED  BY <2>1, <2>2
<1>9. OnceInv'
  BY <1>1, <1>2 DEF SInv, OnceInv, Occurrence
<1> QED  BY <1>4, <1>5, <1>6, <1>7, <1>8, <1>9 DEF SInv

LEMMA UploadKeeps ==
    ASSUME SInv, NEW s \in Signers, Upload(s)
    PROVE  SInv'
<1>0. /\ UNCHANGED <<analysis, vulnerabilities, note, timer, found, seen>>
      /\ TypeOK /\ pc[s] = "upload" /\ pc[s] \in Signing /\ Image[s] \in Images
  BY SignerAssumption DEF Upload, At, metadata, SInv, Signing
<1>1. PICK ok \in BOOLEAN, where \in {"signed", "failed"} :
         /\ Call(ok) /\ Goto(s, where)
         /\ where = "signed" => Occurrence(s) \in occurrences'
         /\ occurrences \subseteq occurrences'
         /\ occurrences' \subseteq occurrences \cup {Occurrence(s)}
  BY DEF Upload, Occurrence
<1>2. /\ pc' \in [Signers -> PC]
      /\ \A t \in Signers : pc'[t] = IF t = s THEN where ELSE pc[t]
  BY <1>0, <1>1 DEF Goto, TypeOK, PC
<1>3. \A t \in Signers : t # s => Occurrence(t) # Occurrence(s)
  BY DEF Occurrence
<1>4. TypeOK'
  <2>1. Occurrence(s) \in [image : Images, by : Earlier \cup Signers]
    BY <1>0 DEF Occurrence
  <2> QED  BY <1>0, <1>1, <1>2, <2>1, CallType DEF TypeOK
<1>5. ScanInv'
  BY <1>0, <1>2 DEF SInv, ScanInv, scanOf, Waiting
<1>6. CheckedInv'
  <2>1. ASSUME NEW t \in Signers PROVE cleanScanSeen(t)' <=> cleanScanSeen(t)
    BY <1>0 DEF cleanScanSeen
  <2>2. ASSUME NEW t \in Signers PROVE Occurrence(t)' = Occurrence(t)
    BY DEF Occurrence
  <2> QED  BY <1>0, <1>1, <1>2, <1>3, <2>1, <2>2 DEF SInv, CheckedInv
<1>7. DeleteInv'
  BY <1>0, <1>2, SigningFacts DEF SInv, DeleteInv, Signing
<1>8. LostInv'
  <2> SUFFICES ASSUME NEW i \in Images, onServer(i)' = {}
               PROVE  \/ \A t \in toSign(i) : pc'[t] # "signed"
                      \/ \E t \in toSign(i) : pc'[t] \in Owing \cup {"failed"}
    BY DEF LostInv
  <2>1. CASE i = Image[s]
    <3>1. s \in toSign(i)  BY <1>0, <2>1, SigningFacts DEF toSign
    <3>2. where = "failed"  BY <1>1, <2>1 DEF onServer, Occurrence
    <3> QED  BY <1>2, <3>1, <3>2
  <2>2. CASE i # Image[s]
    <3>1. onServer(i) = {}  BY <1>1 DEF onServer
    <3>2. \A t \in toSign(i) : pc'[t] = pc[t]  BY <1>2, <2>2 DEF toSign
    <3> QED  BY <3>1, <3>2 DEF SInv, LostInv
  <2> QED  BY <2>1, <2>2
<1>9. OnceInv'
  <2>2. ASSUME NEW t \in Signers PROVE Occurrence(t)' = Occurrence(t)
    BY DEF Occurrence
  <2> QED  BY <1>1, <1>2, <1>3, <2>2 DEF SInv, OnceInv
<1> QED  BY <1>4, <1>5, <1>6, <1>7, <1>8, <1>9 DEF SInv

LEMMA TimerFiresKeeps ==
    ASSUME SInv, NEW s \in Signers, TimerFires(s)
    PROVE  SInv'
<1>1. UNCHANGED <<analysis, vulnerabilities, occurrences, note, pc, found, seen, faults, scans>>
  BY DEF TimerFires, metadata
<1>2. TypeOK'  BY <1>1 DEF TimerFires, SInv, TypeOK
<1>3. ScanInv' /\ CheckedInv' /\ DeleteInv' /\ OnceInv'
  BY <1>1 DEF SInv, ScanInv, CheckedInv, DeleteInv, OnceInv, scanOf, cleanScanSeen, Occurrence
<1>4. LostInv'  BY <1>1 DEF SInv, LostInv, onServer
<1> QED  BY <1>2, <1>3, <1>4 DEF SInv

\* The scanner does not take back the end of an analysis, and what it does is
\* on record with everyone who runs.
LEMMA ScanKeeps ==
    ASSUME SInv, Scan
    PROVE  SInv'
<1>0. UNCHANGED <<occurrences, note, pc, timer, found, faults>> /\ scans' \in 0..MaxScans
  BY SignerAssumption DEF Scan, SInv, TypeOK
<1>1. PICK i \in Images, V \in VulnLists, st \in Statuses :
         /\ analysis' = [analysis EXCEPT ![i] = st]
         /\ analysis[i] = "success" => st = "success"
         /\ vulnerabilities' = [vulnerabilities EXCEPT ![i] = V]
  BY DEF Scan, SInv, TypeOK, Statuses, Finished
<1>2. /\ analysis' \in [Images -> Statuses] /\ vulnerabilities' \in [Images -> VulnLists]
      /\ \A k \in Images : analysis[k] = "success" => analysis'[k] = "success"
  BY <1>1 DEF SInv, TypeOK
<1>3. \A s \in Signers : scanOf(Image[s])' \in Statuses \X VulnLists
  BY <1>2, SignerAssumption DEF scanOf
<1> HIDE DEF scanOf
<1>4. /\ seen' \in [Signers -> SUBSET (Statuses \X VulnLists)]
      /\ \A s \in Signers : /\ seen[s] \subseteq seen'[s]
                            /\ pc[s] \in Waiting \cup {"vulnz"} => scanOf(Image[s])' \in seen'[s]
  BY <1>3 DEF Scan, SInv, TypeOK, Waiting, Exited
<1>5. TypeOK'  BY <1>0, <1>2, <1>4 DEF SInv, TypeOK
<1>6. ScanInv'
  BY <1>0, <1>2, <1>4, SignerAssumption DEF SInv, ScanInv
<1>7. CheckedInv'
  <2>1. ASSUME NEW s \in Signers, cleanScanSeen(s) PROVE cleanScanSeen(s)'
    BY <1>4, <2>1 DEF cleanScanSeen
  <2> QED  BY <1>0, <2>1 DEF SInv, CheckedInv, Occurrence
<1>8. DeleteInv' /\ OnceInv'
  BY <1>0 DEF SInv, DeleteInv, OnceInv, Occurrence
<1>9. LostInv'  BY <1>0 DEF SInv, LostInv, onServer
<1> QED  BY <1>5, <1>6, <1>7, <1>8, <1>9 DEF SInv

-----------------------------------------------------------------------------
(* The invariant and what follows from it.                                 *)

LEMMA InitSInv ==
    ASSUME Init
    PROVE  SInv
<1>1. /\ \A s \in Signers : pc[s] = "start" /\ found[s] = {}
      /\ \A o \in occurrences : o.by \notin Signers
  BY SignerAssumption DEF Init
<1>2. TypeOK
  <2>1. pc \in [Signers -> PC]  BY DEF Init, PC
  <2>2. /\ timer \in [Signers -> {"off", "running", "fired"}]
        /\ found \in [Signers -> SUBSET [image : Images, by : Earlier \cup Signers]]
        /\ seen \in [Signers -> SUBSET (Statuses \X VulnLists)]
    BY DEF Init
  <2>3. occurrences \subseteq [image : Images, by : Earlier \cup Signers]
    BY DEF Init
  <2> QED  BY <2>1, <2>2, <2>3, SignerAssumption DEF Init, TypeOK
<1>3. ScanInv  BY <1>1 DEF ScanInv, Waiting
<1>4. OnceInv  BY <1>1 DEF OnceInv, Occurrence
<1>5. CheckedInv
  BY <1>1, <1>4 DEF CheckedInv, OnceInv, Signing
<1>6. DeleteInv  BY <1>1 DEF DeleteInv, Signing
<1>7. LostInv  BY <1>1 DEF LostInv, toSign
<1> QED  BY <1>2, <1>3, <1>4, <1>5, <1>6, <1>7 DEF SInv

LEMMA NextKeepsSInv ==
    ASSUME SInv, [Next]_vars
    PROVE  SInv'
<1>1. CASE UNCHANGED vars
  <2>1. UNCHANGED <<analysis, vulnerabilities, occurrences, note, pc, timer, found, seen,
                    faults, scans>>
    BY <1>1 DEF vars, metadata
  <2>2. TypeOK'  BY <2>1 DEF SInv, TypeOK
  <2>3. ScanInv' /\ CheckedInv' /\ DeleteInv' /\ OnceInv'
    BY <2>1 DEF SInv, ScanInv, CheckedInv, DeleteInv, OnceInv, scanOf, cleanScanSeen, Occurrence
  <2>4. LostInv'  BY <2>1 DEF SInv, LostInv, onServer
  <2> QED  BY <2>2, <2>3, <2>4 DEF SInv
<1>2. ASSUME NEW s \in Signers, Work(s) PROVE SInv'
  BY <1>2, StartKeeps, FindDiscoveryKeeps, PollDiscoveryKeeps, SelectKeeps, CheckKeeps,
     ReadCredentialsKeeps, CheckExistingKeeps, ListExistingKeeps, DeleteExistingKeeps,
     CreateAttestationKeeps, NoteKeeps, UploadKeeps DEF Work
<1> QED  BY <1>1, <1>2, TimerFiresKeeps, ScanKeeps DEF Next

\* The invariant holds in every state of every execution.
THEOREM SignerInvariant == Spec => []SInv
<1>1. Init => SInv  BY InitSInv
<1>2. SInv /\ [Next]_vars => SInv'  BY NextKeepsSInv
<1> QED  BY <1>1, <1>2, PTL DEF Spec

\* Every variable of the signer keeps its type.
THEOREM TypeCorrect == Spec => []TypeOK
<1>1. SInv => TypeOK  BY DEF SInv
<1> QED  BY <1>1, SignerInvariant, PTL

\* However many invocations run, and however the scanner and the failures of
\* calls fall in between, a check-and-sign attests only an image whose finished
\* scan it has seen and the policy accepts (main, WaitForVulnzAnalysis).
THEOREM ScanBeforeSignature == Spec => []SignedAfterScan
<1>1. SInv => SignedAfterScan
  BY DEF SInv, CheckedInv, SignedAfterScan, cleanScanSeen, Occurrence
<1> QED  BY <1>1, SignerInvariant, PTL

\* However check, delete and upload of the invocations for an image overlap,
\* they do not all report success over an image without attestation (SignImage).
THEOREM SuccessIsAttested == Spec => []SuccessMeansAttested
<1>1. SInv => SuccessMeansAttested
  BY DEF SInv, LostInv, SuccessMeansAttested, toSign, Owing
<1> QED  BY <1>1, SignerInvariant, PTL

=============================================================================
