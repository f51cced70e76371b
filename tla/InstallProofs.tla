--------------------------- MODULE InstallProofs ---------------------------
(***************************************************************************)
(* Proofs about the Helm hooks, for any number of commands, failing calls  *)
(* and attempts, and for any flags of the predelete hook.                  *)
(*                                                                         *)
(* Registered and Uninstalled speak of a hook that has ended.  The         *)
(* inductive invariant HInv says what holds on the way there: which        *)
(* objects the preinstall pod has made at each of its steps, that the      *)
(* postinstall pod of this release goes on only when that pod has          *)
(* succeeded, and how far the predelete pod has come in the order of main. *)
(***************************************************************************)
EXTENDS Install, SequenceTheorems, TLAPS

-----------------------------------------------------------------------------
(* The inductive invariant. *)

Objects == Webhooks \cup CRDNames \cup {"secret", "csr"}
DelRecord == [pc : Ended \cup {"Get", "Delete"}, todo : Seq(Objects)]

\* A pod runs only after a command, whose number is the name of its key pair;
\* the CRDs are counted from the first; a predelete pod that runs has an object
\* in hand.
PodsInv ==
    /\ del \in DelRecord
    /\ Running(pre) => commands >= 1
    /\ pre.pc # "InstallCRDs" => pre.crd = 1
    /\ Running(del) => del.todo # << >>

\* What the preinstall pod of an undisturbed installation has made so far.
Prepared ==
    /\ pre.pc \in {"Label", "InstallCRDs", "Succeeded"} => cluster.secret.cert # NoKey
    /\ pre.pc \in {"InstallCRDs", "Succeeded"} => cluster.secret.labelled
    /\ pre.pc = "InstallCRDs" => \A i \in 1..(pre.crd - 1) : CRDs[i] \in cluster.crds
    /\ pre.pc = "Succeeded" => cluster.crds = CRDNames

\* What the postinstall pod of this release knows and has made so far.
Registering ==
    /\ post.pc \in {"WaitForTLSSecret", "GetCaBundle", "CreateWebhook",
                    "CreateDeploymentWebhook", "Succeeded"} => pre.pc = "Succeeded"
    /\ post.pc \in {"CreateWebhook", "CreateDeploymentWebhook"} =>
          post.certificate = cluster.secret.cert
    /\ post.pc \in {"CreateDeploymentWebhook", "Succeeded"} =>
          cluster.webhooks["kritis-validation-hook"] = cluster.secret.cert
    /\ post.pc = "Succeeded" =>
          cluster.webhooks["kritis-validation-hook-deployments"] = cluster.secret.cert

InstallInv ==
    undisturbed = "install" =>
        /\ ~Running(del)
        /\ Prepared
        /\ helm = "deployed" => Registering

\* The objects that every predelete hook deletes, in the order of main, and the
\* others, which its flags choose.
Always == <<"kritis-validation-hook", "kritis-validation-hook-deployments", "secret">>
Optional == {"csr"} \cup CRDNames

\* The first k of the objects that are always deleted are no longer on the list.
Planned(todo, k) ==
    /\ Len(todo) + k >= 3
    /\ \A i \in 1..Len(todo) :
          IF i + k <= 3 THEN todo[i] = Always[i + k] ELSE todo[i] \in Optional

\* The first k of them are gone, and the secret is as it was until its turn.
Gone(k) ==
    /\ k >= 1 => cluster.webhooks["kritis-validation-hook"] = NoKey
    /\ k >= 2 => cluster.webhooks["kritis-validation-hook-deployments"] = NoKey
    /\ k = 3 => cluster.secret = NoSecret
    /\ k < 3 => cluster.secret = before

DeleteInv ==
    undisturbed = "delete" =>
        /\ ~Running(pre) /\ ~Running(post) /\ helm # "preinstall"
        /\ Running(del) => \E k \in 0..3 : Planned(del.todo, k) /\ Gone(k)
        /\ Uninstalled

HInv == TypeOK /\ PodsInv /\ InstallInv /\ DeleteInv

-----------------------------------------------------------------------------
(* The constants of the model. *)

\* The four CRDs of installCRDs.
LEMMA CRDFacts ==
    /\ DOMAIN CRDs = 1..4 /\ Len(CRDs) = 4
    /\ CRDNames = {"attestationauthorities", "genericattestationpolicies",
                   "imagesecuritypolicies", "kritisconfigs"}
    /\ \A i \in 1..4 : CRDs[i] \in CRDNames
    /\ \A S \in SUBSET CRDNames :
          (\A i \in 1..3 : CRDs[i] \in S) => S \cup {CRDs[4]} = CRDNames
<1>1. DOMAIN CRDs = 1..4 /\ Len(CRDs) = 4
  BY DEF CRDs
<1>2. /\ CRDs[1] = "attestationauthorities" /\ CRDs[2] = "genericattestationpolicies"
      /\ CRDs[3] = "imagesecuritypolicies" /\ CRDs[4] = "kritisconfigs"
  BY DEF CRDs
<1>3. \A i \in 1..4 : CRDs[i] \in CRDNames
  BY <1>1 DEF CRDNames
<1>4. CRDNames = {CRDs[1], CRDs[2], CRDs[3], CRDs[4]}
  <2>1. 1..4 = {1, 2, 3, 4}
    OBVIOUS
  <2> QED BY <1>1, <2>1 DEF CRDNames
<1>5. ASSUME NEW S \in SUBSET CRDNames, \A i \in 1..3 : CRDs[i] \in S
      PROVE  S \cup {CRDs[4]} = CRDNames
  <2>1. CRDs[1] \in S /\ CRDs[2] \in S /\ CRDs[3] \in S
    BY <1>5
  <2> QED BY <1>4, <2>1
<1> QED BY <1>1, <1>2, <1>3, <1>4, <1>5

\* The empty objects and the pods that have not run are well typed.
LEMMA Initials ==
    /\ 0 \in 0..(FindTries - 1)
    /\ NoSecret \in Secrets
    /\ NoPre \in [pc : PrePC, createNewCSR : BOOLEAN, key : Keys \cup {NoKey},
                  crt : Keys \cup {NoKey}, tries : 0..(FindTries - 1), crd : DOMAIN CRDs]
    /\ NoPost \in [pc : PostPC, tries : 0..(FindTries - 1), certificate : Keys \cup {NoKey}]
    /\ NoDel \in DelRecord
<1>1. 0 \in 0..(FindTries - 1)
  BY InstallAssumption
<1>2. << >> \in Seq(Objects)
  OBVIOUS
<1> QED
  BY <1>1, <1>2, CRDFacts
  DEF NoSecret, Secrets, NoPre, PrePC, NoPost, PostPC, NoDel, DelRecord, Ended

\* The invariant holds initially.
LEMMA InitHInv == Init => HInv
<1> SUFFICES ASSUME Init PROVE HInv
  OBVIOUS
<1>1. cluster \in Clusters
  BY DEF Init, Clusters, NoCSR, NoSecret, Secrets
<1>2. 0 \in 0..MaxCommands /\ 0 \in 0..MaxFaults
  BY InstallAssumption
<1>3. NoDel.pc = "Absent" /\ NoDel.todo = << >>
  BY DEF NoDel
<1>4. TypeOK
  <2>1. del.pc \in Ended \cup {"Get", "Delete"} /\ del.todo \in Seq(Objects)
    BY Initials DEF Init, DelRecord
  <2> QED BY <1>1, <1>2, <2>1, Initials DEF Init, TypeOK, Objects
<1>5. PodsInv
  BY <1>3, Initials DEF Init, PodsInv, NoPre, Running, Ended
<1>6. InstallInv /\ DeleteInv
  BY DEF Init, InstallInv, DeleteInv
<1> QED BY <1>4, <1>5, <1>6 DEF HInv

-----------------------------------------------------------------------------
(* The preinstall pod. *)

PreRecord ==
    [pc : PrePC, createNewCSR : BOOLEAN, key : Keys \cup {NoKey},
     crt : Keys \cup {NoKey}, tries : 0..(FindTries - 1), crd : DOMAIN CRDs]

\* What a step of the preinstall pod keeps, whatever the step: the types, the
\* number of the CRD in hand, and the count of the failed calls.
PreKept ==
    /\ pre' \in PreRecord /\ cluster' \in Clusters /\ faults' \in 0..MaxFaults
    /\ pre'.pc # "InstallCRDs" => pre'.crd = 1

\* A preinstall pod that goes to another step, or exits, is well typed.
LEMMA PreMoves ==
    ASSUME pre \in PreRecord, NEW pc \in PrePC
    PROVE  /\ preGoto(pc) => pre' \in PreRecord /\ pre'.pc = pc /\ pre'.crd = pre.crd
           /\ preExit(pc) => pre' \in PreRecord /\ pre'.pc = pc /\ pre'.crd = 1
BY Initials DEF preGoto, preExit, PreRecord, NoPre

\* The failed calls are counted up to the bound.
LEMMA FaultsBounded ==
    ASSUME faults \in 0..MaxFaults
    PROVE  /\ Fault => faults' \in 0..MaxFaults
           /\ UNCHANGED faults => faults' \in 0..MaxFaults
           /\ \A e, f : Get(e, f) => faults' \in 0..MaxFaults
BY InstallAssumption DEF Fault, Get

\* Every step of the preinstall pod keeps the types.
LEMMA PreStepKeeps ==
    ASSUME TypeOK, PodsInv, PreStep
    PROVE  PreKept
<1>1. /\ pre \in PreRecord /\ cluster \in Clusters /\ faults \in 0..MaxFaults
      /\ pre.pc # "InstallCRDs" => pre.crd = 1
  BY DEF TypeOK, PodsInv, PreRecord
<1>2. FindTries \in Nat
  BY InstallAssumption
<1> USE FaultsBounded, <1>1
<1>3. CASE PreGetCSR
  BY <1>3, PreMoves DEF PreGetCSR, PreKept, PrePC
<1>4. CASE PreDeleteCSR
  <2>1. [cluster EXCEPT !.csr = NoCSR] \in Clusters
    BY DEF Clusters, NoCSR
  <2> QED
    BY <1>4, <2>1, PreMoves DEF PreDeleteCSR, preRun, RunCommand, PreKept, PrePC, Ended
<1>5. CASE PreGetSecret
  BY <1>5, PreMoves DEF PreGetSecret, afterDeletes, PreKept, PrePC
<1>6. CASE PreDeleteSecret
  <2>1. [cluster EXCEPT !.secret = NoSecret] \in Clusters
    BY DEF Clusters, Secrets, NoSecret
  <2> QED
    BY <1>6, <2>1, PreMoves
    DEF PreDeleteSecret, afterDeletes, preRun, RunCommand, PreKept, PrePC, Ended
<1>7. CASE PreCsrExists
  BY <1>7, PreMoves DEF PreCsrExists, PreKept, PrePC
<1>8. CASE PreCreateCertificates
  <2>1. commands \in Keys
    BY <1>8 DEF PreCreateCertificates, TypeOK, PodsInv, Running, Ended, Keys
  <2>2. ASSUME pre' = [pre EXCEPT !.pc = "CreateCSR", !.key = commands]
        PROVE  pre' \in PreRecord /\ pre'.pc = "CreateCSR" /\ pre'.crd = pre.crd
    BY <2>1, <2>2 DEF PreRecord, PrePC
  <2> QED
    BY <1>8, <2>2, PreMoves DEF PreCreateCertificates, RunCommand, PreKept, PrePC, Ended
<1>9. CASE PreCreateCSR
  <2>1. pre.key \in Keys \cup {NoKey}
    BY DEF PreRecord
  <2>2. [cluster EXCEPT !.csr.key = pre.key] \in Clusters
    BY <2>1 DEF Clusters
  <2> QED
    BY <1>9, <2>2, PreMoves DEF PreCreateCSR, preRun, RunCommand, PreKept, PrePC, Ended
<1>10. CASE PreApprove
  <2>1. [cluster EXCEPT !.csr.approved = TRUE] \in Clusters
    BY DEF Clusters
  <2> QED
    BY <1>10, <2>1, PreMoves DEF PreApprove, preRun, RunCommand, PreKept, PrePC, Ended
<1>11. CASE PreWaitForCSR
  <2>1. ASSUME pre' = [pre EXCEPT !.pc = "FindCSR", !.crt = cluster.csr.cert]
        PROVE  pre' \in PreRecord /\ pre'.pc = "FindCSR" /\ pre'.crd = pre.crd
    BY <2>1 DEF PreRecord, PrePC, Clusters
  <2> QED
    BY <1>11, <2>1, PreMoves DEF PreWaitForCSR, RunCommand, PreKept, PrePC, Ended
<1>12. CASE PreFindCSR
  <2>1. ASSUME pre' = [pre EXCEPT !.tries = @ + 1], pre.tries + 1 < FindTries
        PROVE  pre' \in PreRecord /\ pre'.pc = pre.pc /\ pre'.crd = pre.crd
    BY <1>2, <2>1 DEF PreRecord
  <2>2. UNCHANGED cluster /\ pre.pc = "FindCSR" /\ faults' \in 0..MaxFaults
    BY <1>12 DEF PreFindCSR
  <2>3. \/ preGoto("CreateSecret") \/ preExit("Failed")
        \/ pre' = [pre EXCEPT !.tries = @ + 1] /\ pre.tries + 1 < FindTries
    BY <1>12 DEF PreFindCSR
  <2> QED
    BY <2>1, <2>2, <2>3, PreMoves DEF PreKept, PrePC, Ended
<1>13. CASE PreCreateSecret
  <2>1. [cluster EXCEPT !.secret.cert = pre.crt] \in Clusters
    BY DEF PreRecord, Clusters, Secrets
  <2> QED
    BY <1>13, <2>1, PreMoves DEF PreCreateSecret, preRun, RunCommand, PreKept, PrePC, Ended
<1>14. CASE PreLabel
  <2>1. [cluster EXCEPT !.secret.labelled = TRUE] \in Clusters
    BY DEF Clusters, Secrets
  <2> QED
    BY <1>14, <2>1, PreMoves DEF PreLabel, preRun, RunCommand, PreKept, PrePC, Ended
<1>15. CASE PreInstallCRD
  <2>1. pre.crd \in 1..4 /\ CRDs[pre.crd] \in CRDNames
    BY CRDFacts DEF PreRecord
  <2>2. [cluster EXCEPT !.crds = @ \cup {CRDs[pre.crd]}] \in Clusters
    BY <2>1 DEF Clusters
  <2>3. ASSUME pre' = [pre EXCEPT !.crd = @ + 1], pre.crd # Len(CRDs)
        PROVE  pre' \in PreRecord /\ pre'.pc = pre.pc
    BY <2>1, <2>3, CRDFacts DEF PreRecord
  <2> QED
    BY <1>15, <2>2, <2>3, PreMoves DEF PreInstallCRD, RunCommand, PreKept, PrePC, Ended
<1> QED
  BY <1>3, <1>4, <1>5, <1>6, <1>7, <1>8, <1>9, <1>10, <1>11, <1>12, <1>13, <1>14, <1>15
  DEF PreStep

\* A step of the preinstall pod other than the last three leaves it at a step
\* that promises nothing about the objects, or failed.
LEMMA PreEarly ==
    ASSUME TypeOK, PodsInv, PreStep, ~PreCreateSecret, ~PreLabel, ~PreInstallCRD
    PROVE  pre'.pc \notin {"Label", "InstallCRDs", "Succeeded"}
<1>1. pre \in PreRecord
  BY DEF TypeOK, PreRecord
<1>2. CASE PreGetCSR
  BY <1>1, <1>2, PreMoves DEF PreGetCSR, PrePC
<1>3. CASE PreDeleteCSR
  BY <1>1, <1>3, PreMoves DEF PreDeleteCSR, preRun, RunCommand, PrePC, Ended
<1>4. CASE PreGetSecret
  BY <1>1, <1>4, PreMoves DEF PreGetSecret, afterDeletes, PrePC
<1>5. CASE PreDeleteSecret
  BY <1>1, <1>5, PreMoves DEF PreDeleteSecret, afterDeletes, preRun, RunCommand, PrePC, Ended
<1>6. CASE PreCsrExists
  BY <1>1, <1>6, PreMoves DEF PreCsrExists, PrePC
<1>7. CASE PreCreateCertificates
  <2>1. preExit("Failed") \/ pre' = [pre EXCEPT !.pc = "CreateCSR", !.key = commands]
    BY <1>7 DEF PreCreateCertificates, RunCommand
  <2>2. ASSUME preExit("Failed") PROVE pre'.pc = "Failed"
    BY <2>2 DEF preExit, NoPre
  <2>3. ASSUME pre' = [pre EXCEPT !.pc = "CreateCSR", !.key = commands]
        PROVE  pre'.pc \in {"CreateCSR", "FindCSR"}
    BY <1>1, <2>3 DEF PreRecord
  <2> QED BY <2>1, <2>2, <2>3
<1>8. CASE PreCreateCSR
  BY <1>1, <1>8, PreMoves DEF PreCreateCSR, preRun, RunCommand, PrePC, Ended
<1>9. CASE PreApprove
  BY <1>1, <1>9, PreMoves DEF PreApprove, preRun, RunCommand, PrePC, Ended
<1>10. CASE PreWaitForCSR
  <2>1. preExit("Failed") \/ pre' = [pre EXCEPT !.pc = "FindCSR", !.crt = cluster.csr.cert]
    BY <1>10 DEF PreWaitForCSR, RunCommand
  <2>2. ASSUME preExit("Failed") PROVE pre'.pc = "Failed"
    BY <2>2 DEF preExit, NoPre
  <2>3. ASSUME pre' = [pre EXCEPT !.pc = "FindCSR", !.crt = cluster.csr.cert]
        PROVE  pre'.pc \in {"CreateCSR", "FindCSR"}
    BY <1>1, <2>3 DEF PreRecord
  <2> QED BY <2>1, <2>2, <2>3
<1>11. CASE PreFindCSR
  <2>1. \/ preGoto("CreateSecret") \/ preExit("Failed")
        \/ pre' = [pre EXCEPT !.tries = @ + 1] /\ pre.pc = "FindCSR"
    BY <1>11 DEF PreFindCSR
  <2> QED BY <1>1, <2>1, PreMoves DEF PrePC, Ended, PreRecord
<1> QED
  BY <1>2, <1>3, <1>4, <1>5, <1>6, <1>7, <1>8, <1>9, <1>10, <1>11 DEF PreStep

\* createTLSSecret and installCRDs make what the pod's next step counts on.
LEMMA PreLate ==
    ASSUME TypeOK, PodsInv, Prepared, PreCreateSecret \/ PreLabel \/ PreInstallCRD
    PROVE  Prepared'
<1>1. pre \in PreRecord /\ cluster \in Clusters
  BY DEF TypeOK, PreRecord
<1>2. ASSUME preExit("Failed") PROVE Prepared'
  BY <1>2 DEF preExit, NoPre, Prepared
<1>3. CASE PreCreateSecret
  <2>1. SUFFICES ASSUME preGoto("Label"), pre.crt # NoKey,
                        cluster' = [cluster EXCEPT !.secret.cert = pre.crt]
                 PROVE  Prepared'
    BY <1>2, <1>3 DEF PreCreateSecret, preRun, RunCommand
  <2>2. cluster'.secret.cert = pre.crt
    BY <1>1, <2>1 DEF Clusters, Secrets
  <2>3. pre'.pc = "Label"
    BY <1>1, <2>1 DEF preGoto, PreRecord
  <2> QED BY <2>1, <2>2, <2>3 DEF Prepared
<1>4. CASE PreLabel
  <2>1. SUFFICES ASSUME preGoto("InstallCRDs"), pre.pc = "Label",
                        cluster' = [cluster EXCEPT !.secret.labelled = TRUE]
                 PROVE  Prepared'
    BY <1>2, <1>4 DEF PreLabel, preRun, RunCommand
  <2>2. cluster'.secret.cert = cluster.secret.cert /\ cluster'.secret.labelled
    BY <1>1, <2>1 DEF Clusters, Secrets
  <2>3. pre'.pc = "InstallCRDs" /\ pre'.crd = 1
    BY <1>1, <2>1 DEF preGoto, PreRecord, PodsInv
  <2>4. cluster.secret.cert # NoKey
    BY <2>1 DEF Prepared
  <2> QED BY <2>2, <2>3, <2>4 DEF Prepared
<1>5. CASE PreInstallCRD
  <2>1. SUFFICES ASSUME IF pre.crd = Len(CRDs)
                          THEN preExit("Succeeded")
                          ELSE pre' = [pre EXCEPT !.crd = @ + 1],
                        pre.pc = "InstallCRDs",
                        cluster' = [cluster EXCEPT !.crds = @ \cup {CRDs[pre.crd]}]
                 PROVE  Prepared'
    BY <1>2, <1>5 DEF PreInstallCRD, RunCommand
  <2>2. /\ cluster'.secret = cluster.secret
        /\ cluster'.crds = cluster.crds \cup {CRDs[pre.crd]}
    BY <1>1, <2>1 DEF Clusters
  <2>3. /\ cluster.secret.cert # NoKey /\ cluster.secret.labelled
        /\ \A i \in 1..(pre.crd - 1) : CRDs[i] \in cluster.crds
    BY <2>1 DEF Prepared
  <2>4. pre.crd \in 1..4 /\ cluster.crds \in SUBSET CRDNames
    BY <1>1, CRDFacts DEF PreRecord, Clusters
  <2>5. CASE pre.crd = Len(CRDs)
    <3>1. pre'.pc = "Succeeded"
      BY <2>1, <2>5 DEF preExit, NoPre
    <3>2. cluster'.crds = CRDNames
      BY <2>2, <2>3, <2>4, <2>5, CRDFacts
    <3> QED BY <2>2, <2>3, <3>1, <3>2 DEF Prepared
  <2>6. CASE pre.crd # Len(CRDs)
    <3>1. pre'.pc = "InstallCRDs" /\ pre'.crd = pre.crd + 1
      BY <1>1, <2>1, <2>6 DEF PreRecord
    <3>2. \A i \in 1..(pre'.crd - 1) : CRDs[i] \in cluster'.crds
      BY <2>2, <2>3, <2>4, <3>1
    <3> QED BY <2>2, <2>3, <3>1, <3>2 DEF Prepared
  <2> QED BY <2>5, <2>6
<1> QED BY <1>3, <1>4, <1>5

\* A step of the preinstall pod preserves the invariant.
LEMMA PreStepHInv ==
    ASSUME HInv, PreStep
    PROVE  HInv'
<1>1. TypeOK /\ PodsInv /\ InstallInv /\ DeleteInv
  BY DEF HInv
<1>2. PreKept
  BY <1>1, PreStepKeeps
<1>3. preOnly
  BY DEF PreStep, PreGetCSR, PreDeleteCSR, PreGetSecret, PreDeleteSecret, PreCsrExists,
         PreCreateCertificates, PreCreateCSR, PreApprove, PreWaitForCSR, PreFindCSR,
         PreCreateSecret, PreLabel, PreInstallCRD
<1>4. Running(pre)
  BY DEF PreStep, PreGetCSR, PreDeleteCSR, PreGetSecret, PreDeleteSecret, PreCsrExists,
         PreCreateCertificates, PreCreateCSR, PreApprove, PreWaitForCSR, PreFindCSR,
         PreCreateSecret, PreLabel, PreInstallCRD, Running, Ended
<1>5. TypeOK'
  BY <1>1, <1>2, <1>3 DEF TypeOK, PreKept, PreRecord, preOnly
<1>6. PodsInv'
  BY <1>1, <1>2, <1>3, <1>4 DEF PodsInv, PreKept, preOnly, Running
<1>7. InstallInv'
  <2>1. SUFFICES ASSUME undisturbed = "install"
                 PROVE  InstallInv'
    BY <1>3 DEF InstallInv, preOnly
  <2>2. (~Running(del))'
    BY <1>1, <1>3, <2>1 DEF InstallInv, preOnly, Running
  <2>3. Prepared'
    <3>1. CASE PreCreateSecret \/ PreLabel \/ PreInstallCRD
      BY <1>1, <2>1, <3>1, PreLate DEF InstallInv
    <3>2. CASE ~(PreCreateSecret \/ PreLabel \/ PreInstallCRD)
      BY <1>1, <3>2, PreEarly DEF Prepared
    <3> QED BY <3>1, <3>2
  <2>4. ASSUME helm' = "deployed" PROVE Registering'
    BY <1>1, <1>3, <1>4, <2>1, <2>4 DEF InstallInv, Registering, preOnly, Running, Ended
  <2> QED BY <2>2, <2>3, <2>4 DEF InstallInv
<1>8. DeleteInv'
  BY <1>1, <1>3, <1>4 DEF DeleteInv, preOnly
<1> QED BY <1>5, <1>6, <1>7, <1>8 DEF HInv

-----------------------------------------------------------------------------
(* The postinstall pod. *)

PostRecord == [pc : PostPC, tries : 0..(FindTries - 1), certificate : Keys \cup {NoKey}]

\* A postinstall pod that goes to another step, or exits, is well typed.
LEMMA PostMoves ==
    ASSUME post \in PostRecord, NEW pc \in PostPC
    PROVE  /\ postGoto(pc) => /\ post' \in PostRecord /\ post'.pc = pc
                              /\ post'.certificate = post.certificate
           /\ postExit(pc) => post' \in PostRecord /\ post'.pc = pc
BY Initials DEF postGoto, postExit, PostRecord, NoPost

\* The two apply calls change one webhook each.
LEMMA WithWebhook ==
    ASSUME cluster \in Clusters, post \in PostRecord, NEW w \in Webhooks
    PROVE  /\ withWebhook(w) \in Clusters
           /\ withWebhook(w).secret = cluster.secret
           /\ withWebhook(w).crds = cluster.crds
           /\ withWebhook(w).webhooks[w] = post.certificate
           /\ \A v \in Webhooks \ {w} : withWebhook(w).webhooks[v] = cluster.webhooks[v]
BY DEF withWebhook, Clusters, PostRecord

\* What a step of the postinstall pod keeps, whatever the step: the types, the
\* secret and the CRDs.
PostKept ==
    /\ post' \in PostRecord /\ cluster' \in Clusters /\ faults' \in 0..MaxFaults
    /\ cluster'.secret = cluster.secret /\ cluster'.crds = cluster.crds

\* Every step of the postinstall pod keeps them, and if what it knows was right
\* and the pod it waits for is the one of this release, it stays right.
LEMMA PostStepKeeps ==
    ASSUME TypeOK, PostStep \/ PostTimeout
    PROVE  PostKept /\ (Registering => Registering')
<1>1. post \in PostRecord /\ cluster \in Clusters /\ faults \in 0..MaxFaults
  BY DEF TypeOK, PostRecord
<1>2. FindTries \in Nat
  BY InstallAssumption
<1>3. UNCHANGED pre
  BY DEF PostStep, PostWaitForPod, PostTimeout, PostWaitForTLSSecret, PostGetCaBundle,
         PostCreateWebhook, PostCreateDeploymentWebhook, postOnly
<1>4. ASSUME postExit("Failed"), cluster' \in Clusters, faults' \in 0..MaxFaults,
             cluster'.secret = cluster.secret, cluster'.crds = cluster.crds
      PROVE  PostKept /\ (Registering => Registering')
  <2>1. post' \in PostRecord /\ post'.pc = "Failed"
    BY <1>1, <1>4, PostMoves DEF PostPC, Ended
  <2> QED BY <1>4, <2>1 DEF PostKept, Registering
<1> USE FaultsBounded, <1>1
<1>5. CASE PostWaitForPod
  <2>1. SUFFICES ASSUME pre.pc = "Succeeded", postGoto("WaitForTLSSecret"),
                        UNCHANGED <<cluster, faults>>
                 PROVE  PostKept /\ (Registering => Registering')
    BY <1>4, <1>5 DEF PostWaitForPod
  <2>2. post' \in PostRecord /\ post'.pc = "WaitForTLSSecret"
    BY <2>1, PostMoves DEF PostPC
  <2> QED BY <1>3, <2>1, <2>2 DEF PostKept, Registering
<1>6. CASE PostTimeout
  BY <1>4, <1>6 DEF PostTimeout
<1>7. CASE PostWaitForTLSSecret
  <2>1. UNCHANGED cluster /\ faults' \in 0..MaxFaults /\ post.pc = "WaitForTLSSecret"
    BY <1>7 DEF PostWaitForTLSSecret
  <2>2. SUFFICES ASSUME \/ postGoto("GetCaBundle")
                        \/ /\ post' = [post EXCEPT !.tries = @ + 1]
                           /\ post.tries + 1 < FindTries
                 PROVE  PostKept /\ (Registering => Registering')
    BY <1>4, <1>7, <2>1 DEF PostWaitForTLSSecret
  <2>3. post' \in PostRecord /\ post'.pc \in {"WaitForTLSSecret", "GetCaBundle"}
    <3>1. CASE postGoto("GetCaBundle")
      BY <3>1, PostMoves DEF PostPC
    <3>2. CASE post' = [post EXCEPT !.tries = @ + 1] /\ post.tries + 1 < FindTries
      BY <1>2, <2>1, <3>2 DEF PostRecord
    <3> QED BY <2>2, <3>1, <3>2
  <2> QED BY <1>3, <2>1, <2>3 DEF PostKept, Registering
<1>8. CASE PostGetCaBundle
  <2>1. cluster' = cluster /\ faults' \in 0..MaxFaults /\ post.pc = "GetCaBundle"
    BY <1>8 DEF PostGetCaBundle, RunCommand
  <2>2. SUFFICES ASSUME post' = [post EXCEPT !.pc = "CreateWebhook",
                                             !.certificate = cluster.secret.cert]
                 PROVE  PostKept /\ (Registering => Registering')
    BY <1>4, <1>8, <2>1 DEF PostGetCaBundle, RunCommand
  <2>3. /\ post' \in PostRecord /\ post'.pc = "CreateWebhook"
        /\ post'.certificate = cluster.secret.cert
    BY <2>2 DEF PostRecord, PostPC, Clusters, Secrets
  <2> QED BY <1>3, <2>1, <2>3 DEF PostKept, Registering
<1>9. CASE PostCreateWebhook
  <2> DEFINE w == "kritis-validation-hook"
  <2>1. w \in Webhooks
    BY DEF Webhooks
  <2>2. /\ withWebhook(w) \in Clusters /\ withWebhook(w).secret = cluster.secret
        /\ withWebhook(w).crds = cluster.crds
        /\ withWebhook(w).webhooks[w] = post.certificate
    BY <2>1, WithWebhook
  <2>3. /\ cluster' \in {cluster, withWebhook(w)} /\ faults' \in 0..MaxFaults
        /\ post.pc = "CreateWebhook"
    BY <1>9 DEF PostCreateWebhook, RunCommand
  <2>4. SUFFICES ASSUME cluster' = withWebhook(w), postGoto("CreateDeploymentWebhook")
                 PROVE  PostKept /\ (Registering => Registering')
    BY <1>4, <1>9, <2>2, <2>3 DEF PostCreateWebhook, RunCommand
  <2>5. /\ post' \in PostRecord /\ post'.pc = "CreateDeploymentWebhook"
        /\ post'.certificate = post.certificate
    BY <2>4, PostMoves DEF PostPC
  <2> QED BY <1>3, <2>2, <2>3, <2>4, <2>5 DEF PostKept, Registering
<1>10. CASE PostCreateDeploymentWebhook
  <2> DEFINE w == "kritis-validation-hook-deployments"
  <2>1. w \in Webhooks /\ "kritis-validation-hook" \in Webhooks \ {w}
    BY DEF Webhooks
  <2>2. /\ withWebhook(w) \in Clusters /\ withWebhook(w).secret = cluster.secret
        /\ withWebhook(w).crds = cluster.crds
        /\ withWebhook(w).webhooks[w] = post.certificate
        /\ withWebhook(w).webhooks["kritis-validation-hook"] =
              cluster.webhooks["kritis-validation-hook"]
    BY <2>1, WithWebhook
  <2>3. /\ cluster' \in {cluster, withWebhook(w)} /\ faults' \in 0..MaxFaults
        /\ post.pc = "CreateDeploymentWebhook"
    BY <1>10 DEF PostCreateDeploymentWebhook, RunCommand
  <2>4. SUFFICES ASSUME cluster' = withWebhook(w), postExit("Succeeded")
                 PROVE  PostKept /\ (Registering => Registering')
    BY <1>4, <1>10, <2>2, <2>3 DEF PostCreateDeploymentWebhook, RunCommand
  <2>5. post' \in PostRecord /\ post'.pc = "Succeeded"
    BY <2>4, PostMoves DEF PostPC, Ended
  <2> QED BY <1>3, <2>2, <2>3, <2>4, <2>5 DEF PostKept, Registering
<1> QED
  BY <1>5, <1>6, <1>7, <1>8, <1>9, <1>10 DEF PostStep

\* A step of the postinstall pod preserves the invariant.
LEMMA PostStepHInv ==
    ASSUME HInv, PostStep \/ PostTimeout
    PROVE  HInv'
<1>1. TypeOK /\ PodsInv /\ InstallInv /\ DeleteInv
  BY DEF HInv
<1>2. PostKept /\ (Registering => Registering')
  BY <1>1, PostStepKeeps
<1>3. postOnly /\ Running(post)
  BY DEF PostStep, PostWaitForPod, PostTimeout, PostWaitForTLSSecret, PostGetCaBundle,
         PostCreateWebhook, PostCreateDeploymentWebhook, Running, Ended
<1>4. TypeOK'
  BY <1>1, <1>2, <1>3 DEF TypeOK, PostKept, PostRecord, postOnly
<1>5. PodsInv'
  BY <1>1, <1>3 DEF PodsInv, postOnly, Running
<1>6. Prepared => Prepared'
  BY <1>2, <1>3 DEF Prepared, PostKept, postOnly
<1>7. InstallInv'
  BY <1>1, <1>2, <1>3, <1>6 DEF InstallInv, postOnly, Running
<1>8. DeleteInv'
  BY <1>1, <1>3 DEF DeleteInv, postOnly
<1> QED BY <1>4, <1>5, <1>7, <1>8 DEF HInv

-----------------------------------------------------------------------------
(* The predelete pod. *)

\* The head and the tail of the objects that are left.
LEMMA TailFacts ==
    ASSUME NEW S, NEW s \in Seq(S), s # << >>
    PROVE  /\ Head(s) \in S /\ Head(s) = s[1] /\ Tail(s) \in Seq(S)
           /\ Len(s) \in Nat \ {0} /\ Len(Tail(s)) = Len(s) - 1
           /\ \A i \in 1..Len(Tail(s)) : Tail(s)[i] = s[i + 1]
           /\ Len(s) # 1 => Tail(s) # << >>
<1>1. Head(s) \in S /\ Tail(s) \in Seq(S)
  BY HeadTailProperties
<1>2. Len(s) \in Nat \ {0} /\ Len(Tail(s)) = Len(s) - 1
  BY HeadTailProperties, EmptySeq, LenProperties
<1>3. \A i \in 1..Len(Tail(s)) : Tail(s)[i] = s[i + 1]
  BY HeadTailProperties, <1>2
<1> QED BY <1>1, <1>2, <1>3

\* The kinds of objects are told apart.
LEMMA ObjectKinds ==
    /\ Objects = Webhooks \cup Optional \cup {"secret"}
    /\ Webhooks \cap Optional = {} /\ "secret" \notin Webhooks \cup Optional
    /\ Webhooks \cap CRDNames = {} /\ "secret" \notin CRDNames /\ "csr" \notin CRDNames
    /\ "csr" \notin Webhooks
BY CRDFacts DEF Objects, Webhooks, Optional

\* deleteObject takes one object away and touches no other.
LEMMA Without ==
    ASSUME cluster \in Clusters, NEW o \in Objects
    PROVE  /\ without(o) \in Clusters
           /\ o \in Webhooks =>
                 /\ without(o).webhooks = [cluster.webhooks EXCEPT ![o] = NoKey]
                 /\ without(o).secret = cluster.secret
                 /\ ~exists(cluster, o) => cluster.webhooks[o] = NoKey
           /\ o = "secret" =>
                 /\ without(o).webhooks = cluster.webhooks
                 /\ without(o).secret = NoSecret
                 /\ ~exists(cluster, o) => cluster.secret = NoSecret
           /\ o \in Optional =>
                 /\ without(o).webhooks = cluster.webhooks
                 /\ without(o).secret = cluster.secret
<1>1. CASE o \in Webhooks
  <2>1. o \notin Optional /\ o \notin CRDNames /\ o # "secret" /\ o # "csr"
    BY <1>1, ObjectKinds
  <2>2. without(o) = [cluster EXCEPT !.webhooks[o] = NoKey]
    BY <1>1, <2>1 DEF without
  <2>3. exists(cluster, o) = (cluster.webhooks[o] # NoKey)
    BY <1>1, <2>1 DEF exists
  <2> QED BY <1>1, <2>1, <2>2, <2>3 DEF Clusters
<1>2. CASE o \in CRDNames
  <2>1. o \notin Webhooks /\ o # "secret" /\ o # "csr"
    BY <1>2, ObjectKinds
  <2>2. without(o) = [cluster EXCEPT !.crds = @ \ {o}]
    BY <1>2, <2>1 DEF without
  <2> QED BY <2>1, <2>2 DEF Clusters
<1>3. CASE o = "secret"
  <2>1. o \notin Webhooks /\ o \notin CRDNames /\ o \notin Optional
    BY <1>3, ObjectKinds
  <2>2. without(o) = [cluster EXCEPT !.secret = NoSecret]
    BY <1>3, <2>1 DEF without
  <2>3. exists(cluster, o) = (cluster.secret # NoSecret)
    BY <1>3, <2>1 DEF exists
  <2>4. NoSecret \in Secrets
    BY Initials
  <2>5. without(o) \in Clusters
    BY <2>2, <2>4 DEF Clusters
  <2>6. without(o).webhooks = cluster.webhooks /\ without(o).secret = NoSecret
    BY <2>2 DEF Clusters
  <2> QED BY <2>1, <2>3, <2>5, <2>6
<1>4. CASE o = "csr"
  <2>1. o \notin Webhooks /\ o \notin CRDNames /\ o # "secret"
    BY <1>4, ObjectKinds
  <2>2. without(o) = [cluster EXCEPT !.csr = NoCSR]
    BY <1>4, <2>1 DEF without
  <2>3. without(o) \in Clusters
    <3>1. NoCSR \in [key : Keys \cup {NoKey}, approved : BOOLEAN, cert : Keys \cup {NoKey}]
      BY DEF NoCSR
    <3> QED BY <2>2, <3>1 DEF Clusters
  <2>4. without(o).webhooks = cluster.webhooks /\ without(o).secret = cluster.secret
    BY <2>2 DEF Clusters
  <2> QED BY <2>1, <2>3, <2>4
<1> QED BY <1>1, <1>2, <1>3, <1>4 DEF Objects

\* The pod when it is done with the object in hand.
LEMMA DoneFacts ==
    ASSUME del \in DelRecord, del.todo # << >>
    PROVE  /\ delDone \in DelRecord
           /\ delDone.todo = Tail(del.todo)
           /\ delDone.pc \in {"Get", "Succeeded"}
           /\ delDone.pc = "Get" => delDone.todo # << >>
           /\ delDone.pc = "Succeeded" => Len(del.todo) = 1
<1>1. PICK s \in Seq(Objects) : s = del.todo
  BY DEF DelRecord
<1>2. Tail(s) \in Seq(Objects) /\ (Len(s) # 1 => Tail(s) # << >>)
  BY <1>1, TailFacts
<1>3. PICK p : p = IF Len(s) = 1 THEN "Succeeded" ELSE "Get"
  OBVIOUS
<1>4. delDone = [del EXCEPT !.todo = Tail(@), !.pc = p]
  BY <1>1, <1>3 DEF delDone
<1>5. delDone.todo = Tail(s) /\ delDone.pc = p
  BY <1>1, <1>4 DEF DelRecord
<1>6. delDone \in DelRecord
  <2>1. p \in Ended \cup {"Get", "Delete"}
    BY <1>3 DEF Ended
  <2> QED BY <1>1, <1>2, <1>4, <2>1 DEF DelRecord
<1> QED BY <1>1, <1>2, <1>3, <1>5, <1>6

\* The object in hand is the next of the order of main, and without it the list
\* has advanced by one.
LEMMA Advance ==
    ASSUME NEW s \in Seq(Objects), s # << >>, NEW k \in 0..3, Planned(s, k)
    PROVE  /\ k < 3 => s[1] = Always[k + 1] /\ Planned(Tail(s), k + 1)
           /\ k = 3 => s[1] \in Optional /\ Planned(Tail(s), 3)
           /\ Len(s) = 1 => k >= 2
<1>1. /\ Len(s) \in Nat \ {0} /\ Len(Tail(s)) = Len(s) - 1
      /\ \A i \in 1..Len(Tail(s)) : Tail(s)[i] = s[i + 1]
  BY TailFacts
<1>2. /\ Len(s) + k >= 3
      /\ \A i \in 1..Len(s) : IF i + k <= 3 THEN s[i] = Always[i + k] ELSE s[i] \in Optional
  BY DEF Planned
<1>3. ASSUME k < 3 PROVE s[1] = Always[k + 1] /\ Planned(Tail(s), k + 1)
  <2>1. s[1] = Always[1 + k]
    BY <1>1, <1>2, <1>3
  <2>2. 1 + k = k + 1
    OBVIOUS
  <2>3. ASSUME NEW i \in 1..Len(Tail(s))
        PROVE  IF i + (k + 1) <= 3 THEN Tail(s)[i] = Always[i + (k + 1)]
                                   ELSE Tail(s)[i] \in Optional
    <3>1. i + 1 \in 1..Len(s) /\ (i + 1) + k = i + (k + 1)
      BY <1>1, <2>3
    <3> QED BY <1>1, <1>2, <3>1
  <2> QED BY <1>1, <1>2, <2>1, <2>2, <2>3 DEF Planned
<1>4. ASSUME k = 3 PROVE s[1] \in Optional /\ Planned(Tail(s), 3)
  <2>1. ASSUME NEW i \in 1..Len(Tail(s)) PROVE ~(i + 3 <= 3) /\ Tail(s)[i] \in Optional
    <3>1. i + 1 \in 1..Len(s) /\ ~((i + 1) + k <= 3)
      BY <1>1, <1>4, <2>1
    <3> QED BY <1>1, <1>2, <3>1
  <2>2. s[1] \in Optional
    BY <1>1, <1>2, <1>4
  <2> QED BY <1>1, <2>1, <2>2 DEF Planned
<1> QED BY <1>1, <1>2, <1>3, <1>4

\* When the object in hand was not there, or is taken away, one more of the
\* objects that are always deleted is gone.
LEMMA GoneAdvances ==
    ASSUME TypeOK, NEW s \in Seq(Objects), s # << >>, NEW k \in 0..3, Planned(s, k), Gone(k),
           UNCHANGED before,
           \/ UNCHANGED cluster /\ ~exists(cluster, s[1])
           \/ cluster' = without(s[1])
    PROVE  /\ k < 3 => Gone(k + 1)'
           /\ k = 3 => Gone(3)'
<1>1. cluster \in Clusters /\ s[1] \in Objects
  <2>1. Head(s) \in Objects /\ Head(s) = s[1]
    BY TailFacts
  <2> QED BY <2>1 DEF TypeOK
<1> DEFINE w == "kritis-validation-hook"
           v == "kritis-validation-hook-deployments"
<1>2. w \in Webhooks /\ v \in Webhooks /\ w # v
  BY DEF Webhooks
<1>3. cluster.webhooks \in [Webhooks -> Keys \cup {NoKey}]
  BY <1>1 DEF Clusters
<1>4. CASE k = 0
  <2>1. s[1] = w
    BY <1>4, Advance DEF Always
  <2>2. /\ without(w).webhooks = [cluster.webhooks EXCEPT ![w] = NoKey]
        /\ without(w).secret = cluster.secret
        /\ ~exists(cluster, w) => cluster.webhooks[w] = NoKey
    BY <1>1, <1>2, <2>1, Without
  <2>3. cluster'.webhooks[w] = NoKey /\ cluster'.secret = cluster.secret
    BY <1>2, <1>3, <2>1, <2>2
  <2> QED BY <1>4, <2>3 DEF Gone
<1>5. CASE k = 1
  <2>1. s[1] = v
    BY <1>5, Advance DEF Always
  <2>2. /\ without(v).webhooks = [cluster.webhooks EXCEPT ![v] = NoKey]
        /\ without(v).secret = cluster.secret
        /\ ~exists(cluster, v) => cluster.webhooks[v] = NoKey
    BY <1>1, <1>2, <2>1, Without
  <2>3. /\ cluster'.webhooks[w] = cluster.webhooks[w] /\ cluster'.webhooks[v] = NoKey
        /\ cluster'.secret = cluster.secret
    BY <1>2, <1>3, <2>1, <2>2
  <2> QED BY <1>5, <2>3 DEF Gone
<1>6. CASE k = 2
  <2>1. s[1] = "secret"
    BY <1>6, Advance DEF Always
  <2>2. cluster'.webhooks = cluster.webhooks /\ cluster'.secret = NoSecret
    BY <1>1, <2>1, Without
  <2> QED BY <1>6, <2>2 DEF Gone
<1>7. CASE k = 3
  <2>1. s[1] \in Optional
    BY <1>7, Advance
  <2>2. without(s[1]).webhooks = cluster.webhooks /\ without(s[1]).secret = cluster.secret
    BY <1>1, <2>1, Without
  <2>3. cluster'.webhooks = cluster.webhooks /\ cluster'.secret = cluster.secret
    BY <2>2
  <2> QED BY <1>7, <2>3 DEF Gone
<1> QED BY <1>4, <1>5, <1>6, <1>7

\* An undisturbed predelete hook that is done with the object in hand is further
\* in the order of main, or at its end.
LEMMA DoneAdvances ==
    ASSUME TypeOK, PodsInv, DeleteInv, undisturbed = "delete", Running(del),
           del' = delDone, UNCHANGED before,
           \/ UNCHANGED cluster /\ ~exists(cluster, Head(del.todo))
           \/ cluster' = without(Head(del.todo))
    PROVE  /\ Running(del') => \E k \in 0..3 : Planned(del'.todo, k) /\ Gone(k)'
           /\ Uninstalled'
<1>1. PICK s \in Seq(Objects) : s = del.todo
  BY DEF PodsInv, DelRecord
<1>2. s # << >> /\ del \in DelRecord
  BY <1>1 DEF PodsInv
<1>3. PICK k \in 0..3 : Planned(s, k) /\ Gone(k)
  BY <1>1 DEF DeleteInv
<1>4. Head(s) = s[1]
  BY <1>2, TailFacts
<1>5. (k < 3 => Gone(k + 1)') /\ (k = 3 => Gone(3)')
  BY <1>1, <1>2, <1>3, <1>4, GoneAdvances
<1>6. PICK j \in 0..3 : Planned(Tail(s), j) /\ Gone(j)' /\ (Len(s) = 1 => j = 3)
  <2>1. /\ k < 3 => Planned(Tail(s), k + 1)
        /\ k = 3 => Planned(Tail(s), 3)
        /\ Len(s) = 1 => k >= 2
    BY <1>2, <1>3, Advance
  <2>2. CASE k < 3
    <3>1. k + 1 \in 0..3 /\ (Len(s) = 1 => k + 1 = 3)
      BY <2>1, <2>2
    <3> QED BY <1>5, <2>1, <2>2, <3>1
  <2>3. CASE k = 3
    BY <1>5, <2>1, <2>3
  <2> QED BY <2>2, <2>3
<1>7. /\ del'.todo = Tail(s) /\ del'.pc \in {"Get", "Succeeded"}
      /\ del'.pc = "Succeeded" => Len(s) = 1
  BY <1>1, <1>2, DoneFacts
<1>8. Uninstalled'
  <2>1. SUFFICES ASSUME del'.pc = "Succeeded"
                 PROVE  cluster'.secret = NoSecret /\
                        \A w \in Webhooks : cluster'.webhooks[w] = NoKey
    BY <1>7 DEF Uninstalled
  <2>2. Gone(3)'
    BY <1>6, <1>7, <2>1
  <2> QED BY <2>2 DEF Gone, Webhooks
<1> QED BY <1>6, <1>7, <1>8

\* A step of the predelete pod keeps the types and works on one object.
LEMMA DelStepKeeps ==
    ASSUME TypeOK, PodsInv, DelStep
    PROVE  /\ Running(del) /\ delOnly
           /\ del' \in DelRecord /\ cluster' \in Clusters /\ faults' \in 0..MaxFaults
           /\ Running(del') => del'.todo # << >>
           /\ undisturbed' \in {undisturbed, "none"}
<1>1. Running(del) /\ delOnly
  BY DEF DelStep, DelGet, DelDelete, Running, Ended
<1>2. del \in DelRecord /\ del.todo # << >> /\ cluster \in Clusters /\ faults \in 0..MaxFaults
  BY <1>1 DEF PodsInv, TypeOK
<1>3. Head(del.todo) \in Objects
  BY <1>2, TailFacts DEF DelRecord
<1>4. without(Head(del.todo)) \in Clusters
  BY <1>2, <1>3, Without
<1>5. cluster' \in Clusters /\ faults' \in 0..MaxFaults
  BY <1>2, <1>4, FaultsBounded DEF DelStep, DelGet, DelDelete, RunCommand
<1>6. \/ del' = [del EXCEPT !.pc = "Delete"] \/ del' = delDone
      \/ del' = [NoDel EXCEPT !.pc = "Failed"]
  BY DEF DelStep, DelGet, DelDelete, RunCommand
<1>7. ASSUME del' = [del EXCEPT !.pc = "Delete"]
      PROVE  del' \in DelRecord /\ del'.todo # << >>
  BY <1>2, <1>7 DEF DelRecord
<1>8. ASSUME del' = delDone
      PROVE  del' \in DelRecord /\ (Running(del') => del'.todo # << >>)
  BY <1>2, <1>8, DoneFacts DEF Running, Ended
<1>9. ASSUME del' = [NoDel EXCEPT !.pc = "Failed"]
      PROVE  del' \in DelRecord /\ ~Running(del')
  BY <1>9, Initials DEF NoDel, DelRecord, Running, Ended
<1>10. undisturbed' \in {undisturbed, "none"}
  BY DEF DelStep, DelGet, DelDelete
<1> QED BY <1>1, <1>5, <1>6, <1>7, <1>8, <1>9, <1>10

\* A step of the predelete pod preserves the invariant.
LEMMA DelStepHInv ==
    ASSUME HInv, DelStep
    PROVE  HInv'
<1>1. TypeOK /\ PodsInv /\ InstallInv /\ DeleteInv
  BY DEF HInv
<1>2. /\ Running(del) /\ delOnly
      /\ del' \in DelRecord /\ cluster' \in Clusters /\ faults' \in 0..MaxFaults
      /\ Running(del') => del'.todo # << >>
      /\ undisturbed' \in {undisturbed, "none"}
  BY <1>1, DelStepKeeps
<1>3. TypeOK'
  BY <1>1, <1>2 DEF TypeOK, delOnly, DelRecord, Objects
<1>4. PodsInv'
  BY <1>1, <1>2 DEF PodsInv, delOnly, Running
<1>5. InstallInv'
  BY <1>1, <1>2 DEF InstallInv
<1>6. DeleteInv'
  <2>1. SUFFICES ASSUME undisturbed = "delete", undisturbed' = "delete"
                 PROVE  DeleteInv'
    BY <1>2 DEF DeleteInv
  <2>2. UNCHANGED <<pre, post, helm, before>>
    BY <1>2 DEF delOnly
  <2>3. (~Running(pre) /\ ~Running(post) /\ helm # "preinstall")'
    BY <1>1, <2>1, <2>2 DEF DeleteInv, Running
  <2>4. PICK k \in 0..3 : Planned(del.todo, k) /\ Gone(k)
    BY <1>1, <1>2, <2>1 DEF DeleteInv
  <2>5. ASSUME del' = delDone,
               \/ UNCHANGED cluster /\ ~exists(cluster, Head(del.todo))
               \/ cluster' = without(Head(del.todo))
        PROVE  DeleteInv'
    <3>1. /\ Running(del') => \E i \in 0..3 : Planned(del'.todo, i) /\ Gone(i)'
          /\ Uninstalled'
      BY <1>1, <1>2, <2>1, <2>2, <2>5, DoneAdvances
    <3> QED BY <2>3, <3>1 DEF DeleteInv, Running
  <2>6. ASSUME del' = [del EXCEPT !.pc = "Delete"], UNCHANGED cluster
        PROVE  DeleteInv'
    <3>1. del'.pc = "Delete" /\ del'.todo = del.todo
      BY <1>1, <2>6 DEF PodsInv, DelRecord
    <3>2. Planned(del'.todo, k) /\ Gone(k)'
      BY <2>2, <2>4, <2>6, <3>1 DEF Gone
    <3>3. Uninstalled'
      BY <3>1 DEF Uninstalled
    <3> QED BY <2>3, <3>2, <3>3 DEF DeleteInv
  <2>7. ASSUME del' = [NoDel EXCEPT !.pc = "Failed"],
               cluster' \in {cluster, without(Head(del.todo))}
        PROVE  DeleteInv'
    <3>1. del'.pc = "Failed"
      BY <2>7 DEF NoDel
    <3>2. \E i \in 0..3 : Gone(i)'
      <4>1. CASE UNCHANGED cluster
        BY <2>2, <2>4, <4>1 DEF Gone
      <4>2. CASE cluster' = without(Head(del.todo))
        <5>1. PICK s \in Seq(Objects) : s = del.todo /\ s # << >>
          BY <1>1, <1>2 DEF PodsInv, DelRecord
        <5>2. Head(s) = s[1]
          BY <5>1, TailFacts
        <5>3. (k < 3 => Gone(k + 1)') /\ (k = 3 => Gone(3)')
          BY <1>1, <2>2, <2>4, <4>2, <5>1, <5>2, GoneAdvances
        <5>4. k < 3 => k + 1 \in 0..3
          OBVIOUS
        <5> QED BY <5>3, <5>4
      <4> QED BY <2>7, <4>1, <4>2
    <3>3. Uninstalled'
      <4>1. PICK i \in 0..3 : Gone(i)'
        BY <3>2
      <4>2. CASE i < 3
        BY <3>1, <4>1, <4>2 DEF Gone, Uninstalled
      <4>3. CASE i = 3
        BY <3>1, <4>1, <4>3 DEF Gone, Uninstalled, Webhooks
      <4> QED BY <4>2, <4>3
    <3> QED BY <2>3, <3>1, <3>3 DEF DeleteInv, Running, Ended
  <2>8. CASE DelGet
    <3>1. PICK found \in BOOLEAN :
             /\ Get(exists(cluster, Head(del.todo)), found)
             /\ del' = IF found THEN [del EXCEPT !.pc = "Delete"] ELSE delDone
      BY <2>8 DEF DelGet
    <3>2. faults' = faults /\ UNCHANGED cluster
      BY <2>1, <2>8 DEF DelGet
    <3>3. faults \in Nat
      BY <1>1 DEF TypeOK
    <3>4. found = exists(cluster, Head(del.todo))
      <4>1. ~Fault
        BY <3>2, <3>3 DEF Fault
      <4> QED BY <3>1, <4>1, Zenon DEF Get
    <3> QED BY <2>5, <2>6, <3>1, <3>2, <3>4
  <2>9. CASE DelDelete
    BY <2>5, <2>7, <2>9 DEF DelDelete, RunCommand
  <2> QED BY <2>8, <2>9 DEF DelStep
<1> QED BY <1>3, <1>4, <1>5, <1>6 DEF HInv

-----------------------------------------------------------------------------
(* The operator, Helm and the cluster. *)

\* The commands are counted up to the bound.
LEMMA CommandCounted ==
    ASSUME commands \in 0..MaxCommands, command
    PROVE  commands' \in 0..MaxCommands /\ commands' >= 1
BY InstallAssumption DEF command

\* helm install preserves the invariant: the pod starts at the first step, where
\* nothing is promised, and the postinstall pod of an earlier release is not this
\* one's.
LEMMA HelmInstallHInv ==
    ASSUME HInv, HelmInstall
    PROVE  HInv'
<1>1. TypeOK /\ PodsInv /\ InstallInv /\ DeleteInv
  BY DEF HInv
<1>2. PICK flag \in BOOLEAN : pre' = [NoPre EXCEPT !.pc = "GetCSR", !.createNewCSR = flag]
  BY DEF HelmInstall
<1>3. pre' \in PreRecord /\ pre'.pc = "GetCSR" /\ pre'.crd = 1
  BY <1>2, Initials DEF PreRecord, NoPre, PrePC
<1>4. commands' \in 0..MaxCommands /\ commands' >= 1
  BY <1>1, CommandCounted DEF HelmInstall, TypeOK
<1>5. TypeOK'
  BY <1>1, <1>3, <1>4, Initials DEF TypeOK, HelmInstall, PreRecord
<1>6. PodsInv'
  BY <1>1, <1>3, <1>4 DEF PodsInv, HelmInstall, Running
<1>7. InstallInv'
  BY <1>1, <1>3 DEF InstallInv, Prepared, HelmInstall, Running
<1>8. DeleteInv'
  BY DEF DeleteInv, HelmInstall
<1> QED BY <1>5, <1>6, <1>7, <1>8 DEF HInv

\* The postinstall pod of an installation starts by waiting.
LEMMA HelmPostInstallHInv ==
    ASSUME HInv, HelmPostInstall
    PROVE  HInv'
<1>1. TypeOK /\ PodsInv /\ InstallInv /\ DeleteInv
  BY DEF HInv
<1>2. post' \in PostRecord /\ post'.pc = "WaitForPod"
  BY Initials DEF HelmPostInstall, PostRecord, NoPost, PostPC
<1>3. TypeOK'
  BY <1>1, <1>2 DEF TypeOK, HelmPostInstall, PostRecord
<1>4. PodsInv'
  BY <1>1 DEF PodsInv, HelmPostInstall, Running
<1>5. InstallInv'
  BY <1>1, <1>2 DEF InstallInv, Prepared, Registering, HelmPostInstall, Running
<1>6. DeleteInv'
  BY <1>1 DEF DeleteInv, HelmPostInstall
<1> QED BY <1>3, <1>4, <1>5, <1>6 DEF HInv

\* The list of main starts with the webhooks and the secret, whatever the flags.
LEMMA DeletionsPlanned ==
    ASSUME NEW flags \in PredeleteFlags
    PROVE  /\ deletions(flags) \in Seq(Objects) /\ deletions(flags) # << >>
           /\ Planned(deletions(flags), 0)
<1> DEFINE a == IF flags.deleteCsr THEN deleteCSR ELSE << >>
           b == IF flags.deleteCRD THEN deleteCRDs ELSE << >>
           m == deleteWebhooks \o deleteTLSSecret
<1>1. /\ deleteWebhooks \in Seq(Objects) /\ deleteTLSSecret \in Seq(Objects)
      /\ a \in Seq(Objects) /\ b \in Seq(Objects)
  <2>1. deleteWebhooks \in Seq(Objects) /\ deleteTLSSecret \in Seq(Objects)
    BY DEF deleteWebhooks, deleteTLSSecret, Objects, Webhooks
  <2>2. deleteCSR \in Seq(Objects) /\ << >> \in Seq(Objects)
    BY DEF deleteCSR, Objects
  <2>3. deleteCRDs \in Seq(Objects)
    BY CRDFacts DEF deleteCRDs, Objects
  <2> QED BY <2>1, <2>2, <2>3
<1>2. a \in Seq(Optional) /\ b \in Seq(Optional)
  <2>1. deleteCSR \in Seq(Optional) /\ << >> \in Seq(Optional)
    BY DEF deleteCSR, Optional
  <2>2. deleteCRDs \in Seq(Optional)
    BY CRDFacts DEF deleteCRDs, Optional
  <2> QED BY <2>1, <2>2
<1>3. /\ m \in Seq(Objects) /\ Len(m) = 3
      /\ \A i \in 1..3 : m[i] = Always[i]
  BY <1>1 DEF deleteWebhooks, deleteTLSSecret, Always
<1> HIDE DEF a, b, m
<1>4. PICK d : d = a \o b
  OBVIOUS
<1>5. d \in Seq(Objects) /\ d \in Seq(Optional)
  BY <1>1, <1>2, <1>4
<1>6. deletions(flags) = m \o d
  <2>1. deletions(flags) = (m \o a) \o b
    BY DEF deletions, a, b, m
  <2>2. (m \o a) \o b = m \o (a \o b)
    <3>1. \A x, y, z \in Seq(Objects) : (x \o y) \o z = x \o (y \o z)
      BY ConcatAssociative
    <3>2. m \in Seq(Objects) /\ a \in Seq(Objects) /\ b \in Seq(Objects)
      BY <1>1, <1>3
    <3> QED BY <3>1, <3>2, Zenon
  <2> QED BY <1>4, <2>1, <2>2, Zenon
<1>7. PICK s : s = m \o d
  OBVIOUS
<1>8. /\ s \in Seq(Objects) /\ Len(s) = 3 + Len(d) /\ Len(d) \in Nat
      /\ \A i \in 1..Len(s) : s[i] = IF i <= 3 THEN m[i] ELSE d[i - 3]
  <2>1. s \in Seq(Objects)
    BY <1>3, <1>5, <1>7, ConcatProperties
  <2>2. /\ Len(m \o d) = Len(m) + Len(d)
        /\ \A i \in 1..(Len(m) + Len(d)) :
              (m \o d)[i] = IF i <= Len(m) THEN m[i] ELSE d[i - Len(m)]
    BY <1>3, <1>5, ConcatProperties, Zenon
  <2>3. Len(s) = 3 + Len(d) /\ Len(d) \in Nat
    BY <1>3, <1>5, <1>7, <2>2
  <2>4. \A i \in 1..(3 + Len(d)) : s[i] = IF i <= 3 THEN m[i] ELSE d[i - 3]
    BY <1>3, <1>7, <2>2, Zenon
  <2> QED BY <2>1, <2>3, <2>4
<1>9. ASSUME NEW i \in 1..Len(s)
      PROVE  IF i + 0 <= 3 THEN s[i] = Always[i + 0] ELSE s[i] \in Optional
  <2>1. i \in Nat /\ i + 0 = i
    BY <1>8
  <2>2. CASE i <= 3
    BY <1>3, <1>8, <2>1, <2>2
  <2>3. CASE ~(i <= 3)
    <3>1. i - 3 \in 1..Len(d)
      BY <1>8, <2>1, <2>3
    <3>2. d[i - 3] \in Optional
      BY <1>5, <3>1
    <3> QED BY <1>8, <2>1, <2>3, <3>2
  <2> QED BY <2>2, <2>3
<1>10. Planned(s, 0) /\ s # << >>
  BY <1>8, <1>9 DEF Planned
<1> QED BY <1>6, <1>7, <1>8, <1>10

\* helm delete starts the hook at the head of that list; nothing is gone yet.
LEMMA HelmDeleteHInv ==
    ASSUME HInv, HelmDelete
    PROVE  HInv'
<1>1. TypeOK /\ PodsInv /\ InstallInv /\ DeleteInv
  BY DEF HInv
<1>2. PICK flags \in PredeleteFlags : del' = [pc |-> "Get", todo |-> deletions(flags)]
  BY DEF HelmDelete
<1>3. /\ del' \in DelRecord /\ del'.pc = "Get" /\ del'.todo # << >>
      /\ Planned(del'.todo, 0)
  BY <1>2, DeletionsPlanned DEF DelRecord
<1>4. commands' \in 0..MaxCommands /\ commands' >= 1
  BY <1>1, CommandCounted DEF HelmDelete, TypeOK
<1>5. before' \in Secrets
  BY <1>1, Initials DEF HelmDelete, TypeOK, Clusters
<1>6. TypeOK'
  BY <1>1, <1>3, <1>4, <1>5 DEF TypeOK, HelmDelete, DelRecord, Objects
<1>7. PodsInv'
  BY <1>1, <1>3, <1>4 DEF PodsInv, HelmDelete, Running
<1>8. InstallInv'
  BY DEF InstallInv, HelmDelete
<1>9. DeleteInv'
  <2>1. SUFFICES ASSUME undisturbed' = "delete" PROVE DeleteInv'
    BY DEF DeleteInv
  <2>2. /\ ~Running(pre) /\ ~Running(post) /\ UNCHANGED <<cluster, pre, post>>
        /\ helm' # "preinstall" /\ before' = cluster.secret
    BY <2>1 DEF HelmDelete
  <2>3. Gone(0)'
    BY <2>2 DEF Gone
  <2>4. Uninstalled'
    BY <1>3 DEF Uninstalled
  <2> QED BY <1>3, <2>2, <2>3, <2>4 DEF DeleteInv, Running
<1> QED BY <1>6, <1>7, <1>8, <1>9 DEF HInv

\* helm delete --no-hooks, the manual cleanup and the signer of the cluster.
LEMMA OthersHInv ==
    ASSUME HInv, HelmDeleteNoHooks \/ DeleteByLabel \/ SignCSR \/ UNCHANGED vars
    PROVE  HInv'
<1>1. TypeOK /\ PodsInv /\ InstallInv /\ DeleteInv
  BY DEF HInv
<1>2. CASE HelmDeleteNoHooks
  <2>1. commands' \in 0..MaxCommands /\ commands' >= 1
    BY <1>1, <1>2, CommandCounted DEF HelmDeleteNoHooks, TypeOK
  <2>2. TypeOK'
    BY <1>1, <1>2, <2>1 DEF TypeOK, HelmDeleteNoHooks
  <2>3. PodsInv'
    BY <1>1, <1>2, <2>1 DEF PodsInv, HelmDeleteNoHooks, Running
  <2>4. InstallInv'
    BY <1>1, <1>2 DEF InstallInv, Prepared, HelmDeleteNoHooks, Running
  <2>5. DeleteInv'
    BY <1>1, <1>2 DEF DeleteInv, Gone, Uninstalled, HelmDeleteNoHooks, Running
  <2> QED BY <2>2, <2>3, <2>4, <2>5 DEF HInv
<1>3. CASE DeleteByLabel
  <2>1. commands' \in 0..MaxCommands /\ commands' >= 1
    BY <1>1, <1>3, CommandCounted DEF DeleteByLabel, TypeOK
  <2>2. PICK s \in Secrets :
           cluster' = [csr |-> NoCSR, crds |-> {}, webhooks |-> [w \in Webhooks |-> NoKey],
                       secret |-> s]
    BY <1>1, <1>3, Initials DEF DeleteByLabel, TypeOK, Clusters
  <2>3. cluster' \in Clusters
    BY <2>2 DEF Clusters, NoCSR
  <2>4. del' \in DelRecord /\ NoDel.pc = "Absent" /\ NoPre.pc = "Absent" /\ NoPre.crd = 1
    BY <1>3, Initials DEF DeleteByLabel, NoDel, NoPre
  <2>5. TypeOK'
    BY <1>1, <1>3, <2>1, <2>3, <2>4, Initials DEF TypeOK, DeleteByLabel, DelRecord, Objects
  <2>6. PodsInv'
    BY <1>3, <2>4 DEF PodsInv, DeleteByLabel, Running, Ended
  <2>7. InstallInv' /\ DeleteInv'
    BY <1>3 DEF InstallInv, DeleteInv, DeleteByLabel
  <2> QED BY <2>5, <2>6, <2>7 DEF HInv
<1>4. CASE SignCSR
  <2>1. /\ cluster' \in Clusters /\ cluster'.secret = cluster.secret
        /\ cluster'.crds = cluster.crds /\ cluster'.webhooks = cluster.webhooks
    BY <1>1, <1>4 DEF SignCSR, TypeOK, Clusters
  <2>2. TypeOK'
    BY <1>1, <1>4, <2>1 DEF TypeOK, SignCSR
  <2>3. PodsInv'
    BY <1>1, <1>4 DEF PodsInv, SignCSR, Running
  <2>4. InstallInv'
    BY <1>1, <1>4, <2>1 DEF InstallInv, Prepared, Registering, SignCSR, Running
  <2>5. DeleteInv'
    BY <1>1, <1>4, <2>1 DEF DeleteInv, Gone, Uninstalled, SignCSR, Running
  <2> QED BY <2>2, <2>3, <2>4, <2>5 DEF HInv
<1>5. CASE UNCHANGED vars
  <2>1. TypeOK' /\ PodsInv'
    BY <1>1, <1>5 DEF TypeOK, PodsInv, vars, Running
  <2>2. InstallInv'
    BY <1>1, <1>5 DEF InstallInv, Prepared, Registering, vars, Running
  <2>3. DeleteInv'
    BY <1>1, <1>5 DEF DeleteInv, Gone, Uninstalled, vars, Running
  <2> QED BY <2>1, <2>2, <2>3 DEF HInv
<1> QED BY <1>2, <1>3, <1>4, <1>5

-----------------------------------------------------------------------------
(* The theorems. *)

\* What the three hooks have done at each of their steps, in every state the
\* cluster can reach (preinstall, postinstall and predelete main).
THEOREM HooksInvariant == Spec => []HInv
<1>1. Init => HInv
  BY InitHInv
<1>2. HInv /\ [Next]_vars => HInv'
  BY PreStepHInv, PostStepHInv, DelStepHInv, HelmInstallHInv, HelmPostInstallHInv,
     HelmDeleteHInv, OthersHInv DEF Next
<1> QED BY <1>1, <1>2, PTL DEF Spec

\* The objects and the pods hold what the hooks can put there, a key pair is that
\* of a command, and the loops that look for the CSR and for the secret stay
\* within their bounds (createTLSSecret, waitForTLSSecret).
THEOREM TypeCorrect == Spec => []TypeOK
<1>1. HInv => TypeOK
  BY DEF HInv
<1> QED BY <1>1, HooksInvariant, PTL

\* A postinstall hook of an undisturbed installation that has succeeded leaves
\* both webhooks with the certificate of the labelled secret, and all CRDs,
\* whatever an earlier release has left behind and whichever calls have failed.
THEOREM SuccessIsRegistered == Spec => []Registered
<1>1. HInv => Registered
  BY DEF HInv, InstallInv, Prepared, Registering, Registered, Webhooks
<1> QED BY <1>1, HooksInvariant, PTL

\* An undisturbed predelete hook leaves neither webhook nor secret when it
\* succeeds, and no webhook without the secret it had when it fails: the order
\* in which main deletes them, for all values of the flags.
THEOREM DeletionIsOrdered == Spec => []Uninstalled
<1>1. HInv => Uninstalled
  BY DEF HInv, DeleteInv, Uninstalled
<1> QED BY <1>1, HooksInvariant, PTL

=============================================================================
