------------------------------ MODULE Install ------------------------------
(***************************************************************************)
(* The Helm hooks (helm-hooks): the preinstall pod makes the TLS secret of *)
(* the webhook and the CRDs, the postinstall pod registers the two         *)
(* webhooks with the certificate of that secret, the predelete pod removes *)
(* all of them.  Helm does not wait for a hook pod, so the three may run   *)
(* at the same time; it does delete the pod of an earlier run before it    *)
(* creates the next (hook-delete-policy before-hook-creation).             *)
(*                                                                         *)
(* Every kubectl call is a step.  It may fail, without effect or after it  *)
(* took effect; a pod that dies between two calls does what it does when   *)
(* the next one fails.  A key pair is the number of the Helm command that  *)
(* made it and a certificate is the key it was issued for.                 *)
(***************************************************************************)
EXTENDS Naturals, Sequences, FiniteSets

CONSTANTS
    MaxCommands,   \* bound on the commands the operator runs
    MaxFaults,     \* bound on the kubectl calls that fail
    FindTries,     \* attempts at finding the CSR or the secret (10 and 20)
    PredeleteFlags \* the values of --delete-csr and --delete-crd to choose from

ASSUME InstallAssumption ==
    /\ MaxCommands \in Nat /\ MaxFaults \in Nat
    /\ FindTries \in Nat \ {0}
    /\ PredeleteFlags \subseteq [deleteCsr : BOOLEAN, deleteCRD : BOOLEAN]

VARIABLES
    cluster,      \* the objects in the cluster: csr, secret, crds, webhooks
    pre,          \* the preinstall pod
    post,         \* the postinstall pod
    del,          \* the predelete pod
    helm,         \* the state of the release
    commands,     \* commands run so far
    faults,       \* calls that have failed so far
    \* History.
    undisturbed,  \* the last command, if nothing else has touched the objects
    before        \* the secret when that command was a delete and started

vars == <<cluster, pre, post, del, helm, commands, faults, undisturbed, before>>

NoKey == 0
Keys == 1..MaxCommands
Webhooks == {"kritis-validation-hook", "kritis-validation-hook-deployments"}

\* The CRDs in the order they are installed.
CRDs == <<"attestationauthorities", "genericattestationpolicies",
          "imagesecuritypolicies", "kritisconfigs">>

CRDNames == {CRDs[i] : i \in DOMAIN CRDs}
NoCSR == [key |-> NoKey, approved |-> FALSE, cert |-> NoKey]
NoSecret == [cert |-> NoKey, labelled |-> FALSE]

Ended == {"Absent", "Succeeded", "Failed"}
Running(pod) == pod.pc \notin Ended

\* A pod before it has run: an empty file system, no output.
NoPre == [pc |-> "Absent", createNewCSR |-> TRUE, key |-> NoKey,
          crt |-> NoKey, tries |-> 0, crd |-> 1]
NoPost == [pc |-> "Absent", tries |-> 0, certificate |-> NoKey]
NoDel == [pc |-> "Absent", todo |-> << >>]

Init ==
    /\ cluster = [csr |-> NoCSR, secret |-> NoSecret, crds |-> {},
                  webhooks |-> [w \in Webhooks |-> NoKey]]
    /\ pre = NoPre /\ post = NoPost /\ del = NoDel
    /\ helm = "none"
    /\ commands = 0 /\ faults = 0
    /\ undisturbed = "none"
    /\ before = NoSecret

-----------------------------------------------------------------------------
(* kubectl. *)

Fault == faults < MaxFaults /\ faults' = faults + 1

\* The error of a get is only tested: "found" is whether there was none.
Get(exists, found) ==
    \/ found = exists /\ UNCHANGED faults
    \/ ~found /\ exists /\ Fault

\* RunCommand: the command "can" succeed and then leaves the cluster as
\* "after"; if it reports an error the hook is over.  "next" and "failed" are
\* what becomes of the pod.
RunCommand(can, after, next, failed) ==
    \/ can /\ cluster' = after /\ next /\ UNCHANGED faults
    \/ ~can /\ failed /\ UNCHANGED <<cluster, faults>>
    \/ can /\ Fault /\ failed /\ cluster' \in {cluster, after}

preGoto(pc) == pre' = [pre EXCEPT !.pc = pc]
preExit(pc) == pre' = [NoPre EXCEPT !.pc = pc]
preRun(can, after, pc) == RunCommand(can, after, preGoto(pc), preExit("Failed"))
preOnly == UNCHANGED <<post, del, helm, commands, undisturbed, before>>

-----------------------------------------------------------------------------
(* preinstall *)

\* deleteExistingObjects, the CSR.
PreGetCSR ==
    /\ pre.pc = "GetCSR"
    /\ \E found \in BOOLEAN :
          /\ Get(cluster.csr # NoCSR, found)
          /\ preGoto(IF found /\ pre.createNewCSR THEN "DeleteCSR" ELSE "GetSecret")
    /\ UNCHANGED cluster /\ preOnly

PreDeleteCSR ==
    /\ pre.pc = "DeleteCSR"
    /\ preRun(cluster.csr # NoCSR, [cluster EXCEPT !.csr = NoCSR], "GetSecret")
    /\ preOnly

\* deleteExistingObjects, the secret.
afterDeletes == IF pre.createNewCSR THEN "CreateCertificates" ELSE "CsrExists"

PreGetSecret ==
    /\ pre.pc = "GetSecret"
    /\ \E found \in BOOLEAN :
          /\ Get(cluster.secret # NoSecret, found)
          /\ preGoto(IF found THEN "DeleteSecret" ELSE afterDeletes)
    /\ UNCHANGED cluster /\ preOnly

PreDeleteSecret ==
    /\ pre.pc = "DeleteSecret"
    /\ preRun(cluster.secret # NoSecret, [cluster EXCEPT !.secret = NoSecret], afterDeletes)
    /\ preOnly

\* csrExists: an existing CSR is kept, and so are its key and its approval.
PreCsrExists ==
    /\ pre.pc = "CsrExists"
    /\ \E found \in BOOLEAN :
          /\ Get(cluster.csr # NoCSR, found)
          /\ preGoto(IF found THEN "WaitForCSR" ELSE "CreateCertificates")
    /\ UNCHANGED cluster /\ preOnly

\* createCertificates: a new key pair, in the pod.
PreCreateCertificates ==
    /\ pre.pc = "CreateCertificates"
    /\ RunCommand(TRUE, cluster,
                  pre' = [pre EXCEPT !.pc = "CreateCSR", !.key = commands],
                  preExit("Failed"))
    /\ preOnly

\* createCertificateSigningRequest: the request of an existing CSR is immutable,
\* kubectl apply leaves it as it is.
PreCreateCSR ==
    /\ pre.pc = "CreateCSR"
    /\ preRun(TRUE,
              IF cluster.csr = NoCSR THEN [cluster EXCEPT !.csr.key = pre.key] ELSE cluster,
              "Approve")
    /\ preOnly

PreApprove ==
    /\ pre.pc = "Approve"
    /\ preRun(cluster.csr # NoCSR, [cluster EXCEPT !.csr.approved = TRUE], "WaitForCSR")
    /\ preOnly

\* waitForCSR: the output has quotes around it, so that it is never empty and
\* the loop is left with whatever certificate there is, or none.
PreWaitForCSR ==
    /\ pre.pc = "WaitForCSR"
    /\ RunCommand(cluster.csr # NoCSR, cluster,
                  pre' = [pre EXCEPT !.pc = "FindCSR", !.crt = cluster.csr.cert],
                  preExit("Failed"))
    /\ preOnly

\* createTLSSecret, the loop that looks for the CSR.
PreFindCSR ==
    /\ pre.pc = "FindCSR"
    /\ \E found \in BOOLEAN :
          /\ Get(cluster.csr # NoCSR, found)
          /\ CASE found -> preGoto("CreateSecret")
               [] ~found /\ pre.tries + 1 < FindTries -> pre' = [pre EXCEPT !.tries = @ + 1]
               [] OTHER -> preExit("Failed")
    /\ UNCHANGED cluster /\ preOnly

\* kubectl create secret tls wants both files, a key that belongs to the
\* certificate, and no secret of that name.
PreCreateSecret ==
    /\ pre.pc = "CreateSecret"
    /\ preRun(pre.key # NoKey /\ pre.crt = pre.key /\ cluster.secret = NoSecret,
              [cluster EXCEPT !.secret.cert = pre.crt],
              "Label")
    /\ preOnly

PreLabel ==
    /\ pre.pc = "Label"
    /\ preRun(cluster.secret # NoSecret, [cluster EXCEPT !.secret.labelled = TRUE],
              "InstallCRDs")
    /\ preOnly

\* Mutant: one CRD too many.
PreInstallCRD_offByOne ==
    /\ pre.pc = "InstallCRDs"
    /\ RunCommand(TRUE, [cluster EXCEPT !.crds = @ \cup {CRDs[pre.crd]}],
                  IF pre.crd > Len(CRDs)
                  THEN preExit("Succeeded")
                  ELSE pre' = [pre EXCEPT !.crd = @ + 1],
                  preExit("Failed"))
    /\ preOnly

\* One CRD of installCRDs.
PreInstallCRD ==
    /\ pre.pc = "InstallCRDs"
    /\ RunCommand(TRUE, [cluster EXCEPT !.crds = @ \cup {CRDs[pre.crd]}],
                  IF pre.crd = Len(CRDs)
                  THEN preExit("Succeeded")
                  ELSE pre' = [pre EXCEPT !.crd = @ + 1],
                  preExit("Failed"))
    /\ preOnly

PreStep ==
    \/ PreGetCSR \/ PreDeleteCSR \/ PreGetSecret \/ PreDeleteSecret
    \/ PreCsrExists \/ PreCreateCertificates \/ PreCreateCSR \/ PreApprove
    \/ PreWaitForCSR \/ PreFindCSR \/ PreCreateSecret \/ PreLabel \/ PreInstallCRD

-----------------------------------------------------------------------------
(* postinstall *)

postGoto(pc) == post' = [post EXCEPT !.pc = pc]
postExit(pc) == post' = [NoPost EXCEPT !.pc = pc]
postOnly == UNCHANGED <<pre, del, helm, commands, undisturbed, before>>

\* Mutant: a preinstall pod that runs is taken for one that is done.
PostWaitForPod_running ==
    /\ post.pc = "WaitForPod" /\ pre.pc # "Absent"
    /\ IF pre.pc = "Failed" THEN postExit("Failed") ELSE postGoto("WaitForTLSSecret")
    /\ UNCHANGED <<cluster, faults>> /\ postOnly

\* WaitForPodComplete: polls until the pod has succeeded or failed.
PostWaitForPod ==
    /\ post.pc = "WaitForPod" /\ pre.pc \in {"Succeeded", "Failed"}
    /\ IF pre.pc = "Failed" THEN postExit("Failed") ELSE postGoto("WaitForTLSSecret")
    /\ UNCHANGED <<cluster, faults>> /\ postOnly

\* PollImmediate gives up after five minutes.
PostTimeout ==
    /\ post.pc = "WaitForPod"
    /\ postExit("Failed")
    /\ UNCHANGED <<cluster, faults>> /\ postOnly

\* Mutant: the loop has no bound.
PostWaitForTLSSecret_noBound ==
    /\ post.pc = "WaitForTLSSecret"
    /\ Get(cluster.secret # NoSecret, TRUE)
    /\ postGoto("GetCaBundle")
    /\ UNCHANGED cluster /\ postOnly

PostWaitForTLSSecret ==
    /\ post.pc = "WaitForTLSSecret"
    /\ \E found \in BOOLEAN :
          /\ Get(cluster.secret # NoSecret, found)
          /\ CASE found -> postGoto("GetCaBundle")
               [] ~found /\ post.tries + 1 < FindTries -> post' = [post EXCEPT !.tries = @ + 1]
               [] OTHER -> postExit("Failed")
    /\ UNCHANGED cluster /\ postOnly

PostGetCaBundle ==
    /\ post.pc = "GetCaBundle"
    /\ RunCommand(cluster.secret # NoSecret, cluster,
                  post' = [post EXCEPT !.pc = "CreateWebhook",
                                       !.certificate = cluster.secret.cert],
                  postExit("Failed"))
    /\ postOnly

\* The cluster after kubectl apply of a webhook with that caBundle.
withWebhook(w) == [cluster EXCEPT !.webhooks[w] = post.certificate]

PostCreateWebhook ==
    /\ post.pc = "CreateWebhook"
    /\ RunCommand(TRUE, withWebhook("kritis-validation-hook"),
                  postGoto("CreateDeploymentWebhook"), postExit("Failed"))
    /\ postOnly

PostCreateDeploymentWebhook ==
    /\ post.pc = "CreateDeploymentWebhook"
    /\ RunCommand(TRUE, withWebhook("kritis-validation-hook-deployments"),
                  postExit("Succeeded"), postExit("Failed"))
    /\ postOnly

PostStep ==
    \/ PostWaitForPod \/ PostWaitForTLSSecret \/ PostGetCaBundle
    \/ PostCreateWebhook \/ PostCreateDeploymentWebhook

-----------------------------------------------------------------------------
(* predelete *)

\* The objects main deletes, in order.
deleteWebhooks == <<"kritis-validation-hook", "kritis-validation-hook-deployments">>
deleteTLSSecret == <<"secret">>
deleteCSR == <<"csr">>
deleteCRDs == <<"attestationauthorities", "imagesecuritypolicies",
                "kritisconfigs", "genericattestationpolicies">>

\* Mutant: the secret goes first.
deletions_secretFirst(flags) ==
    deleteTLSSecret \o deleteWebhooks \o (IF flags.deleteCsr THEN deleteCSR ELSE << >>)
        \o (IF flags.deleteCRD THEN deleteCRDs ELSE << >>)

deletions(flags) ==
    deleteWebhooks \o deleteTLSSecret \o (IF flags.deleteCsr THEN deleteCSR ELSE << >>)
        \o (IF flags.deleteCRD THEN deleteCRDs ELSE << >>)

exists(c, o) ==
    CASE o \in Webhooks -> c.webhooks[o] # NoKey
      [] o \in CRDNames -> o \in c.crds
      [] o = "secret" -> c.secret # NoSecret
      [] o = "csr" -> c.csr # NoCSR

without(o) ==
    CASE o \in Webhooks -> [cluster EXCEPT !.webhooks[o] = NoKey]
      [] o \in CRDNames -> [cluster EXCEPT !.crds = @ \ {o}]
      [] o = "secret" -> [cluster EXCEPT !.secret = NoSecret]
      [] o = "csr" -> [cluster EXCEPT !.csr = NoCSR]

delDone ==
    [del EXCEPT !.todo = Tail(@), !.pc = IF Len(del.todo) = 1 THEN "Succeeded" ELSE "Get"]

delOnly == UNCHANGED <<pre, post, helm, commands, before>>

\* deleteObject: any error of the get passes for an object that is not there.
DelGet ==
    /\ del.pc = "Get"
    /\ \E found \in BOOLEAN :
          /\ Get(exists(cluster, Head(del.todo)), found)
          /\ del' = IF found THEN [del EXCEPT !.pc = "Delete"] ELSE delDone
    /\ undisturbed' = IF faults' = faults THEN undisturbed ELSE "none"
    /\ UNCHANGED cluster /\ delOnly

DelDelete ==
    /\ del.pc = "Delete"
    /\ RunCommand(exists(cluster, Head(del.todo)), without(Head(del.todo)),
                  del' = delDone, del' = [NoDel EXCEPT !.pc = "Failed"])
    /\ UNCHANGED undisturbed /\ delOnly

DelStep == DelGet \/ DelDelete

-----------------------------------------------------------------------------
(* The operator, Helm and the cluster. *)

command == commands < MaxCommands /\ commands' = commands + 1

\* helm install: the preinstall pod.
HelmInstall ==
    /\ helm = "none" /\ command
    /\ \E flag \in BOOLEAN :
          pre' = [NoPre EXCEPT !.pc = "GetCSR", !.createNewCSR = flag]
    /\ helm' = "preinstall"
    /\ undisturbed' = IF Running(del) THEN "none" ELSE "install"
    /\ before' = NoSecret
    /\ UNCHANGED <<cluster, post, del, faults>>

\* helm install, later: the manifests and then the postinstall pod.
HelmPostInstall ==
    /\ helm = "preinstall"
    /\ helm' = "deployed"
    /\ post' = [NoPost EXCEPT !.pc = "WaitForPod"]
    /\ UNCHANGED <<cluster, pre, del, commands, faults, undisturbed, before>>

\* helm delete; the release stays when Helm thinks that it failed.
HelmDelete ==
    /\ helm = "deployed" /\ command
    /\ \E flags \in PredeleteFlags : del' = [pc |-> "Get", todo |-> deletions(flags)]
    /\ helm' \in {"none", "deployed"}
    /\ undisturbed' = IF Running(pre) \/ Running(post) THEN "none" ELSE "delete"
    /\ before' = IF undisturbed' = "delete" THEN cluster.secret ELSE NoSecret
    /\ UNCHANGED <<cluster, pre, post, faults>>

\* helm delete --no-hooks.
HelmDeleteNoHooks ==
    /\ helm = "deployed" /\ command
    /\ helm' = "none"
    /\ UNCHANGED <<cluster, pre, post, del, faults, undisturbed, before>>

\* The manual cleanup: everything that has the label, the pods included.
DeleteByLabel ==
    /\ command
    /\ pre' = NoPre /\ post' = NoPost /\ del' = NoDel
    /\ cluster' = [csr |-> NoCSR, crds |-> {}, webhooks |-> [w \in Webhooks |-> NoKey],
                   secret |-> IF cluster.secret.labelled THEN NoSecret ELSE cluster.secret]
    /\ undisturbed' = "none" /\ before' = NoSecret
    /\ UNCHANGED <<helm, faults>>

\* The cluster issues the certificate of an approved CSR.
SignCSR ==
    /\ cluster.csr.approved /\ cluster.csr.cert = NoKey
    /\ cluster' = [cluster EXCEPT !.csr.cert = cluster.csr.key]
    /\ UNCHANGED <<pre, post, del, helm, commands, faults, undisturbed, before>>

Next ==
    \/ PreStep \/ PostStep \/ PostTimeout \/ DelStep
    \/ HelmInstall \/ HelmPostInstall \/ HelmDelete \/ HelmDeleteNoHooks
    \/ DeleteByLabel \/ SignCSR

Fairness ==
    /\ WF_vars(PreStep) /\ WF_vars(PostStep) /\ WF_vars(PostTimeout) /\ WF_vars(DelStep)

Spec == Init /\ [][Next]_vars /\ Fairness

-----------------------------------------------------------------------------
(* Properties. *)

Secrets == [cert : Keys \cup {NoKey}, labelled : BOOLEAN]
Clusters ==
    [csr : [key : Keys \cup {NoKey}, approved : BOOLEAN, cert : Keys \cup {NoKey}],
     secret : Secrets,
     crds : SUBSET CRDNames,
     webhooks : [Webhooks -> Keys \cup {NoKey}]]

PrePC == Ended \cup
    {"GetCSR", "DeleteCSR", "GetSecret", "DeleteSecret", "CsrExists",
     "CreateCertificates", "CreateCSR", "Approve", "WaitForCSR", "FindCSR",
     "CreateSecret", "Label", "InstallCRDs"}
PostPC == Ended \cup
    {"WaitForPod", "WaitForTLSSecret", "GetCaBundle", "CreateWebhook",
     "CreateDeploymentWebhook"}

\* The objects and the pods hold what the hooks can put there, and the loops of
\* the hooks stay within their bounds.
TypeOK ==
    /\ cluster \in Clusters /\ before \in Secrets
    /\ pre \in [pc : PrePC, createNewCSR : BOOLEAN, key : Keys \cup {NoKey},
                crt : Keys \cup {NoKey}, tries : 0..(FindTries - 1), crd : DOMAIN CRDs]
    /\ post \in [pc : PostPC, tries : 0..(FindTries - 1), certificate : Keys \cup {NoKey}]
    /\ del.pc \in Ended \cup {"Get", "Delete"}
    /\ del.todo \in Seq(Webhooks \cup CRDNames \cup {"secret", "csr"})
    /\ helm \in {"none", "preinstall", "deployed"}
    /\ commands \in 0..MaxCommands /\ faults \in 0..MaxFaults
    /\ undisturbed \in {"none", "install", "delete"}

\* Once the postinstall hook of an installation has succeeded, both webhooks
\* carry the certificate of the secret that the server serves with, all CRDs are
\* there and the secret has the label the manual cleanup looks for, whatever an
\* earlier installation has left behind (waitForPreinstallPod, getCaBundle).
\* A webhook with another caBundle rejects every pod: its failurePolicy is Fail.
Registered ==
    undisturbed = "install" /\ helm = "deployed" /\ post.pc = "Succeeded" =>
        /\ \A w \in Webhooks : cluster.webhooks[w] = cluster.secret.cert
        /\ cluster.secret.cert # NoKey /\ cluster.secret.labelled
        /\ cluster.crds = CRDNames

\* A predelete hook that nothing else has disturbed and that could read every
\* object either succeeds and leaves no webhook and no secret, or fails and
\* leaves no webhook without the secret it had: the order of main.
Uninstalled ==
    undisturbed = "delete" =>
        /\ del.pc = "Succeeded" =>
              cluster.secret = NoSecret /\ \A w \in Webhooks : cluster.webhooks[w] = NoKey
        /\ del.pc = "Failed" /\ (\E w \in Webhooks : cluster.webhooks[w] # NoKey) =>
              cluster.secret = before

\* Every hook comes to an end, with success or with an error, also when the
\* object it waits for is gone or the pod it waits for has failed: every loop of
\* the hooks is bounded.
HooksEnd ==
    /\ Running(pre) ~> ~Running(pre)
    /\ Running(post) ~> ~Running(post)
    /\ Running(del) ~> ~Running(del)

=============================================================================
