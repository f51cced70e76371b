---------------------------- MODULE MCAdmission ----------------------------
(***************************************************************************)
(* Instances of Admission for TLC.  "app" and "lib" are images by digest   *)
(* on GCR, "tag" is an image by tag, "sys" is in the global allowlist.     *)
(* Each run fixes the states it starts from with a predicate on the        *)
(* initial state; edits lead from there to the others.                     *)
(***************************************************************************)
EXTENDS AdmissionRefinement, TLC

MCImages == {"app", "lib", "tag", "sys"}
MCGlobal == {"sys"}
MCDigests == {"app", "lib"}
MCGCR == {"app", "lib", "tag"}

Key(fpr) == [KeyType |-> "PGP", pkix |-> FALSE, armored |-> {fpr}]

\* "qa" before and after a key rotation, "prod" with a ring of two keys, which is
\* refused, beside its good one, and "ops" with no usable key at all.
qa == [name |-> "qa", note |-> "n1", keys |-> {Key("k1")}]
qaRotated == [qa EXCEPT !.keys = {Key("k2")}]
prod == [name |-> "prod", note |-> "n2", keys |-> {Key("k2"), [Key("k1") EXCEPT !.armored = {"k1", "k2"}]}]
ops == [name |-> "ops", note |-> "n3",
        keys |-> {[KeyType |-> "PKIX", pkix |-> TRUE, armored |-> {}]}]

Gap(names, patterns) ==
    [AttestationAuthorityNames |-> names, AdmissionAllowlistPatterns |-> patterns]

Isp(auth, secret, max, allow) ==
    [AttestationAuthorityName |-> auth, PrivateKeySecretName |-> secret,
     MaximumSeverity |-> max, MaximumFixUnavailableSeverity |-> "",
     ImageAllowlist |-> allow, AllowlistCVEs |-> {}]

Critical == {[Severity |-> "CRITICAL", HasFixAvailable |-> TRUE, CVE |-> "cve1"]}

MCSecretKey == [s \in {"s1"} |-> "k1"]

Object(kind, images, owners) ==
    [kind |-> kind, body |-> "ok", images |-> images, owners |-> owners,
     breakglass |-> FALSE]

Owner(kind, name) == [kind |-> kind, name |-> name]

-----------------------------------------------------------------------------
(* Generic attestation policies: one request, no image security policy.    *)

GapImages == {"app", "tag", "sys"}
GapAuthorities == {qa, qaRotated, prod}
GapGapLists == {{Gap({"qa"}, {}), Gap({"prod"}, {"tag"})}, {Gap({"qa", "prod"}, {})},
                {Gap({}, {}), Gap({"qa"}, {})}, {}}
GapOccurrences ==
    {newOccurrence("n1", "app", "k1"), newOccurrence("n2", "app", "k2"),
     [newOccurrence("n1", "app", "k1") EXCEPT !.known = FALSE, !.signatures = {}],
     [newOccurrence("n2", "app", "k2") EXCEPT !.signatures =
         {[publicKeyID |-> "k2", signedBy |-> Forged, payload |-> "app"],
          [publicKeyID |-> "k1", signedBy |-> "k1", payload |-> "app"]}]}
GapObjects ==
    {Object("Pod", {"app", "sys"}, {}),
     Object("Deployment", {"app", "tag"}, {}),
     Object("ReplicaSet", {"app"}, {Owner("Deployment", "web"), Owner("Pod", "job")}),
     Object("Pod", {"app"}, {Owner("Job", "job")}),
     Object("Service", {}, {}),
     [Object("Pod", {"tag"}, {}) EXCEPT !.breakglass = TRUE],
     [Object("Pod", {"app"}, {}) EXCEPT !.body = "badReview"],
     [Object("Pod", {"app"}, {}) EXCEPT !.body = "badObject"]}
GapTemplates == {{"app"}, {"app", "tag"}}

GapInit ==
    /\ Init
    /\ clusterGaps # {}
    /\ authorities = {qa, prod}
    /\ occurrences \subseteq {newOccurrence("n1", "app", "k1"), newOccurrence("n2", "app", "k2")}
    /\ workloads \in {[w \in {"web", "job"} |-> {"app"}], [w \in {"web", "job"} |-> {}]}
    /\ notes = {}

GapSpec == GapInit /\ [][Next]_vars
GapFairSpec == GapSpec /\ Fairness

-----------------------------------------------------------------------------
(* Image security policies: one request, no generic attestation policy.    *)

IspImages == {"app", "lib", "tag", "sys", "hub"}
IspDigests == {"app", "lib", "hub"}
IspAuthorities == {qa, [qa EXCEPT !.note = Malformed], ops}
strict == Isp("qa", "s1", "HIGH", {})
lax == Isp("ops", "s1", "CRITICAL", {"tag", "lib"})
plain == [Isp("", "", "", {}) EXCEPT !.MaximumFixUnavailableSeverity = "BLOCK_ALL",
                                     !.AllowlistCVEs = {"cve2"}]
IspIspLists == {{strict, plain}, {lax, strict}, {}}
IspVulnLists ==
    {{}, {[Severity |-> "CRITICAL", HasFixAvailable |-> TRUE, CVE |-> "cve1"],
          [Severity |-> "", HasFixAvailable |-> TRUE, CVE |-> "cve2"]},
     {[Severity |-> "LOW", HasFixAvailable |-> FALSE, CVE |-> "cve1"]}}
IspOccurrences == {newOccurrence("n1", "lib", "k1"), newOccurrence("n3", "app", "k1")}
IspObjects ==
    {Object("Pod", {"app", "sys"}, {}), Object("Pod", {"sys"}, {}),
     Object("Deployment", {"app", "lib"}, {}), Object("ReplicaSet", {"tag"}, {}),
     Object("Pod", {"hub"}, {})}

IspInit ==
    /\ Init
    /\ authorities = {qa, ops}
    /\ \A i \in {"lib", "tag", "sys", "hub"} : vulnerabilities[i] = {}
    /\ notes = {}
    /\ occurrences \subseteq {newOccurrence("n1", "lib", "k1")}

IspSpec == IspInit /\ [][Next]_vars /\ Fairness

-----------------------------------------------------------------------------
(* Two requests side by side, under both kinds of policies: the attestation *)
(* one of them files may be what the other one looks for.                   *)

PairAuthorities == {qa, prod}
PairGapLists == {{Gap({"qa"}, {}), Gap({"prod"}, {})}}
PairIspLists == {{Isp("qa", "s1", "HIGH", {})}}
PairVulnLists == {{}, Critical}
PairOccurrences == {newOccurrence("n2", "app", "k2"), newOccurrence("n1", "lib", "k2")}
PairObjects == {Object("Pod", {"app"}, {}), Object("Pod", {"lib"}, {})}

PairInit ==
    /\ Init
    /\ authorities = {qa, prod}
    /\ vulnerabilities["app"] = {}
    /\ notes = {}

PairSpec == PairInit /\ [][Next]_vars

PairSymmetry == Permutations(Requests)

=============================================================================
