------------------------------- MODULE MCCron -------------------------------
(***************************************************************************)
(* Instances of Cron for TLC.  "lib" is an image by digest, "tag" is one   *)
(* by tag, "sys" is in the global allowlist.  Policy "strict" of namespace *)
(* "dev" has an authority, "lax" of namespace "ops" has none and allows    *)
(* every severity but blocks what has no fix.                              *)
(***************************************************************************)
EXTENDS Cron

Vuln(severity, fix, cve) == [Severity |-> severity, HasFixAvailable |-> fix, CVE |-> cve]
Critical == {Vuln("CRITICAL", TRUE, "cve1")}
NoFix == {Vuln("LOW", FALSE, "cve3")}
Unknown == {Vuln("", TRUE, "cve1")}

Isp(name, namespace, auth, max, nofix, allow) ==
    [name |-> name, Namespace |-> namespace, AttestationAuthorityName |-> auth,
     MaximumSeverity |-> max, MaximumFixUnavailableSeverity |-> nofix,
     ImageAllowlist |-> allow, AllowlistCVEs |-> {}]

strict == Isp("strict", "dev", "qa", "MEDIUM", "", {})
lax == Isp("lax", "ops", "", "ALLOW_ALL", "BLOCK_ALL", {})

qa == [name |-> "qa", Namespace |-> "dev", note |-> "n1",
       keys |-> {[KeyType |-> "PGP", pkix |-> FALSE, armored |-> {"k1"}]}]

MCAuthorities == {qa}

MCNamespace == [p \in PodNames |-> IF p = "p1" THEN "dev" ELSE "ops"]

-----------------------------------------------------------------------------
(* One run from several situations.                                        *)

MCTemplates == {{"lib"}, {"lib", "tag"}, {"sys"}}
MCLists == {{strict, lax}, {strict}}
MCVulns == {{}, Critical, Unknown}
MCOccurrences == {newOccurrence("n1", "lib", "k1")}

Plain(T) == [images |-> T, marks |-> [labels |-> NoKeys, annotations |-> NoKeys]]
Labelled(T) == [Plain(T) EXCEPT !.marks.labels.user = "blue"]

\* So many failures and changes are still to come.
Left(n) == (MaxFaults - faults) + (MaxEdits - edits) = n

Start(manual, isps, lib) ==
    /\ Init
    /\ loc["manual"].pc = manual
    /\ clusterIsps = isps /\ authorities = {qa} /\ occurrences = {}
    /\ vulnerabilities["lib"] = lib /\ \A i \in Images \ {"lib"} : vulnerabilities[i] = {}

\* The server on one pod, with every failure and change the bounds allow, and a
\* foreground run beside it, with one of them.
OneInit ==
    /\ pods = [p \in PodNames |-> IF p = "p1" THEN Plain({"lib"}) ELSE None]
    /\ \/ Start("exited", {strict}, Critical) /\ Left(MaxFaults + MaxEdits)
       \/ Start("idle", {strict}, Critical) /\ Left(1)

\* The server on the pods of two namespaces, with one failure or change.
SoloInit ==
    /\ \/ Start("exited", {strict, lax}, Critical) /\ pods["p3"] = None
       \/ Start("exited", {strict, lax}, Unknown) /\ pods["p3"] = Plain({"lib"})
    /\ pods["p1"] = Labelled({"lib", "tag"}) /\ pods["p2"] = Plain({"lib"})
    /\ Left(1)

MCSpec == (OneInit \/ SoloInit) /\ [][Next]_vars /\ Fairness

-----------------------------------------------------------------------------
(* The server on one pod of "dev" with a vulnerability that only the       *)
(* policy of "ops" blocks; nothing fails and nobody else acts.             *)

NamespacesVulns == {NoFix, {}}

NamespacesInit ==
    /\ Init
    /\ clusterIsps = {strict, lax} /\ authorities = {qa}
    /\ vulnerabilities["lib"] = NoFix /\ \A i \in Images \ {"lib"} : vulnerabilities[i] = {}
    /\ pods["p1"] = Plain({"lib"})

NamespacesSpec == NamespacesInit /\ [][Next]_vars /\ Fairness

=============================================================================
