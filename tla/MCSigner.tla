------------------------------ MODULE MCSigner ------------------------------
(***************************************************************************)
(* Instances of Signer for TLC.                                            *)
(***************************************************************************)
EXTENDS Signer, TLC

Vuln(severity, fix, cve) == [Severity |-> severity, HasFixAvailable |-> fix, CVE |-> cve]
MCVulns == {{}, {Vuln("HIGH", TRUE, "cve1")}, {Vuln("", TRUE, "cve1"), Vuln("LOW", FALSE, "cve2")}}
MCPolicy == [MaximumFixableSeverity |-> "MEDIUM", MaximumUnfixableSeverity |-> "",
             AllowlistCVEs |-> {"cve3"}]

\* Three invocations: "ci" checks and signs an image by digest, "fix" signs the
\* same image anew without a check, "look" checks an image by tag.
MCSigners == {"ci", "fix", "look"}
MCImage == [s \in MCSigners |-> IF s = "look" THEN "tag" ELSE "app"]
MCMode == [s \in MCSigners |-> CASE s = "ci" -> CheckAndSign
                                 [] s = "fix" -> BypassAndSign
                                 [] s = "look" -> CheckOnly]
MCOverwrite == [s \in MCSigners |-> s = "fix"]

MCInit ==
    /\ Init
    /\ vulnerabilities = [i \in Images |-> {}]
    /\ analysis["app"] \in {"absent", "pending"} /\ analysis["tag"] = "success"
    /\ \A o \in occurrences : o.image = "app"
MCSpec == MCInit /\ [][Next]_vars /\ Fairness

=============================================================================
