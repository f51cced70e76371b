--------------------------- MODULE SecurityPolicy ---------------------------
(***************************************************************************)
(* How an ImageSecurityPolicy judges the vulnerabilities of an image       *)
(* (pkg/kritis/crd/securitypolicy).  Everything here is a pure function of *)
(* a policy and of the vulnerabilities the metadata client returned; the   *)
(* lookup itself, which can fail, belongs to the modules that call these   *)
(* operators.                                                              *)
(*                                                                         *)
(* A policy is a record whose fields keep the names of the CRD's spec; a   *)
(* Go list that is only searched or iterated is a set.  A vulnerability is *)
(* [Severity, HasFixAvailable, CVE], and "" is the severity of an          *)
(* occurrence whose severity number the client does not know.              *)
(***************************************************************************)
EXTENDS Integers

BlockAll == "BLOCK_ALL"
AllowAll == "ALLOW_ALL"

\* The generated enumeration of the Grafeas API, in its order.
SeverityName ==
    {"SEVERITY_UNSPECIFIED", "MINIMAL", "LOW", "MEDIUM", "HIGH", "CRITICAL"}

Severity_value ==
    [s \in SeverityName |->
        CASE s = "SEVERITY_UNSPECIFIED" -> 0
          [] s = "MINIMAL"  -> 1
          [] s = "LOW"      -> 2
          [] s = "MEDIUM"   -> 3
          [] s = "HIGH"     -> 4
          [] s = "CRITICAL" -> 5]

\* "within" and "beyond" are the two Boolean answers, "error" the Go error.
severityWithinThreshold(maxSeverity, severity) ==
    CASE maxSeverity = BlockAll -> "beyond"
      [] maxSeverity = AllowAll -> "within"
      [] OTHER -> IF {maxSeverity, severity} \subseteq SeverityName
                  THEN IF Severity_value[severity] <= Severity_value[maxSeverity]
                       THEN "within" ELSE "beyond"
                  ELSE "error"

maxSev(isp) ==
    IF isp.MaximumSeverity = "" THEN "CRITICAL" ELSE isp.MaximumSeverity

maxNoFixSev(isp) ==
    IF isp.MaximumFixUnavailableSeverity = ""
    THEN AllowAll ELSE isp.MaximumFixUnavailableSeverity

\* One turn of the loop over vulnz: an allowlisted CVE is skipped, the others
\* are held against the threshold for their kind.
checkVulnerability(isp, v) ==
    IF v.CVE \in isp.AllowlistCVEs THEN "within"
    ELSE severityWithinThreshold(
             IF v.HasFixAvailable THEN maxSev(isp) ELSE maxNoFixSev(isp),
             v.Severity)

Violations(isp, vulnz) ==
    {v \in vulnz : checkVulnerability(isp, v) = "beyond"}

\* What ValidateImageSecurityPolicy concludes from the vulnerabilities it got.
\* It stops at the first error, so an error wins over violations in any order.
validateVulnz(isp, vulnz) ==
    CASE \E v \in vulnz : checkVulnerability(isp, v) = "error" -> "error"
      [] OTHER -> IF Violations(isp, vulnz) = {} THEN "clean" ELSE "violation"

=============================================================================
