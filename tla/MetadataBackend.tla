--------------------------- MODULE MetadataBackend ---------------------------
(***************************************************************************)
(* How the server finds and reaches its metadata backend: the KritisConfig *)
(* (cmd/kritis/admission/main.go), the certificates and the connection     *)
(* (pkg/kritis/metadata/grafeas).  What a step comes to is "ok", "error"   *)
(* or "panic".                                                             *)
(*                                                                         *)
(* A KritisConfig is [MetadataBackend, CronInterval, GrafeasAddr]; a field *)
(* that is not set is "".  The cluster has a list of them, two with the    *)
(* same content included.  A certificate file is what reading it gives:    *)
(* "missing", "badYaml", "noSection" or "paths"; disk tells whether the    *)
(* key pair and the authority's certificate at those paths are good, ok    *)
(* whether the client library of Container Analysis comes up.              *)
(***************************************************************************)
EXTENDS Naturals, Sequences

GrafeasMetadata == "grafeas"
ContainerAnalysisMetadata == "containerAnalysis"

\* An interval that parses but that no ticker accepts.
notPositive == "0s"

\* Certificates that are not there: LoadConfig succeeds on a file without the
\* section and returns a nil pointer.
nilCerts == "nil"

ValidateConfig(addr) == addr # ""

LoadConfig(certFile) ==
    CASE certFile = "" -> "default"
      [] certFile = "noSection" -> nilCerts
      [] certFile = "paths" -> "paths"
      [] OTHER -> "error"

\* Dialling does not wait for the server.
New(addr, certs, disk) ==
    CASE ~ValidateConfig(addr) -> "error"
      [] addr = "/socket" -> "ok"
      [] addr \notin {"", "/socket"} /\ certs = nilCerts -> "panic"
      [] OTHER -> IF certs = "paths" /\ disk = "good" /\ addr = "host:port" THEN "ok" ELSE "error"

\* NewCache fails when its client cannot be made.
NewCache(ok) == IF ok THEN "ok" ELSE "error"

MetadataClient(config, disk, ok) ==
    CASE config.Metadata = GrafeasMetadata -> New(config.Addr, config.Certs, disk)
      [] config.Metadata = ContainerAnalysisMetadata -> NewCache(ok)
      [] OTHER -> "error"

\* main up to the background job: the configuration, or why there is none.
Configure(kritisConfigs, certFile) ==
    CASE Len(kritisConfigs) = 0 ->
            [verdict |-> "ok", Metadata |-> ContainerAnalysisMetadata, Addr |-> "",
             Certs |-> "default", Interval |-> "1h"]
      [] Len(kritisConfigs) = 1 ->
            LET c == kritisConfigs[1]
                backend == IF c.MetadataBackend = "" THEN ContainerAnalysisMetadata
                           ELSE c.MetadataBackend
                ours == backend = GrafeasMetadata
                certs == IF ours THEN LoadConfig(certFile) ELSE "default"
            IN [verdict |-> IF ours /\ (~ValidateConfig(c.GrafeasAddr) \/ certs = "error")
                            THEN "error" ELSE "ok",
                Metadata |-> backend, Addr |-> IF ours THEN c.GrafeasAddr ELSE "",
                Certs |-> certs, Interval |-> IF c.CronInterval = "" THEN "1h" ELSE c.CronInterval]
      [] OTHER -> [verdict |-> "error", Metadata |-> "", Addr |-> "", Certs |-> "default",
                   Interval |-> ""]

\* Mutant: the background job is started without a client of its own.
StartCronJob_noClient(config, disk, ok) == IF config.Interval = "badDuration" THEN "error" ELSE "ok"

\* StartCronJob parses the interval and makes the first client.
StartCronJob(config, disk, ok) ==
    IF config.Interval = "badDuration" THEN "error" ELSE MetadataClient(config, disk, ok)

=============================================================================
