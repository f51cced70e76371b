---------------------------- MODULE MCGcbSigner ----------------------------
(***************************************************************************)
(* Instances of GcbSigner for TLC: a build with two images and its tagged  *)
(* entries, a build that failed, and an event that cannot be parsed.       *)
(***************************************************************************)
EXTENDS GcbSigner

Entry(ref, latest) == [ref |-> ref, latest |-> latest]
Event(status, images, source) ==
    [parses |-> TRUE, status |-> status, images |-> images, source |-> source]

good == Event("SUCCESS", {Entry("app", FALSE), Entry("app:latest", TRUE), Entry("lib", FALSE)},
              "master")
broken == Event("FAILURE", {Entry("lib", FALSE)}, "master")
garbage == [Event("SUCCESS", {}, "master") EXCEPT !.parses = FALSE]
\* One of its images is on a registry the metadata client does not serve.
foreign == Event("SUCCESS", {Entry("lib", FALSE), Entry("hub", FALSE)}, "master")

Key(fpr) == [KeyType |-> "PGP", pkix |-> FALSE, armored |-> {fpr}]
qa == [name |-> "qa", note |-> "n1", keys |-> {Key("k1")}]

BuildPolicy(sources, secret) ==
    [BuiltFrom |-> sources, AttestationAuthorityName |-> "qa", PrivateKeySecretName |-> secret]

MCPolicyLists == {{BuildPolicy({"master"}, "s1"), BuildPolicy({"fork", "tag"}, "s2")}, {}}
MCKeys == [s \in {"s1", "s2"} |-> IF s = "s1" THEN "k1" ELSE "k2"]

MCEvents == {good, broken, garbage, foreign}
MCAuthorities == {qa}

MCInit == Init /\ policies # {} /\ authorities # {}
MCSpec == MCInit /\ [][Next]_vars /\ Fairness

=============================================================================
