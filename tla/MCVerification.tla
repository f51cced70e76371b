--------------------------- MODULE MCVerification ---------------------------
(***************************************************************************)
(* Jobs, occurrences and configurations for TLC.                           *)
(***************************************************************************)
EXTENDS Verification, TLC

app1 == <<"gcr", "/", "app", "@1">>
app2 == <<"gcr", "/", "app", "@2">>
deep == <<"gcr", "/", "app", "/", "x", "@1">>
tagged == <<"gcr", "/", "app", ":v">>
kritis == <<"kritis", "@1">>
listed1 == <<"kritis", ":v">>
MCHasDigest == {app1, app2, deep, kritis}
MCRepository ==
    (app1 :> "gcr/app" @@ app2 :> "gcr/app" @@ deep :> "gcr/app/x" @@ tagged :> "gcr/app"
     @@ kritis :> "kritis" @@ listed1 :> "kritis" @@ <<"?">> :> NoReference)
MCGlobalImageAllowlist == <<listed1>>

key(type, id) == [type |-> type, id |-> id]
pem(k) == [blocks |-> 1, key |-> k]
pgp1 == pem(key("pgp", "k1"))
pgp2 == pem(key("pgp", "k2"))
rsa1 == pem(key("rsa", "r1"))
ec1 == pem(key("ecdsa", "e1"))

Pgp(p) == NewPublicKey("Pgp", "PGPUnused", p, "")
Pkix(p) == NewPublicKey("Pkix", "RsaPss2048Sha256", p, "r")
Jwt(p) == NewPublicKey("Jwt", "EcdsaP256Sha256", p, "e")
Malformed(p) == NewPublicKey("Pkix", "RsaPss2048Sha256", p, MalformedID)

Signer(kind, p, alg) ==
    [kind |-> kind, pem |-> p, alg |-> alg, digestAlg |-> hashPayload(alg), publicKeyID |-> "r"]
pgpSigner(p) == Signer("pgp", p, "PGPUnused")

Job(does, image, keys, allowlist, signer) ==
    [does |-> does, image |-> image, note |-> "att", keys |-> keys, allowlist |-> allowlist,
     signer |-> signer]
none == Job("none", app1, <<>>, <<>>, pgpSigner(pgp1))
review(keys) == Job("review", app1, keys, <<>>, pgpSigner(pgp1))
attest(s) == Job("attest", app1, <<>>, <<>>, s)
delete == Job("delete", app1, <<>>, <<>>, pgpSigner(pgp1))
vulnerabilities == Job("vulnerabilities", app1, <<>>, <<>>, pgpSigner(pgp1))
Team(j1, j2, j3) == [c1 |-> j1, c2 |-> j2, c3 |-> j3]

(* A reviewer alone, with every allowlist and image.                       *)
patterns == <<<<"gcr", "/", "*">>, <<"gcr", "/", "app", "*">>, <<"gcr", "/", "app", "/", "*">>,
              app1, <<"*">>, <<>>>>
allowlists == [i \in 1..6 |-> <<patterns[i]>>] \o [i \in 1..6 |-> <<patterns[i], app1>>]
images == <<app1, deep, tagged, kritis>>
alone(i, l) == Team(Job("review", images[i], <<Pgp(pgp1)>>, allowlists[l], pgpSigner(pgp1)), none, none)

(* Two signers, with every algorithm, and with keys that do not do.        *)
badPems == <<[blocks |-> 0, key |-> key("empty", "")], [blocks |-> 0, key |-> key("text", "")],
             [blocks |-> 2, key |-> key("rsa", "r1")], pem(key("ed25519", "d1")),
             pem(key("junk", ""))>>
good(alg) ==
    Team(none, attest(Signer("pkix", IF alg \in Ecdsa THEN ec1 ELSE rsa1, alg)),
               attest(Signer("kms", pem(key("rsa", "r2")), "RsaPss4096Sha512")))
bad(i, d) ==
    Team(none, attest([Signer("pkix", badPems[i], "RsaPss2048Sha256") EXCEPT !.publicKeyID = ""]),
               attest([Signer("kms", ec1, "EcdsaP384Sha384") EXCEPT !.digestAlg = d]))

(* Everyone at once.                                                       *)
teams ==
    <<Team(review(<<Pgp(pgp1), Pgp(pgp2)>>), attest(pgpSigner(pgp2)), delete),
      Team(review(<<Pgp(pgp1), Pkix(rsa1), Jwt(ec1), Malformed(rsa1)>>), attest(Signer("pkix", rsa1, "RsaPss2048Sha256")),
           attest(Signer("jwt", ec1, "EcdsaP256Sha256"))),
      Team(vulnerabilities, delete, attest(Signer("example", pgp1, "PGPUnused"))),
      Team(delete, delete, attest(pgpSigner(pgp1)))>>

Occurrence(place, note, image, kind, stype, att, issues) ==
    [place |-> place, note |-> note, uri |-> GetResourceURL(image), kind |-> kind,
     stype |-> stype, att |-> att, issues |-> issues]
by(p, image) == pgpAttestation(pgpSigner(p), NewAtomicContainerSig(image))
filed(place, p, image) ==
    Occurrence(place, "att", image, AttestationAuthority, "pgp", by(p, image), {})
\* It names a key that has not made it.
forged == [by(pgp2, app1) EXCEPT !.PublicKeyID = <<"fingerprint", "k1">>]
token == [PublicKeyID |-> <<"given", "e">>, SerializedPayload |-> <<>>,
          Signature |-> [scheme |-> "JWT", hash |-> "", by |-> "e1",
                         payload |-> NewAtomicContainerSig(app1),
                         header |-> [Typ |-> "JWT", Alg |-> "Algorithm Not Supported",
                                     Kid |-> <<"given", "e">>, Crit |-> ""]]]
vulnerability(place, cve, image, issues) ==
    Occurrence(place, cve, image, PkgVulnerability, "none", by(pgp1, image), issues)
other(place, stype, att) == Occurrence(place, "att", app1, AttestationAuthority, stype, att, {})

earlier ==
    <<{},
     {filed(1, pgp2, app2), other(2, "pgp", forged), filed(3, pgp1, app1)},
     {other(1, "generic", token), other(2, "unknown", forged), vulnerability(3, "cve3", app2, {})},
     {vulnerability(1, "cve1", app1, {"none"}), vulnerability(2, "cve2", app1, {"maximum", "v2"}),
      vulnerability(3, "cve3", app1, {"v2"}), other(4, "pgp", by(pgp1, app2))},
     {filed(1, pgp1, app1), other(2, "none", jwtAttestation), other(3, "unknown", forged)}>>

Config(backend, addr, interval) ==
    [MetadataBackend |-> backend, GrafeasAddr |-> addr, CronInterval |-> interval]
socket == <<Config(GrafeasMetadata, "/socket", "")>>
kritisConfigLists ==
    <<<<>>, socket, <<Config("", "", "badDuration")>>, <<Config("other", "", "")>>,
      <<Config(GrafeasMetadata, "host:port", "")>>, <<Config(GrafeasMetadata, "host:port", notPositive)>>,
      <<Config(GrafeasMetadata, "host", "")>>, <<Config(GrafeasMetadata, "", "")>>,
      socket \o socket>>

Start(team, occs, filters, found, certFile, files, ns, bound) ==
    [job |-> team, occurrences |-> occs, filters |-> filters, kritisConfigs |-> found,
     certFile |-> certFile, disk |-> files, notes |-> ns, MaxFaults |-> bound, MaxEdits |-> bound]
Quiet(team, filters, found, ns) == Start(team, {}, filters, found, "", "good", ns, 0)

Algorithms == RsaPss \cup RsaSignPkcs1 \cup Ecdsa
MCSituations ==
    {Start(Team(review(<<Pgp(pgp1)>>), none, none), earlier[2], TRUE,
           kritisConfigLists[i], certFile, files, {}, 1) :
        i \in 1..9, certFile \in {"", "missing", "noSection", "paths"}, files \in {"good", "bad"}}
    \cup {Quiet(alone(i, l), TRUE, socket, {}) : i \in 1..4, l \in 1..12}
    \cup {Quiet(good(alg), TRUE, <<>>, {}) : alg \in Algorithms}
    \cup {Quiet(bad(i, d), TRUE, <<>>, {}) : i \in 1..5, d \in {"SHA256", "SHA384", "MD5"}}
    \cup {[Start(teams[t], earlier[i], TRUE, socket, "paths", "good", {}, 1) EXCEPT ![bound] = 0] :
             t \in 1..4, i \in {2, 4}, bound \in {"MaxFaults", "MaxEdits"}}
    \cup {Start(teams[t], earlier[i], filters, socket, "paths", "good", {}, 0) :
             t \in 1..4, i \in 1..5, filters \in BOOLEAN}
    \cup {Quiet(teams[t], filters, <<>>, {"att"}) : t \in 1..4, filters \in BOOLEAN}

=============================================================================
