----------------------------- MODULE Signatures -----------------------------
(***************************************************************************)
(* The signers and verifiers of pkg/attestlib and pkg/kritis/signer, with  *)
(* symbolic cryptography.  A signature is [scheme, hash, by, payload]: how *)
(* it was made, with which key, over what.  A key is [type, id].  PEM text *)
(* is [blocks, key]: the number of PEM blocks and the key in the first.    *)
(* A signer is [kind, pem, alg, digestAlg, publicKeyID].  A public key of  *)
(* a verifier is [AuthenticatorType, SignatureAlgorithm, KeyData, ID].  An *)
(* ID is a pair: what it is made of, and of which key.                     *)
(***************************************************************************)
EXTENDS Naturals, FiniteSetsExt

RsaPss == {"RsaPss2048Sha256", "RsaPss3072Sha256", "RsaPss4096Sha256", "RsaPss4096Sha512"}
RsaSignPkcs1 == {"RsaSignPkcs12048Sha256", "RsaSignPkcs13072Sha256",
                 "RsaSignPkcs14096Sha256", "RsaSignPkcs14096Sha512"}
Ecdsa == {"EcdsaP256Sha256", "EcdsaP384Sha384", "EcdsaP521Sha512"}

SignatureAlgorithm ==
    {"UnknownSigningAlgorithm", "PGPUnused"} \cup RsaPss \cup RsaSignPkcs1 \cup Ecdsa

Error == "error"
ErrorID == <<"error", "">>
PanicID == <<"panic", "">>

Sha512Algorithms == {"RsaSignPkcs14096Sha512", "RsaPss4096Sha512", "EcdsaP521Sha512"}
Sha256Algorithms == (RsaPss \cup RsaSignPkcs1 \cup Ecdsa) \ (Sha512Algorithms \cup {"EcdsaP384Sha384"})

hashPayload(alg) ==
    CASE alg \in Sha256Algorithms -> "SHA256"
      [] alg = "EcdsaP384Sha384" -> "SHA384"
      [] alg \in Sha512Algorithms -> "SHA512"
      [] OTHER -> Error

signature(scheme, hash, key, payload) ==
    [scheme |-> scheme, hash |-> hash, by |-> key.id, payload |-> payload]

-----------------------------------------------------------------------------
(* Signing.  An attestation whose ID is ErrorID or PanicID is none.        *)

NoAttestation(id) == [PublicKeyID |-> id]
failed(att) == att.PublicKeyID \in {ErrorID, PanicID}

rsaSign(key, payload, alg) ==
    signature(IF alg \in RsaPss THEN "PSS" ELSE "PKCS1v15", hashPayload(alg), key, payload)

ecSign(key, payload, alg) == signature("ECDSA", hashPayload(alg), key, payload)

\* Text without a PEM block is an error, unless it is empty: then there is no
\* block to read the key from.
parsePkixPrivateKeyPem(pem) ==
    CASE pem.blocks = 0 -> IF pem.key.type = "empty" THEN "panic" ELSE Error
      [] pem.blocks = 1 -> IF pem.key.type \in {"rsa", "ecdsa", "ed25519"} THEN "key" ELSE Error
      [] OTHER -> Error

\* The digest of the public key, for the two key types it knows.
generatePkixPublicKeyId(key) ==
    IF key.type \in {"rsa", "ecdsa"} THEN <<"ni", key.id>> ELSE ErrorID

\* The ID the signer puts on its attestations.
NewPkixSigner(s) ==
    LET parsed == parsePkixPrivateKeyPem(s.pem) IN
    CASE parsed = "panic" -> PanicID
      [] parsed = Error -> ErrorID
      [] OTHER -> IF s.publicKeyID = "" THEN generatePkixPublicKeyId(s.pem.key)
                  ELSE <<"given", s.publicKeyID>>

\* pkixSigner: the key must be of the kind the algorithm wants; its size and its
\* curve are not looked at.
pkixAttestation(s, payload) ==
    LET id == NewPkixSigner(s)
        key == s.pem.key
        att(sig) == [PublicKeyID |-> id, Signature |-> sig, SerializedPayload |-> payload]
    IN CASE id \in {ErrorID, PanicID} -> NoAttestation(id)
         [] id \notin {ErrorID, PanicID} /\ s.alg \in RsaPss \cup RsaSignPkcs1 /\ key.type = "rsa" ->
               att(rsaSign(key, payload, s.alg))
         [] id \notin {ErrorID, PanicID} /\ s.alg \in Ecdsa /\ key.type = "ecdsa" ->
               att(ecSign(key, payload, s.alg))
         [] OTHER -> NoAttestation(ErrorID)

\* kmsSigner: the service signs the digest with the algorithm of the key version,
\* and refuses one of another length.
kmsAttestation(s, payload) ==
    IF s.digestAlg \notin {"SHA256", "SHA384", "SHA512"} \/ hashPayload(s.alg) # s.digestAlg
    THEN NoAttestation(ErrorID)
    ELSE [PublicKeyID |-> <<"kms", s.pem.key.id>>, SerializedPayload |-> payload,
          Signature |-> IF s.alg \in Ecdsa THEN ecSign(s.pem.key, payload, s.alg)
                        ELSE rsaSign(s.pem.key, payload, s.alg)]

\* pgpSigner: the payload travels inside the signed message.
pgpAttestation(s, payload) ==
    [PublicKeyID |-> <<"fingerprint", s.pem.key.id>>, SerializedPayload |-> <<>>,
     Signature |-> signature("PGP", "", s.pem.key, payload)]

\* jwtSigner is not implemented.
jwtAttestation == NoAttestation(ErrorID)

-----------------------------------------------------------------------------
(* Verifying.                                                              *)

\* A key ID with a colon that is no URI.
MalformedID == "key:"

\* NewPublicKey: PGP keys have their fingerprint for an ID, the others the ID
\* they are given, which may be empty.  The algorithm is checked and dropped.
NewPublicKey(type, alg, pem, keyID) ==
    LET valid == \/ type = "Pgp" /\ alg = "PGPUnused" /\ pem.blocks = 1
                 \/ /\ type \in {"Pkix", "Jwt"} /\ keyID # MalformedID
                    /\ alg \notin {"PGPUnused", "UnknownSigningAlgorithm"}
    IN [AuthenticatorType |-> IF valid THEN type ELSE Error,
        SignatureAlgorithm |-> "UnknownSigningAlgorithm",
        KeyData |-> pem,
        ID |-> CASE ~valid -> ErrorID
                 [] valid /\ type = "Pgp" -> <<"fingerprint", pem.key.id>>
                 [] OTHER -> <<"given", keyID>>]

\* Mutant: the padding is not told apart.
verifyDetached_anyPadding(sig, pem, alg, payload) ==
    /\ pem.blocks = 1
    /\ \/ alg \in RsaSignPkcs1 \cup RsaPss /\ pem.key.type = "rsa" /\ sig.scheme \in {"PKCS1v15", "PSS"}
       \/ alg \in Ecdsa /\ pem.key.type = "ecdsa" /\ sig.scheme = "ECDSA"
    /\ sig.hash = hashPayload(alg)
    /\ sig.by = pem.key.id
    /\ sig.payload = payload

verifyDetached(sig, pem, alg, payload) ==
    /\ pem.blocks = 1
    /\ \/ alg \in RsaSignPkcs1 /\ pem.key.type = "rsa" /\ sig.scheme = "PKCS1v15"
       \/ alg \in RsaPss /\ pem.key.type = "rsa" /\ sig.scheme = "PSS"
       \/ alg \in Ecdsa /\ pem.key.type = "ecdsa" /\ sig.scheme = "ECDSA"
    /\ sig.hash = hashPayload(alg)
    /\ sig.by = pem.key.id
    /\ sig.payload = payload

getAlgName(alg) ==
    CASE alg \in RsaPss \ Sha512Algorithms -> "PS256"
      [] alg \in RsaPss \cap Sha512Algorithms -> "PS512"
      [] alg \in RsaSignPkcs1 \ Sha512Algorithms -> "RS256"
      [] alg \in RsaSignPkcs1 \cap Sha512Algorithms -> "RS512"
      [] alg = "EcdsaP256Sha256" -> "ES256"
      [] alg = "EcdsaP384Sha384" -> "ES384"
      [] alg = "EcdsaP521Sha512" -> "ES512"
      [] OTHER -> "Algorithm Not Supported"

\* A token's header is [Typ, Alg, Kid, Crit].
checkHeader(header, publicKey) ==
    /\ header.Crit = "" /\ header.Typ = "JWT"
    /\ header.Alg = getAlgName(publicKey.SignatureAlgorithm)
    /\ header.Kid = publicKey.ID

\* verifyPkix and verifyJwt end in an error whatever comes before it.
implemented == FALSE

verifyPkix(sig, publicKey) == implemented

verifyJwt(sig, publicKey) ==
    sig.scheme = "JWT" /\ checkHeader(sig.header, publicKey) /\ implemented

verifyPgp(sig, publicKey) == sig.scheme = "PGP" /\ sig.by = publicKey.KeyData.key.id

\* Mutant: the payload is not compared with the image.
VerifyAttestation_anyPayload(att, publicKeys, expected) ==
    \E i \in DOMAIN publicKeys :
        publicKeys[i].ID = att.PublicKeyID /\ verifyPgp(att.Signature, publicKeys[i])

\* indexPublicKeysByID keeps the last of the keys with the same ID.  What the
\* signature covers must name the repository and the digest that are expected.
VerifyAttestation(att, publicKeys, expected) ==
    LET named == {i \in DOMAIN publicKeys : publicKeys[i].ID = att.PublicKeyID} IN
    /\ named # {}
    /\ LET publicKey == publicKeys[Max(named)] IN
       /\ CASE publicKey.AuthenticatorType = "Pkix" -> verifyPkix(att.Signature, publicKey)
            [] publicKey.AuthenticatorType = "Pgp" -> verifyPgp(att.Signature, publicKey)
            [] publicKey.AuthenticatorType = "Jwt" -> verifyJwt(att.Signature, publicKey)
            [] OTHER -> FALSE
       /\ att.Signature.payload = expected

=============================================================================
