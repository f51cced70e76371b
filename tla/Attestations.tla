---------------------------- MODULE Attestations ----------------------------
(***************************************************************************)
(* Which attestations of an image an AttestationAuthority vouches for      *)
(* (pkg/kritis/review/validating_transport.go, pkg/attestlib).             *)
(*                                                                         *)
(* Cryptography is symbolic.  A key is its fingerprint.  A signature is    *)
(* [publicKeyID, signedBy, payload]: the key it names, the key that really *)
(* made it (Forged when no key did) and the image its payload speaks of.   *)
(* An occurrence is [note, resource, known, signatures]: the note and the  *)
(* image it is filed under, whether its signature kind is one the client   *)
(* can parse, and its signatures.  An authority is [name, note, keys] and  *)
(* each of its keys is [KeyType, pkix, armored]: whether the PKIX field is *)
(* set, and the fingerprints in the armored key ring, none when it cannot  *)
(* be parsed.                                                              *)
(***************************************************************************)

Forged == "forged"

\* KeyAndFingerprint takes the first key of the ring.
KeyAndFingerprint(ring) == ring # {}

\* validatePublicKey on a key of type PGP.
validatePublicKey(k) == ~k.pkix /\ KeyAndFingerprint(k.armored)

\* NewPublicKey refuses a ring with more than one key; the ID is the
\* fingerprint of that key, whatever the authority declares.
NewPublicKey(ring) == \E id \in ring : ring = {id}

\* The IDs the verifier indexes its keys by.
parsePublicKeys(keys) ==
    UNION {k.armored : k \in {x \in keys :
              x.KeyType = "PGP" /\ validatePublicKey(x) /\ NewPublicKey(x.armored)}}

\* The armored message opens with the key of that ID, and the key has made it.
verifyPgp(sig, id) == sig.signedBy = id

\* The payload names the repository and the digest of the image.
checkAuthenticatedAttestation(payload, image) == payload = image

\* The key is the one the signature names.
VerifyAttestation(sig, ids, image) ==
    /\ sig.publicKeyID \in ids
    /\ verifyPgp(sig, sig.publicKeyID)
    /\ checkAuthenticatedAttestation(sig.payload, image)

\* ListNoteOccurrences: by note, filtered by resource.
noteOccurrences(occs, note, image) ==
    {o \in occs : o.note = note /\ o.resource = image}

\* GetAttestationsFromOccurrence knows the kind of the occurrence.
hasAttestations(o) == o.known

\* Attestations fails as a whole when one occurrence has an unknown kind.
attestationsParse(occs, note, image) ==
    \A o \in noteOccurrences(occs, note, image) : hasAttestations(o)

\* GetValidatedAttestations returns at least one attestation.
hasValidatedAttestation(a, occs, image) ==
    \E o \in noteOccurrences(occs, a.note, image) : \E sig \in o.signatures :
        VerifyAttestation(sig, parsePublicKeys(a.keys), image)

\* A signature names the key that makes it.
sign(payload, key) == [publicKeyID |-> key, signedBy |-> key, payload |-> payload]

\* CreateAttestation signs a payload about the image with the key of the secret.
CreateAttestation(image, key) == sign(image, key)

\* The occurrence CreateAttestationOccurrence files for an image signed by key.
newOccurrence(note, image, key) ==
    [note |-> note, resource |-> image, known |-> TRUE,
     signatures |-> {CreateAttestation(image, key)}]

=============================================================================
