------------------------- MODULE VerificationProofs -------------------------
(***************************************************************************)
(* Proofs about Verification, for any number of clients, any jobs, any     *)
(* occurrences and any page size.                                          *)
(***************************************************************************)
EXTENDS Verification, FiniteSetTheorems, SequenceTheorems, WellFoundedInduction, TLAPS

(* Least and greatest numbers.                                             *)

\* A set of natural numbers has a least element: the initial segments of a
\* finite part of it are well founded under inclusion.
LEMMA Least ==
    ASSUME NEW S \in SUBSET Nat, S # {}
    PROVE  \E m \in S : \A n \in S : m <= n
<1> DEFINE upTo(x) == {y \in S : y <= x}
<1>1. PICK x0 \in S : TRUE  OBVIOUS
<1> DEFINE B == upTo(x0)
           T == {upTo(x) : x \in B}
<1>2. IsFiniteSet(B)  BY FS_BoundedSetOfNaturals
<1>3. ASSUME NEW x \in B PROVE upTo(x) \subseteq B
  <2>1. \A y \in S : y \in Nat  OBVIOUS
  <2>2. x \in Nat /\ x0 \in Nat /\ x <= x0  BY <2>1
  <2>3. ASSUME NEW y \in upTo(x) PROVE y \in B
    <3>1. y \in S /\ y \in Nat /\ y <= x  BY <2>1
    <3> QED  BY <2>2, <3>1
  <2> QED  BY <2>3
<1>4. T \subseteq FiniteSubsetsOf(B) /\ T # {}
  <2>1. \A X \in SUBSET B : IsFiniteSet(X)
    <3> HIDE DEF B
    <3> QED  BY <1>2, FS_Subset
  <2>2. x0 \in B  BY <1>1
  <2> HIDE DEF upTo, B
  <2> QED  BY <1>3, <2>1, <2>2 DEF FiniteSubsetsOf
<1>5. IsWellFoundedOn(StrictSubsetOrdering(B), FiniteSubsetsOf(B))
  BY FS_StrictSubsetOrderingWellFounded
<1>6. PICK X \in T : \A Y \in T : ~(<<Y, X>> \in StrictSubsetOrdering(B))
  <2> HIDE DEF T, B
  <2> QED BY <1>4, <1>5, WFMin
<1>7. PICK m \in B : X = upTo(m)  OBVIOUS
<1>8. ASSUME NEW n \in S, n < m PROVE FALSE
  <2>0. m \in Nat /\ n \in Nat /\ x0 \in Nat /\ m \in S /\ m <= x0  OBVIOUS
  <2>1. n \in B  BY <1>8, <2>0
  <2>2. upTo(n) \in T  BY <2>1
  <2>3. /\ \A y \in upTo(n) : y \in X
        /\ m \in X /\ m \notin upTo(n)
    BY <1>7, <1>8, <2>0
  <2>4. upTo(n) \subseteq B /\ X \subseteq B  BY <1>3, <1>7, <2>1
  <2> HIDE DEF upTo, T, B
  <2>5. <<upTo(n), X>> \in StrictSubsetOrdering(B)
    BY <2>3, <2>4 DEF StrictSubsetOrdering
  <2> QED  BY <1>6, <2>2, <2>5
<1> QED  BY <1>8

LEMMA Greatest ==
    ASSUME NEW S \in SUBSET Nat, S # {}, NEW b \in Nat, \A n \in S : n <= b
    PROVE  \E m \in S : \A n \in S : n <= m
<1> DEFINE D == {b - n : n \in S}
<1>1. D \in SUBSET Nat /\ D # {}
  <2>1. \A n \in S : b - n \in Nat
    <3>1. ASSUME NEW n \in S PROVE b - n \in Nat
      <4>1. n \in Nat /\ n <= b  OBVIOUS
      <4> QED  BY <4>1
    <3> QED  BY <3>1
  <2> QED  BY <2>1
<1>2. PICK d \in D : \A e \in D : d <= e
  <2> HIDE DEF D
  <2> QED  BY <1>1, Least
<1>3. PICK m \in S : d = b - m  OBVIOUS
<1>4. ASSUME NEW n \in S PROVE n <= m
  <2>1. b - n \in D  OBVIOUS
  <2> QED  BY <1>2, <1>3, <2>1
<1> QED  BY <1>4

LEMMA MaxOfBounded ==
    ASSUME NEW S \in SUBSET Nat, S # {}, NEW b \in Nat, \A n \in S : n <= b
    PROVE  Max(S) \in S /\ \A n \in S : n <= Max(S)
<1>1. \E m \in S : \A n \in S : m >= n  BY Greatest
<1>2. Max(S) \in S /\ \A n \in S : Max(S) >= n  BY <1>1 DEF Max
<1> QED  BY <1>2

-----------------------------------------------------------------------------
(* Allowlists.                                                             *)

\* A list has a match before any error exactly if it has one that no error
\* precedes.
LEMMA FirstIsMatch ==
    ASSUME NEW n \in Nat, NEW v, DOMAIN v = 1..n,
           \A i \in 1..n : v[i] \in {"match", "no", "error"}
    PROVE  firstIs(v, "match") <=> \E i \in 1..n : v[i] = "match" /\ \A j \in 1..i : v[j] # "error"
<1>1. ASSUME firstIs(v, "match")
      PROVE  \E i \in 1..n : v[i] = "match" /\ \A j \in 1..i : v[j] # "error"
  <2>1. PICK i \in 1..n : v[i] = "match" /\ \A j \in 1..i - 1 : v[j] = "no"
    BY <1>1 DEF firstIs
  <2>2. ASSUME NEW j \in 1..i PROVE v[j] # "error"
    <3>1. j = i \/ j \in 1..i - 1  OBVIOUS
    <3> QED  BY <2>1, <3>1
  <2> QED  BY <2>1, <2>2
<1>2. ASSUME NEW i \in 1..n, v[i] = "match", \A j \in 1..i : v[j] # "error"
      PROVE  firstIs(v, "match")
  <2> DEFINE S == {k \in 1..n : v[k] = "match"}
  <2>1. PICK m \in S : \A k \in S : m <= k
    <3>1. S \in SUBSET Nat /\ S # {}  BY <1>2
    <3> HIDE DEF S
    <3> QED  BY <3>1, Least
  <2>2. m <= i  BY <1>2, <2>1
  <2>3. ASSUME NEW j \in 1..m - 1 PROVE v[j] = "no"
    <3>1. j \in 1..n /\ j \in 1..i /\ ~(m <= j)  BY <2>2
    <3> QED  BY <1>2, <2>1, <3>1
  <2> QED  BY <2>1, <2>3 DEF firstIs
<1> QED  BY <1>1, <1>2

LEMMA ByReference ==
    ASSUME NEW image, NEW list, Len(list) \in Nat, DOMAIN list = 1..Len(list),
           \A i \in DOMAIN list : Repository[list[i]] # NoReference
    PROVE  imageInAllowlistByReference(image, list) <=>
              \E r \in Range(list) : Repository[r] = Repository[image] /\ Repository[r] # NoReference
<1> DEFINE v == [i \in DOMAIN list |-> imageRefMatch(image, list[i])]
<1>1. \A i \in 1..Len(list) :
         /\ v[i] \in {"match", "no", "error"}
         /\ v[i] = "error" <=> Repository[image] = NoReference
         /\ v[i] = "match" <=> /\ Repository[image] # NoReference
                               /\ Repository[image] = Repository[list[i]]
  BY DEF imageRefMatch
<1>2. firstIs(v, "match") <=> \E i \in 1..Len(list) : v[i] = "match" /\ \A j \in 1..i : v[j] # "error"
  <2>1. DOMAIN v = 1..Len(list)  OBVIOUS
  <2> HIDE DEF v
  <2> QED  BY <1>1, <2>1, FirstIsMatch
<1>3. imageInAllowlistByReference(image, list) <=> firstIs(v, "match")
  BY DEF imageInAllowlistByReference
<1> HIDE DEF v
<1>4. \A i \in 1..Len(list) : \A j \in 1..i : j \in 1..Len(list)  OBVIOUS
<1> QED  BY <1>1, <1>2, <1>3, <1>4 DEF Range

LEMMA LastIndexBound ==
    ASSUME NEW image \in Seq(STRING), NEW n \in Nat
    PROVE  LastIndex(image) <= n <=> \A k \in 1..Len(image) : image[k] = "/" => k <= n
<1> DEFINE I == {i \in 1..Len(image) : image[i] = "/"}
<1>1. LastIndex(image) = IF I # {} THEN Max(I) ELSE 0
  BY DEF LastIndex, SelectLastInSeq
<1>2. CASE I = {}  BY <1>1, <1>2
<1>3. CASE I # {}
  <2>1. I \in SUBSET Nat /\ Len(image) \in Nat /\ \A i \in I : i <= Len(image)  OBVIOUS
  <2>2. Max(I) \in I /\ \A i \in I : i <= Max(I)
    <3> HIDE DEF I
    <3> QED  BY <1>3, <2>1, MaxOfBounded
  <2>3. ASSUME Max(I) <= n, NEW k \in 1..Len(image), image[k] = "/" PROVE k <= n
    <3>1. k \in I  BY <2>3
    <3>2. k <= Max(I) /\ Max(I) \in Nat  BY <2>2, <3>1
    <3> QED  BY <2>3, <3>2
  <2>4. ASSUME \A k \in 1..Len(image) : image[k] = "/" => k <= n PROVE Max(I) <= n
    BY <2>2, <2>4
  <2> QED  BY <1>1, <1>3, <2>3, <2>4
<1> QED  BY <1>2, <1>3

\* A pattern matches exactly the images it stands for.
LEMMA PatternMatch ==
    ASSUME NEW image \in Seq(STRING), NEW pattern \in Seq(STRING)
    PROVE  /\ imageNamePatternMatch(image, pattern) \in {"match", "no", "error"}
           /\ imageNamePatternMatch(image, pattern) = "error" <=> pattern = <<>>
           /\ imageNamePatternMatch(image, pattern) = "match" <=> Denotes(pattern, image)
<1>1. CASE pattern = <<>>  BY <1>1 DEF imageNamePatternMatch, Denotes
<1>2. CASE pattern # <<>> /\ Last(pattern) # "*"
  BY <1>2 DEF imageNamePatternMatch, Denotes
<1>3. CASE pattern # <<>> /\ Last(pattern) = "*"
  <2> DEFINE n == Len(pattern) - 1
  <2>1. n \in Nat /\ Len(image) \in Nat  BY <1>3
  <2>2. Front(pattern) \in Seq(STRING) /\ Len(Front(pattern)) = n
    <3>1. n \in Int /\ 1 \in Int /\ \A i \in 1..n : pattern[i] \in STRING  BY <2>1
    <3> HIDE DEF n
    <3>2. SubSeq(pattern, 1, n) \in Seq(STRING) /\ Len(SubSeq(pattern, 1, n)) = n
      BY <2>1, <3>1, SubSeqProperties
    <3> QED  BY <3>2 DEF Front, n
  <2>3. SubSeq(Front(pattern), 1, Len(Front(pattern))) = Front(pattern)
    BY <2>2, SubSeqFull
  <2>4. \A k \in 0..Len(image) : Len(SubSeq(image, 1, k)) = k
    BY <2>1
  <2>5. Denotes(pattern, image) <=>
           /\ n <= Len(image) /\ SubSeq(image, 1, n) = Front(pattern)
           /\ "/" \notin Range(SubSeq(image, n + 1, Len(image)))
    <3> HIDE DEF n
    <3> QED  BY <1>3, <2>1, <2>2, <2>4 DEF Denotes
  <2>6. n <= Len(image) =>
           ("/" \notin Range(SubSeq(image, n + 1, Len(image))) <=> LastIndex(image) <= n)
    <3> SUFFICES ASSUME n <= Len(image)
                 PROVE  "/" \notin Range(SubSeq(image, n + 1, Len(image))) <=> LastIndex(image) <= n
      OBVIOUS
    <3> DEFINE t == SubSeq(image, n + 1, Len(image))
    <3>1. /\ DOMAIN t = 1..Len(image) - n
          /\ \A i \in 1..Len(image) - n : t[i] = image[n + i]
      BY <2>1
    <3> HIDE DEF n, t
    <3>2. "/" \in Range(t) <=> \E k \in 1..Len(image) : image[k] = "/" /\ k > n
      <4>1. ASSUME "/" \in Range(t) PROVE \E k \in 1..Len(image) : image[k] = "/" /\ k > n
        <5>1. PICK i \in 1..Len(image) - n : t[i] = "/"  BY <3>1, <4>1 DEF Range
        <5>2. n + i \in 1..Len(image) /\ n + i > n  BY <2>1
        <5> QED  BY <3>1, <5>1, <5>2
      <4>2. ASSUME NEW k \in 1..Len(image), image[k] = "/", k > n PROVE "/" \in Range(t)
        <5>1. k - n \in 1..Len(image) - n /\ n + (k - n) = k  BY <2>1, <4>2
        <5> QED  BY <3>1, <4>2, <5>1 DEF Range
      <4> QED  BY <4>1, <4>2
    <3>3. LastIndex(image) <= n <=> \A k \in 1..Len(image) : image[k] = "/" => k <= n
      BY <2>1, LastIndexBound
    <3>4. \A k \in 1..Len(image) : k <= n <=> ~(k > n)  BY <2>1
    <3> QED  BY <3>2, <3>3, <3>4 DEF t
  <2> HIDE DEF n
  <2>7. IsPrefix(Front(pattern), image) <=> n <= Len(image) /\ SubSeq(image, 1, n) = Front(pattern)
    BY <2>2, <2>3 DEF IsPrefix
  <2>8. imageNamePatternMatch(image, pattern) =
           IF IsPrefix(Front(pattern), image) /\ LastIndex(image) <= n THEN "match" ELSE "no"
    BY <1>3 DEF imageNamePatternMatch, n
  <2> QED  BY <1>3, <2>5, <2>6, <2>7, <2>8
<1> QED  BY <1>1, <1>2, <1>3

LEMMA ByPattern ==
    ASSUME NEW image \in Seq(STRING), NEW list \in Seq(Seq(STRING))
    PROVE  imageInAllowlistByPattern(image, list) <=>
              \E i \in DOMAIN list : /\ \A k \in 1..i : list[k] # <<>>
                                     /\ Denotes(list[i], image)
<1> DEFINE v == [i \in DOMAIN list |-> imageNamePatternMatch(image, list[i])]
<1>1. DOMAIN list = 1..Len(list) /\ Len(list) \in Nat /\ \A i \in 1..Len(list) : list[i] \in Seq(STRING)
  OBVIOUS
<1>2. \A i \in 1..Len(list) :
         /\ v[i] \in {"match", "no", "error"}
         /\ v[i] = "error" <=> list[i] = <<>>
         /\ v[i] = "match" <=> Denotes(list[i], image)
  BY <1>1, PatternMatch
<1>3. firstIs(v, "match") <=> \E i \in 1..Len(list) : v[i] = "match" /\ \A j \in 1..i : v[j] # "error"
  <2>1. DOMAIN v = 1..Len(list)  BY <1>1
  <2> HIDE DEF v
  <2> QED  BY <1>1, <1>2, <2>1, FirstIsMatch
<1>4. imageInAllowlistByPattern(image, list) <=> firstIs(v, "match")
  BY DEF imageInAllowlistByPattern
<1> HIDE DEF v
<1>5. \A i \in 1..Len(list) : \A j \in 1..i : j \in 1..Len(list)  BY <1>1
<1> QED  BY <1>1, <1>2, <1>3, <1>4, <1>5

\* What allowed decides is what SkipsTheAllowed asks for.
onList(j) ==
    \/ \E r \in Range(GlobalImageAllowlist) :
          Repository[r] = Repository[j.image] /\ Repository[r] # NoReference
    \/ \E i \in DOMAIN j.allowlist :
          /\ \A k \in 1..i : j.allowlist[k] # <<>>
          /\ Denotes(j.allowlist[i], j.image)

LEMMA AllowedIsOnList ==
    ASSUME NEW j, wellFormed(j)
    PROVE  allowed(j) <=> onList(j)
<1>1. imageInAllowlistByReference(j.image, GlobalImageAllowlist) <=>
         \E r \in Range(GlobalImageAllowlist) :
            Repository[r] = Repository[j.image] /\ Repository[r] # NoReference
  BY VerificationAssumption, ByReference
<1>2. imageInAllowlistByPattern(j.image, j.allowlist) <=>
         \E i \in DOMAIN j.allowlist :
            /\ \A k \in 1..i : j.allowlist[k] # <<>>
            /\ Denotes(j.allowlist[i], j.image)
  BY ByPattern DEF wellFormed
<1> QED  BY <1>1, <1>2 DEF allowed, onList

-----------------------------------------------------------------------------
(* The metadata client.                                                    *)

\* Whoever has made a client once never panics over it.
LEMMA ClientNeverPanics ==
    ASSUME NEW config, NEW d, NEW e, NEW a, NEW b, MetadataClient(config, d, a) = "ok"
    PROVE  MetadataClient(config, e, b) # "panic"
<1>1. CASE config.Metadata = GrafeasMetadata
  <2>1. New(config.Addr, config.Certs, d) = "ok"
    BY <1>1 DEF MetadataClient, GrafeasMetadata, ContainerAnalysisMetadata
  <2>2. config.Addr = "/socket" \/ (config.Addr # "" /\ config.Certs = "paths")
    BY <2>1 DEF New, ValidateConfig
  <2>3. New(config.Addr, config.Certs, e) # "panic"
    BY <2>2 DEF New, ValidateConfig, nilCerts
  <2> QED  BY <1>1, <2>3 DEF MetadataClient, GrafeasMetadata, ContainerAnalysisMetadata
<1>2. CASE config.Metadata # GrafeasMetadata
  BY <1>2 DEF MetadataClient, NewCache, GrafeasMetadata, ContainerAnalysisMetadata
<1> QED  BY <1>1, <1>2

LEMMA JobStarted ==
    ASSUME NEW config, NEW d, NEW ok, StartCronJob(config, d, ok) = "ok"
    PROVE  MetadataClient(config, d, ok) = "ok"
BY DEF StartCronJob

-----------------------------------------------------------------------------
(* Signatures.                                                             *)

\* Keys come well made from NewPublicKey.
LEMMA NewPublicKeyWellMade ==
    ASSUME NEW type, NEW alg, NEW pem, NEW keyID
    PROVE  wellMade(NewPublicKey(type, alg, pem, keyID))
BY DEF wellMade, NewPublicKey, ErrorID, Error

Supported == RsaPss \cup RsaSignPkcs1 \cup Ecdsa

\* The padding an algorithm asks for.
schemeOf(alg) ==
    IF alg \in RsaPss THEN "PSS" ELSE IF alg \in RsaSignPkcs1 THEN "PKCS1v15" ELSE "ECDSA"

\* The JWA name tells padding and hash, and nothing else.
LEMMA AlgName ==
    ASSUME NEW alg \in Supported
    PROVE  /\ getAlgName(alg) = "PS256" <=> schemeOf(alg) = "PSS" /\ hashPayload(alg) = "SHA256"
           /\ getAlgName(alg) = "PS512" <=> schemeOf(alg) = "PSS" /\ hashPayload(alg) = "SHA512"
           /\ getAlgName(alg) = "RS256" <=> schemeOf(alg) = "PKCS1v15" /\ hashPayload(alg) = "SHA256"
           /\ getAlgName(alg) = "RS512" <=> schemeOf(alg) = "PKCS1v15" /\ hashPayload(alg) = "SHA512"
           /\ getAlgName(alg) = "ES256" <=> schemeOf(alg) = "ECDSA" /\ hashPayload(alg) = "SHA256"
           /\ getAlgName(alg) = "ES384" <=> schemeOf(alg) = "ECDSA" /\ hashPayload(alg) = "SHA384"
           /\ getAlgName(alg) = "ES512" <=> schemeOf(alg) = "ECDSA" /\ hashPayload(alg) = "SHA512"
           /\ getAlgName(alg) \in {"PS256", "PS512", "RS256", "RS512", "ES256", "ES384", "ES512"}
<1>1. CASE alg \in {"RsaPss2048Sha256", "RsaPss3072Sha256", "RsaPss4096Sha256"}
  <2>1. schemeOf(alg) = "PSS"  BY <1>1 DEF schemeOf, RsaPss
  <2>2. hashPayload(alg) = "SHA256"
    BY <1>1 DEF hashPayload, Sha256Algorithms, Sha512Algorithms, RsaPss
  <2>3. getAlgName(alg) = "PS256"  BY <1>1 DEF getAlgName, RsaPss, RsaSignPkcs1, Sha512Algorithms
  <2> QED  BY <2>1, <2>2, <2>3
<1>2. CASE alg = "RsaPss4096Sha512"
  <2>1. schemeOf(alg) = "PSS"  BY <1>2 DEF schemeOf, RsaPss
  <2>2. hashPayload(alg) = "SHA512"
    BY <1>2 DEF hashPayload, Sha256Algorithms, Sha512Algorithms, RsaPss
  <2>3. getAlgName(alg) = "PS512"  BY <1>2 DEF getAlgName, RsaPss, RsaSignPkcs1, Sha512Algorithms
  <2> QED  BY <2>1, <2>2, <2>3
<1>3. CASE alg \in {"RsaSignPkcs12048Sha256", "RsaSignPkcs13072Sha256", "RsaSignPkcs14096Sha256"}
  <2>1. schemeOf(alg) = "PKCS1v15"  BY <1>3 DEF schemeOf, RsaPss, RsaSignPkcs1
  <2>2. hashPayload(alg) = "SHA256"
    BY <1>3 DEF hashPayload, Sha256Algorithms, Sha512Algorithms, RsaSignPkcs1
  <2>3. getAlgName(alg) = "RS256"  BY <1>3 DEF getAlgName, RsaPss, RsaSignPkcs1, Sha512Algorithms
  <2> QED  BY <2>1, <2>2, <2>3
<1>4. CASE alg = "RsaSignPkcs14096Sha512"
  <2>1. schemeOf(alg) = "PKCS1v15"  BY <1>4 DEF schemeOf, RsaPss, RsaSignPkcs1
  <2>2. hashPayload(alg) = "SHA512"
    BY <1>4 DEF hashPayload, Sha256Algorithms, Sha512Algorithms, RsaSignPkcs1
  <2>3. getAlgName(alg) = "RS512"  BY <1>4 DEF getAlgName, RsaPss, RsaSignPkcs1, Sha512Algorithms
  <2> QED  BY <2>1, <2>2, <2>3
<1>5. CASE alg \in Ecdsa
  <2>1. schemeOf(alg) = "ECDSA"  BY <1>5 DEF schemeOf, RsaPss, RsaSignPkcs1, Ecdsa
  <2>2. CASE alg = "EcdsaP256Sha256"
    <3>1. hashPayload(alg) = "SHA256"
      BY <2>2 DEF hashPayload, Sha256Algorithms, Sha512Algorithms, Ecdsa
    <3>2. getAlgName(alg) = "ES256"  BY <2>2 DEF getAlgName, RsaPss, RsaSignPkcs1
    <3> QED  BY <2>1, <3>1, <3>2
  <2>3. CASE alg = "EcdsaP384Sha384"
    <3>1. hashPayload(alg) = "SHA384"
      BY <2>3 DEF hashPayload, Sha256Algorithms, Sha512Algorithms
    <3>2. getAlgName(alg) = "ES384"  BY <2>3 DEF getAlgName, RsaPss, RsaSignPkcs1
    <3> QED  BY <2>1, <3>1, <3>2
  <2>4. CASE alg = "EcdsaP521Sha512"
    <3>1. hashPayload(alg) = "SHA512"
      BY <2>4 DEF hashPayload, Sha256Algorithms, Sha512Algorithms
    <3>2. getAlgName(alg) = "ES512"  BY <2>4 DEF getAlgName, RsaPss, RsaSignPkcs1
    <3> QED  BY <2>1, <3>1, <3>2
  <2> QED  BY <1>5, <2>2, <2>3, <2>4 DEF Ecdsa
<1> QED  BY <1>1, <1>2, <1>3, <1>4, <1>5 DEF Supported, RsaPss, RsaSignPkcs1

\* What is not supported has neither a hash nor a name.
LEMMA NotSupported ==
    ASSUME NEW alg \in SignatureAlgorithm \ Supported
    PROVE  hashPayload(alg) = Error /\ getAlgName(alg) = "Algorithm Not Supported"
<1>1. alg \in {"UnknownSigningAlgorithm", "PGPUnused"}
  BY DEF SignatureAlgorithm, Supported
<1>2. alg \notin RsaPss /\ alg \notin RsaSignPkcs1 /\ alg \notin Ecdsa /\ alg \notin Sha512Algorithms
  BY <1>1 DEF RsaPss, RsaSignPkcs1, Ecdsa, Sha512Algorithms
<1>3. alg # "EcdsaP256Sha256" /\ alg # "EcdsaP384Sha384" /\ alg # "EcdsaP521Sha512"
  BY <1>1
<1> QED  BY <1>2, <1>3 DEF hashPayload, getAlgName, Sha256Algorithms

\* A signature that was made names scheme, hash, key and payload.
LEMMA DetachedSignature ==
    ASSUME NEW s, NEW payload, s.alg \in SignatureAlgorithm,
           s.kind = "kms" => s.pem.key.type = IF s.alg \in Ecdsa THEN "ecdsa" ELSE "rsa",
           NEW att, ~failed(att),
           \/ s.kind = "pkix" /\ att = pkixAttestation(s, payload)
           \/ s.kind = "kms" /\ att = kmsAttestation(s, payload)
    PROVE  /\ s.alg \in Supported
           /\ att.Signature.scheme = schemeOf(s.alg)
           /\ att.Signature.hash = hashPayload(s.alg)
           /\ att.Signature.by = s.pem.key.id
           /\ att.Signature.payload = payload
           /\ s.pem.key.type = IF s.alg \in Ecdsa THEN "ecdsa" ELSE "rsa"
<1>0. \A alg \in Ecdsa : alg \notin RsaPss /\ alg \notin RsaSignPkcs1
  BY DEF Ecdsa, RsaPss, RsaSignPkcs1
<1>1. failed(NoAttestation(ErrorID)) /\ failed(NoAttestation(PanicID))
  BY DEF failed, NoAttestation
<1>2. CASE s.kind = "kms" /\ att = kmsAttestation(s, payload)
  <2>1. s.digestAlg \in {"SHA256", "SHA384", "SHA512"} /\ hashPayload(s.alg) = s.digestAlg
    BY <1>1, <1>2 DEF kmsAttestation
  <2>2. s.alg \in Supported  BY <2>1, NotSupported DEF Error
  <2>3. att = [PublicKeyID |-> <<"kms", s.pem.key.id>>, SerializedPayload |-> payload,
               Signature |-> IF s.alg \in Ecdsa THEN ecSign(s.pem.key, payload, s.alg)
                             ELSE rsaSign(s.pem.key, payload, s.alg)]
    BY <1>2, <2>1 DEF kmsAttestation
  <2> QED  BY <1>0, <1>2, <2>2, <2>3 DEF ecSign, rsaSign, signature, schemeOf, Supported
<1>3. CASE s.kind = "pkix" /\ att = pkixAttestation(s, payload)
  <2> DEFINE id == NewPkixSigner(s)
             key == s.pem.key
             made(sig) == [PublicKeyID |-> id, Signature |-> sig, SerializedPayload |-> payload]
  <2>1. att = CASE id \in {ErrorID, PanicID} -> NoAttestation(id)
                [] id \notin {ErrorID, PanicID} /\ s.alg \in RsaPss \cup RsaSignPkcs1 /\ key.type = "rsa" ->
                      made(rsaSign(key, payload, s.alg))
                [] id \notin {ErrorID, PanicID} /\ s.alg \in Ecdsa /\ key.type = "ecdsa" ->
                      made(ecSign(key, payload, s.alg))
                [] OTHER -> NoAttestation(ErrorID)
    BY <1>3, Zenon DEF pkixAttestation
  <2>2. id \in {ErrorID, PanicID} => failed(NoAttestation(id))  BY <1>1
  <2> HIDE DEF id
  <2>3. \/ /\ s.alg \in RsaPss \cup RsaSignPkcs1 /\ key.type = "rsa"
           /\ att = made(rsaSign(key, payload, s.alg))
        \/ /\ s.alg \in Ecdsa /\ key.type = "ecdsa"
           /\ att = made(ecSign(key, payload, s.alg))
    <3> HIDE DEF made
    <3> QED  BY <1>0, <1>1, <2>1, <2>2
  <2> QED  BY <1>0, <2>3 DEF ecSign, rsaSign, signature, schemeOf, Supported
<1> QED  BY <1>2, <1>3

\* A detached signature verifies under its own key and payload, and under the
\* algorithms that share its padding and its hash.
LEMMA DetachedVerifies ==
    ASSUME NEW s, NEW payload, s.alg \in SignatureAlgorithm, s.pem.key \in [type : STRING, id : STRING],
           s.kind = "kms" => s.pem.key.type = IF s.alg \in Ecdsa THEN "ecdsa" ELSE "rsa",
           NEW att, ~failed(att),
           \/ s.kind = "pkix" /\ att = pkixAttestation(s, payload)
           \/ s.kind = "kms" /\ att = kmsAttestation(s, payload),
           NEW key \in [type : STRING, id : STRING], NEW alg \in SignatureAlgorithm, NEW q
    PROVE  verifyDetached(att.Signature, [blocks |-> 1, key |-> key], alg, q)
              <=> key = s.pem.key /\ q = payload /\ getAlgName(alg) = getAlgName(s.alg)
<1>1. /\ s.alg \in Supported
      /\ att.Signature.scheme = schemeOf(s.alg) /\ att.Signature.hash = hashPayload(s.alg)
      /\ att.Signature.by = s.pem.key.id /\ att.Signature.payload = payload
      /\ s.pem.key.type = IF s.alg \in Ecdsa THEN "ecdsa" ELSE "rsa"
  BY DetachedSignature
<1>2. \A a \in Supported : /\ a \in Ecdsa <=> schemeOf(a) = "ECDSA"
                           /\ a \in RsaPss <=> schemeOf(a) = "PSS"
                           /\ a \in RsaSignPkcs1 <=> schemeOf(a) = "PKCS1v15"
                           /\ schemeOf(a) \in {"ECDSA", "PSS", "PKCS1v15"}
  BY DEF Supported, schemeOf, Ecdsa, RsaPss, RsaSignPkcs1
<1>3. CASE alg \in Supported
  <2>1. getAlgName(alg) = getAlgName(s.alg) <=>
           schemeOf(alg) = schemeOf(s.alg) /\ hashPayload(alg) = hashPayload(s.alg)
    BY <1>1, <1>3, AlgName
  <2>2. key = s.pem.key <=> key.type = s.pem.key.type /\ key.id = s.pem.key.id
    OBVIOUS
  <2>3. verifyDetached(att.Signature, [blocks |-> 1, key |-> key], alg, q) <=>
           /\ schemeOf(alg) = schemeOf(s.alg)
           /\ key.type = IF alg \in Ecdsa THEN "ecdsa" ELSE "rsa"
           /\ hashPayload(s.alg) = hashPayload(alg)
           /\ s.pem.key.id = key.id /\ payload = q
    BY <1>1, <1>2, <1>3 DEF verifyDetached
  <2> QED  BY <1>1, <1>2, <1>3, <2>1, <2>2, <2>3
<1>4. CASE alg \notin Supported
  <2>1. getAlgName(alg) # getAlgName(s.alg)  BY <1>1, <1>4, AlgName, NotSupported
  <2>2. ~verifyDetached(att.Signature, [blocks |-> 1, key |-> key], alg, q)
    BY <1>4 DEF verifyDetached, Supported
  <2> QED  BY <2>1, <2>2
<1> QED  BY <1>3, <1>4

-----------------------------------------------------------------------------
(* The view of Admission and Cron.                                         *)

\* VerifyAttestation as this module has it, for a job.
verified(o, j) == VerifyAttestation(o.att, j.keys, NewAtomicContainerSig(j.image))

\* The IDs Admission's verifier indexes its keys by are those of the PGP keys.
LEMMA ParsedKeys ==
    ASSUME NEW j
    PROVE  Review!parsePublicKeys(authorityOf(j).keys) =
              {j.keys[i].ID : i \in {i \in DOMAIN j.keys : j.keys[i].AuthenticatorType = "Pgp"}}
<1> DEFINE seen(k) == [KeyType |-> IF k.AuthenticatorType = "Pgp" THEN "PGP" ELSE "PKIX",
                       pkix |-> k.AuthenticatorType # "Pgp", armored |-> {k.ID}]
           usable(x) == x.KeyType = "PGP" /\ Review!validatePublicKey(x) /\ Review!NewPublicKey(x.armored)
           K == {seen(k) : k \in Range(j.keys)}
<1>1. authorityOf(j).keys = K  BY DEF authorityOf
<1>2. \A k : usable(seen(k)) <=> k.AuthenticatorType = "Pgp"
  BY DEF Review!validatePublicKey, Review!NewPublicKey, Review!KeyAndFingerprint
<1>3. \A k : seen(k).armored = {k.ID}  OBVIOUS
<1>4. Review!parsePublicKeys(K) = UNION {k.armored : k \in {x \in K : usable(x)}}
  BY DEF Review!parsePublicKeys
<1> HIDE DEF seen, usable
<1>5. ASSUME NEW id PROVE id \in UNION {k.armored : k \in {x \in K : usable(x)}} <=>
                          \E i \in DOMAIN j.keys : j.keys[i].AuthenticatorType = "Pgp" /\ id = j.keys[i].ID
  <2>1. id \in UNION {k.armored : k \in {x \in K : usable(x)}} <=>
           \E k \in Range(j.keys) : usable(seen(k)) /\ id \in seen(k).armored
    OBVIOUS
  <2> QED  BY <1>2, <1>3, <2>1 DEF Range
<1> HIDE DEF K
<1> QED  BY <1>1, <1>4, <1>5

\* The signature of an occurrence, seen the way Admission sees it, passes the
\* check there exactly if it passes the check here: the last key of that ID is
\* a PGP key, and it has made the signature, over this image.
LEMMA VerifySame ==
    ASSUME NEW j, wellFormed(j), NEW att
    PROVE  VerifyAttestation(att, j.keys, NewAtomicContainerSig(j.image)) <=>
              Review!VerifyAttestation(
                 [publicKeyID |-> att.PublicKeyID,
                  signedBy |-> IF att.Signature.scheme = "PGP"
                               THEN <<"fingerprint", att.Signature.by>> ELSE <<Review!Forged, "">>,
                  payload |-> IF att.Signature.payload = NewAtomicContainerSig(j.image)
                              THEN j.image ELSE <<>>],
                 Review!parsePublicKeys(authorityOf(j).keys), j.image)
<1> DEFINE named == {i \in DOMAIN j.keys : j.keys[i].ID = att.PublicKeyID}
           pgp == {j.keys[i].ID : i \in {i \in DOMAIN j.keys : j.keys[i].AuthenticatorType = "Pgp"}}
           k == j.keys[Max(named)]
<1>0. j.image # <<>>  BY DEF wellFormed
<1>1. named # {} => Max(named) \in named
  <2>1. named \in SUBSET Nat /\ Len(j.keys) \in Nat /\ \A i \in named : i <= Len(j.keys)
    BY DEF wellFormed
  <2> HIDE DEF named
  <2> QED  BY <2>1, MaxOfBounded
<1>2. \A i \in DOMAIN j.keys : wellMade(j.keys[i])  BY DEF wellFormed
<1>3. VerifyAttestation(att, j.keys, NewAtomicContainerSig(j.image)) <=>
         /\ named # {} /\ k.AuthenticatorType = "Pgp"
         /\ att.Signature.scheme = "PGP" /\ att.Signature.by = k.KeyData.key.id
         /\ att.Signature.payload = NewAtomicContainerSig(j.image)
  BY DEF VerifyAttestation, verifyPkix, verifyJwt, verifyPgp, implemented
<1>4. Review!VerifyAttestation(
         [publicKeyID |-> att.PublicKeyID,
          signedBy |-> IF att.Signature.scheme = "PGP"
                       THEN <<"fingerprint", att.Signature.by>> ELSE <<Review!Forged, "">>,
          payload |-> IF att.Signature.payload = NewAtomicContainerSig(j.image)
                      THEN j.image ELSE <<>>],
         Review!parsePublicKeys(authorityOf(j).keys), j.image) <=>
         /\ att.PublicKeyID \in pgp
         /\ att.PublicKeyID = IF att.Signature.scheme = "PGP"
                              THEN <<"fingerprint", att.Signature.by>> ELSE <<"forged", "">>
         /\ att.Signature.payload = NewAtomicContainerSig(j.image)
  BY <1>0, ParsedKeys DEF Review!VerifyAttestation, Review!verifyPgp,
     Review!checkAuthenticatedAttestation, Review!Forged
<1>5. ASSUME named # {} PROVE wellMade(k) /\ k.ID = att.PublicKeyID
  BY <1>1, <1>2, <1>5
<1>6. ASSUME named # {}, k.AuthenticatorType = "Pgp",
             att.Signature.scheme = "PGP", att.Signature.by = k.KeyData.key.id
      PROVE  att.PublicKeyID \in pgp /\ att.PublicKeyID = <<"fingerprint", att.Signature.by>>
  <2>1. Max(named) \in DOMAIN j.keys  BY <1>1, <1>6
  <2>2. k.ID = <<"fingerprint", k.KeyData.key.id>>  BY <1>5, <1>6 DEF wellMade
  <2> HIDE DEF named
  <2> QED  BY <1>5, <1>6, <2>1, <2>2
<1>7. ASSUME att.PublicKeyID \in pgp,
             att.PublicKeyID = IF att.Signature.scheme = "PGP"
                               THEN <<"fingerprint", att.Signature.by>> ELSE <<"forged", "">>
      PROVE  /\ named # {} /\ k.AuthenticatorType = "Pgp"
             /\ att.Signature.scheme = "PGP" /\ att.Signature.by = k.KeyData.key.id
  <2>1. PICK i \in DOMAIN j.keys : j.keys[i].AuthenticatorType = "Pgp" /\ j.keys[i].ID = att.PublicKeyID
    BY <1>7
  <2>2. named # {} /\ att.PublicKeyID = <<"fingerprint", j.keys[i].KeyData.key.id>>
    BY <1>2, <2>1 DEF wellMade
  <2> HIDE DEF named
  <2>3. att.PublicKeyID[1] = "fingerprint"  BY <2>2
  <2>4. k.AuthenticatorType = "Pgp"  BY <1>5, <2>2, <2>3 DEF wellMade
  <2>5. att.Signature.scheme = "PGP"
    <3>1. <<"forged", "">>[1] # "fingerprint"  OBVIOUS
    <3> QED  BY <1>7, <2>3, <3>1
  <2>6. k.ID = <<"fingerprint", k.KeyData.key.id>>  BY <1>5, <2>2, <2>4 DEF wellMade
  <2>7. <<"fingerprint", k.KeyData.key.id>> = <<"fingerprint", att.Signature.by>>
    BY <1>5, <1>7, <2>2, <2>5, <2>6
  <2> QED  BY <2>2, <2>4, <2>5, <2>7
<1> HIDE DEF named, pgp, k
<1> QED  BY <1>3, <1>4, <1>6, <1>7

found(S, j) == Review!hasValidatedAttestation(authorityOf(j), asSeen(S, j), j.image)

\* So the one-step lookup of Admission finds a validated attestation exactly if
\* one of the occurrences verifies.
LEMMA FoundIsVerified ==
    ASSUME NEW j, wellFormed(j), NEW S, \A o \in S : o.note = j.note
    PROVE  found(S, j) <=> \E o \in S : verified(o, j)
<1> DEFINE sig(o) == [publicKeyID |-> o.att.PublicKeyID,
                      signedBy |-> IF o.att.Signature.scheme = "PGP"
                                   THEN <<"fingerprint", o.att.Signature.by>>
                                   ELSE <<Review!Forged, "">>,
                      payload |-> IF o.att.Signature.payload = NewAtomicContainerSig(j.image)
                                  THEN j.image ELSE <<>>]
           seen(o) == [note |-> o.note, resource |-> j.image, known |-> known(o),
                       signatures |-> {sig(o)}]
           ids == Review!parsePublicKeys(authorityOf(j).keys)
<1>1. asSeen(S, j) = {seen(o) : o \in S}  BY DEF asSeen
<1>2. authorityOf(j).note = j.note  BY DEF authorityOf
<1>3. \A o : verified(o, j) <=> Review!VerifyAttestation(sig(o), ids, j.image)
  BY VerifySame DEF verified
<1> HIDE DEF sig, ids
<1>4. \A o \in S : /\ seen(o).note = j.note /\ seen(o).resource = j.image
                   /\ seen(o).signatures = {sig(o)}
  OBVIOUS
<1>5. found(S, j) <=> \E x \in asSeen(S, j) : /\ x.note = j.note /\ x.resource = j.image
                                              /\ \E t \in x.signatures : Review!VerifyAttestation(t, ids, j.image)
  BY <1>2 DEF found, Review!hasValidatedAttestation, Review!noteOccurrences, ids
<1> HIDE DEF seen
<1> QED  BY <1>1, <1>3, <1>4, <1>5

LEMMA ParsesIsParse ==
    ASSUME NEW j, NEW S, NEW T \in SUBSET S, \A o \in S : o.note = j.note,
           Review!attestationsParse(asSeen(S, j), j.note, j.image)
    PROVE  parses(T)
<1>1. ASSUME NEW o \in T PROVE known(o)
  <2>1. PICK x \in asSeen(S, j) : x.note = o.note /\ x.resource = j.image
                                  /\ x.known = known(o)
    <3> DEFINE sigs(p) == {[publicKeyID |-> p.att.PublicKeyID,
                            signedBy |-> IF p.att.Signature.scheme = "PGP"
                                         THEN <<"fingerprint", p.att.Signature.by>>
                                         ELSE <<Review!Forged, "">>,
                            payload |-> IF p.att.Signature.payload = NewAtomicContainerSig(j.image)
                                        THEN j.image ELSE <<>>]}
               seen(p) == [note |-> p.note, resource |-> j.image, known |-> known(p),
                           signatures |-> sigs(p)]
    <3>1. asSeen(S, j) = {seen(p) : p \in S}  BY DEF asSeen
    <3> HIDE DEF sigs
    <3>2. seen(o) \in {seen(p) : p \in S}  OBVIOUS
    <3>3. seen(o).note = o.note /\ seen(o).resource = j.image /\ seen(o).known = known(o)
      OBVIOUS
    <3> HIDE DEF seen
    <3> QED  BY <3>1, <3>2, <3>3
  <2>2. x.known  BY <2>1 DEF Review!attestationsParse, Review!noteOccurrences, Review!hasAttestations
  <2> QED  BY <2>1, <2>2
<1> QED  BY <1>1 DEF parses

-----------------------------------------------------------------------------
(* Pages.                                                                  *)

\* Every occurrence has a place of its own.
PlacesInv ==
    /\ IsFiniteSet(occurrences) /\ last \in Nat
    /\ \A o, p \in occurrences : o.place = p.place => o = p
    /\ \A o \in occurrences : o.place \in 1..last

\* A page holds what the client asks for, and misses nothing that is behind the
\* token of the request and not behind the token of the reply.
LEMMA PageFacts ==
    ASSUME PlacesInv, NEW c, NEW r \in Pages(c), frame[c].token \in Nat
    PROVE  /\ r.page \subseteq Listed(c, occurrences) /\ IsFiniteSet(r.page) /\ r.token \in Nat
           /\ \A o \in Listed(c, occurrences) :
                 o.place > frame[c].token => o \in r.page \/ (r.token # 0 /\ o.place > r.token)
<1> DEFINE L == Listed(c, occurrences)
           rest == {o \in L : o.place > frame[c].token}
           upTo(t) == {o \in rest : o.place <= t}
           ends == {t \in (frame[c].token + 1)..(last + 1) : Cardinality(upTo(t)) <= PageSize}
<1>1. L \subseteq occurrences  BY DEF Listed
<1>2. /\ \A S \in SUBSET occurrences : IsFiniteSet(S)
      /\ last \in Nat /\ \A o \in L : o.place \in 1..last
  BY <1>1, FS_Subset DEF PlacesInv
<1> HIDE DEF L
<1>3. \/ r \in {[page |-> upTo(t), token |-> t] : t \in ends}
      \/ r \in {[page |-> rest, token |-> 0] : n \in {PageSize} \cap Cardinality(rest)..PageSize}
  BY DEF Pages, L
<1>4. CASE r \in {[page |-> upTo(t), token |-> t] : t \in ends}
  <2>1. PICK t \in ends : r = [page |-> upTo(t), token |-> t]  BY <1>4
  <2>2. t \in Nat /\ t # 0
    <3>1. t \in (frame[c].token + 1)..(last + 1)  OBVIOUS
    <3> QED  BY <1>2, <3>1
  <2>3. r.page = upTo(t) /\ r.token = t  BY <2>1
  <2>4. upTo(t) \in SUBSET L /\ upTo(t) \in SUBSET occurrences  BY <1>1
  <2>5. ASSUME NEW o \in L, o.place > frame[c].token PROVE o \in upTo(t) \/ o.place > t
    <3>1. o.place \in Nat  BY <1>2
    <3> QED  BY <2>2, <2>5, <3>1
  <2> HIDE DEF rest, upTo, ends
  <2> QED  BY <1>2, <2>2, <2>3, <2>4, <2>5 DEF L
<1>5. CASE r \in {[page |-> rest, token |-> 0] : n \in {PageSize} \cap Cardinality(rest)..PageSize}
  <2>1. r = [page |-> rest, token |-> 0]
    <3> HIDE DEF rest
    <3> QED  BY <1>5
  <2>2. rest \in SUBSET occurrences /\ rest \subseteq L
        /\ \A o \in L : o.place > frame[c].token => o \in rest
    BY <1>1
  <2> HIDE DEF rest
  <2> QED  BY <1>2, <2>1, <2>2 DEF L
<1> QED  BY <1>3, <1>4, <1>5

-----------------------------------------------------------------------------
(* The invariant.                                                          *)

\* A record with the fields of a frame.
isFrame(f) ==
    f = [pc |-> f.pc, token |-> f.token, got |-> f.got, att |-> f.att,
         verdict |-> f.verdict, failed |-> f.failed]

\* Where a client may be in its job j.
GoodPlace(j, f) ==
    /\ f.pc \in {"start", "fetch", "delete", "notes", "sign", "upload", "done"}
    /\ f.pc = "fetch" => j.does \in {"review", "vulnerabilities", "delete"}
    /\ f.pc = "delete" => j.does = "delete"
    /\ f.pc \in {"notes", "sign", "upload"} => j.does = "attest"
    /\ f.failed \in BOOLEAN
    /\ f.pc # "done" => f.verdict = "none" /\ ~f.failed
    /\ f.pc = "upload" => f.att = CreateAttestation(j, TRUE) /\ ~failed(f.att)

\* What a client has fetched, against the occurrences occ and its history: th
\* was there throughout, mt at some time.
GoodListing(j, f, th, mt, occ) ==
    /\ th \subseteq mt /\ th \subseteq occ /\ f.got \subseteq mt /\ IsFiniteSet(f.got)
    /\ \A o \in mt : listed(o, j)
    /\ f.pc = "start" => f.got = {} /\ f.token = 0 /\ th = {}
    /\ f.pc = "fetch" =>
          /\ \A o \in occ : listed(o, j) => o \in mt
          /\ f.token \in Nat
          /\ f.token = 0 => f.got = {}
          /\ \A o \in th : o \in f.got \/ o.place > f.token
    /\ (f.pc = "delete" \/ f.verdict \in {"attested", "notAttested", "listed"}) /\ ~f.failed
       => th \subseteq f.got \/ brokeOff(f)
    /\ f.pc = "delete" => Cardinality(f.got) = 1

\* What it has concluded.
GoodVerdict(j, f, th) ==
    /\ f.pc = "fetch" /\ j.does = "review" => ~allowed(j)
    /\ f.verdict = "attested" =>
          j.does = "review" /\ ~allowed(j) /\ \E o \in f.got : verified(o, j)
    /\ f.verdict = "notAttested" =>
          /\ j.does = "review" /\ ~allowed(j)
          /\ ~f.failed => th = {} \/ ~parses(f.got) \/ ~\E o \in f.got : verified(o, j)
    /\ f.verdict = "allowed" /\ j.does = "review" => allowed(j)

GoodClient(c, f, th, mt, occ) ==
    /\ isFrame(f)
    /\ GoodPlace(job[c], f)
    /\ GoodListing(job[c], f, th, mt, occ)
    /\ GoodVerdict(job[c], f, th)

ShapeInv ==
    /\ given \in Situations
    /\ frame = [c \in Clients |-> frame[c]]
    /\ there = [c \in Clients |-> there[c]] /\ met = [c \in Clients |-> met[c]]
    /\ faults \in 0..MaxFaults /\ edits \in 0..MaxEdits

ServerInv ==
    /\ server.state \in {"starting", "serving", "exited"} /\ disk \in {"good", "bad"}
    /\ ServingMeansClient

ClientsInv == \A c \in Clients : GoodClient(c, frame[c], there[c], met[c], occurrences)

VInv == ShapeInv /\ PlacesInv /\ ServerInv /\ ClientsInv

-----------------------------------------------------------------------------
(* What the invariant says.                                                *)

LEMMA JobWellFormed ==
    ASSUME ShapeInv, NEW c \in Clients
    PROVE  wellFormed(job[c])
BY VerificationAssumption DEF ShapeInv, job

LEMMA InvTypeOK ==
    ASSUME VInv
    PROVE  TypeOK
<1>1. ASSUME NEW c \in Clients
      PROVE  /\ frame[c].pc \in {"start", "done"} \cup
                   CASE job[c].does \in {"review", "vulnerabilities"} -> {"fetch"}
                     [] job[c].does = "delete" -> {"fetch", "delete"}
                     [] job[c].does = "attest" -> {"notes", "sign", "upload"}
                     [] OTHER -> {}
             /\ frame[c].pc = "upload" => ~failed(frame[c].att)
             /\ there[c] \subseteq met[c]
             /\ frame[c].got \subseteq met[c]
  <2>1. /\ GoodPlace(job[c], frame[c])
        /\ GoodListing(job[c], frame[c], there[c], met[c], occurrences)
    BY DEF VInv, ClientsInv, GoodClient
  <2>2. frame[c].pc \in {"start", "done"} \cup
           CASE job[c].does \in {"review", "vulnerabilities"} -> {"fetch"}
             [] job[c].does = "delete" -> {"fetch", "delete"}
             [] job[c].does = "attest" -> {"notes", "sign", "upload"}
             [] OTHER -> {}
    <3>1. CASE frame[c].pc \in {"start", "done"}  BY <3>1
    <3>2. CASE frame[c].pc = "fetch"
      <4>1. job[c].does \in {"review", "vulnerabilities", "delete"}  BY <2>1, <3>2 DEF GoodPlace
      <4> QED  BY <3>2, <4>1
    <3>3. CASE frame[c].pc = "delete"
      <4>1. job[c].does = "delete"  BY <2>1, <3>3 DEF GoodPlace
      <4> QED  BY <3>3, <4>1
    <3>4. CASE frame[c].pc \in {"notes", "sign", "upload"}
      <4>1. job[c].does = "attest"  BY <2>1, <3>4 DEF GoodPlace
      <4> QED  BY <3>4, <4>1
    <3> QED  BY <2>1, <3>1, <3>2, <3>3, <3>4 DEF GoodPlace
  <2> QED  BY <2>1, <2>2 DEF GoodPlace, GoodListing
<1> QED  BY <1>1 DEF VInv, ShapeInv, ServerInv, PlacesInv, TypeOK

LEMMA InvFetchComplete ==
    ASSUME VInv
    PROVE  FetchComplete
<1> SUFFICES ASSUME NEW c \in Clients, ~frame[c].failed,
                    \/ frame[c].pc = "delete"
                    \/ frame[c].verdict \in {"attested", "notAttested", "listed"}
             PROVE  /\ there[c] \subseteq frame[c].got \/ brokeOff(frame[c])
                    /\ frame[c].got \subseteq met[c]
                    /\ ~brokeOff(frame[c]) =>
                          \A o \in there[c] : o.kind = PkgVulnerability =>
                             \E v \in VulnerabilitiesOf(frame[c].got) : v.CVE = o.note
  BY DEF FetchComplete
<1>1. (there[c] \subseteq frame[c].got \/ brokeOff(frame[c])) /\ frame[c].got \subseteq met[c]
  BY DEF VInv, ClientsInv, GoodClient, GoodListing
<1>2. ASSUME NEW o \in frame[c].got, o.kind = PkgVulnerability
      PROVE  \E v \in VulnerabilitiesOf(frame[c].got) : v.CVE = o.note
  <2> DEFINE vulnerability(p) == [CVE |-> p.note, HasFixAvailable |-> IsFixAvailable(p.issues)]
             S == {p \in frame[c].got : p.kind = PkgVulnerability}
  <2>1. VulnerabilitiesOf(frame[c].got) = {vulnerability(p) : p \in S}
    BY DEF VulnerabilitiesOf
  <2>2. vulnerability(o).CVE = o.note /\ o \in S  BY <1>2
  <2> HIDE DEF vulnerability, S
  <2>3. vulnerability(o) \in {vulnerability(p) : p \in S}  BY <2>2
  <2> QED  BY <2>1, <2>2, <2>3
<1> QED  BY <1>1, <1>2

LEMMA InvAcceptedMeansSigned ==
    ASSUME VInv
    PROVE  AcceptedMeansSigned
<1> SUFFICES ASSUME NEW c \in Clients
             PROVE  /\ frame[c].verdict = "attested" => found(met[c], job[c])
                    /\ /\ frame[c].verdict = "notAttested" /\ ~frame[c].failed /\ ~brokeOff(frame[c])
                       /\ Review!attestationsParse(asSeen(met[c], job[c]), job[c].note, job[c].image)
                       => ~found(there[c], job[c])
  BY DEF AcceptedMeansSigned, found
<1> DEFINE j == job[c]
           f == frame[c]
<1>1. GoodListing(j, f, there[c], met[c], occurrences) /\ GoodVerdict(j, f, there[c])
  BY DEF VInv, ClientsInv, GoodClient
<1>2. wellFormed(j)  BY JobWellFormed DEF VInv
<1>3. there[c] \subseteq met[c] /\ f.got \subseteq met[c]  BY <1>1 DEF GoodListing
<1>4. ASSUME j.does = "review" PROVE \A o \in met[c] : o.note = j.note
  BY <1>1, <1>4 DEF GoodListing, listed
<1> HIDE DEF j, f
<1>5. ASSUME f.verdict = "attested" PROVE found(met[c], j)
  <2>1. j.does = "review" /\ \E o \in f.got : verified(o, j)  BY <1>1, <1>5 DEF GoodVerdict
  <2> QED  BY <1>2, <1>3, <1>4, <2>1, FoundIsVerified
<1>6. ASSUME f.verdict = "notAttested", ~f.failed, ~brokeOff(f),
             Review!attestationsParse(asSeen(met[c], j), j.note, j.image)
      PROVE  ~found(there[c], j)
  <2>1. j.does = "review"  BY <1>1, <1>6 DEF GoodVerdict
  <2>2. parses(f.got)  BY <1>3, <1>4, <1>6, <2>1, ParsesIsParse
  <2>3. there[c] = {} \/ ~\E o \in f.got : verified(o, j)
    BY <1>1, <1>6, <2>2 DEF GoodVerdict
  <2>4. there[c] \subseteq f.got  BY <1>1, <1>6 DEF GoodListing
  <2>5. found(there[c], j) <=> \E o \in there[c] : verified(o, j)
    BY <1>2, <1>3, <1>4, <2>1, FoundIsVerified
  <2> QED  BY <2>3, <2>4, <2>5
<1> QED  BY <1>5, <1>6 DEF j, f

LEMMA InvSkipsTheAllowed ==
    ASSUME VInv
    PROVE  SkipsTheAllowed
<1>1. ASSUME NEW c \in Clients, job[c].does = "review"
      PROVE  /\ frame[c].verdict = "allowed" => onList(job[c])
             /\ \/ frame[c].verdict \in {"attested", "notAttested"}
                \/ frame[c].pc = "fetch"
                => ~onList(job[c])
  <2>1. allowed(job[c]) <=> onList(job[c])  BY JobWellFormed, AllowedIsOnList DEF VInv
  <2>2. GoodVerdict(job[c], frame[c], there[c])  BY DEF VInv, ClientsInv, GoodClient
  <2> QED  BY <1>1, <2>1, <2>2 DEF GoodVerdict
<1> QED  BY <1>1 DEF SkipsTheAllowed, onList

LEMMA InvDetachedExact ==
    ASSUME VInv
    PROVE  DetachedExact
<1> SUFFICES ASSUME NEW c \in Clients, NEW d \in Clients,
                    frame[c].pc = "upload", job[c].signer.kind \in {"pkix", "kms"},
                    NEW alg \in SignatureAlgorithm, NEW payload
             PROVE  verifyDetached(frame[c].att.Signature,
                                   [blocks |-> 1, key |-> job[d].signer.pem.key], alg, payload)
                       <=> /\ job[d].signer.pem.key = job[c].signer.pem.key
                           /\ payload = NewAtomicContainerSig(job[c].image)
                           /\ getAlgName(alg) = getAlgName(job[c].signer.alg)
  BY DEF DetachedExact
<1> DEFINE s == job[c].signer
           p == NewAtomicContainerSig(job[c].image)
           att == frame[c].att
           key == job[d].signer.pem.key
<1>1. att = CreateAttestation(job[c], TRUE) /\ ~failed(att)
  BY DEF VInv, ClientsInv, GoodClient, GoodPlace
<1>2. wellFormed(job[c]) /\ wellFormed(job[d])  BY JobWellFormed DEF VInv
<1>3. hasPayload(job[c].image)
  <2>1. ~hasPayload(job[c].image) => CreateAttestation(job[c], TRUE) = jwtAttestation
    BY DEF CreateAttestation
  <2>2. failed(jwtAttestation)  BY DEF failed, jwtAttestation, NoAttestation
  <2> QED  BY <1>1, <2>1, <2>2
<1>4. \/ s.kind = "pkix" /\ att = pkixAttestation(s, p)
      \/ s.kind = "kms" /\ att = kmsAttestation(s, p)
  <2>1. CASE s.kind = "pkix"
    <3>1. CreateAttestation(job[c], TRUE) = pkixAttestation(s, p)
      BY <1>3, <2>1 DEF CreateAttestation
    <3> QED  BY <1>1, <2>1, <3>1
  <2>2. CASE s.kind = "kms"
    <3>1. CreateAttestation(job[c], TRUE) = kmsAttestation(s, p)
      BY <1>3, <2>2 DEF CreateAttestation
    <3> QED  BY <1>1, <2>2, <3>1
  <2> QED  BY <2>1, <2>2
<1>5. /\ s.alg \in SignatureAlgorithm /\ s.pem.key \in [type : STRING, id : STRING]
      /\ s.kind = "kms" => s.pem.key.type = IF s.alg \in Ecdsa THEN "ecdsa" ELSE "rsa"
      /\ key \in [type : STRING, id : STRING]
  BY <1>2 DEF wellFormed
<1> HIDE DEF s, p, att, key
<1>6. verifyDetached(att.Signature, [blocks |-> 1, key |-> key], alg, payload)
         <=> key = s.pem.key /\ payload = p /\ getAlgName(alg) = getAlgName(s.alg)
  <2>1. ~failed(att)  BY <1>1
  <2>2. s.alg \in SignatureAlgorithm /\ s.pem.key \in [type : STRING, id : STRING]  BY <1>5
  <2>3. s.kind = "kms" => s.pem.key.type = IF s.alg \in Ecdsa THEN "ecdsa" ELSE "rsa"  BY <1>5
  <2>4. key \in [type : STRING, id : STRING]  BY <1>5
  <2> QED  BY <1>4, <2>1, <2>2, <2>3, <2>4, DetachedVerifies, ZenonT(60)
<1> QED  BY <1>6 DEF s, p, att, key

-----------------------------------------------------------------------------
(* Frames.                                                                 *)

\* What the updates of a frame change.
LEMMA DoneFrame ==
    ASSUME NEW f, isFrame(f), NEW v, NEW g, g = Done(f, v)
    PROVE  /\ isFrame(g) /\ g.pc = "done" /\ g.verdict = v
           /\ g.token = f.token /\ g.got = f.got /\ g.att = f.att /\ g.failed = f.failed
<1>1. g = [pc |-> "done", token |-> f.token, got |-> f.got, att |-> f.att,
           verdict |-> v, failed |-> f.failed]
  BY DEF isFrame, Done
<1> QED  BY <1>1 DEF isFrame

LEMMA FailedFrame ==
    ASSUME NEW f, isFrame(f), NEW b, NEW g, g = [f EXCEPT !.failed = b]
    PROVE  /\ isFrame(g) /\ g.pc = f.pc /\ g.verdict = f.verdict
           /\ g.token = f.token /\ g.got = f.got /\ g.att = f.att /\ g.failed = b
<1>1. g = [pc |-> f.pc, token |-> f.token, got |-> f.got, att |-> f.att,
           verdict |-> f.verdict, failed |-> b]
  BY DEF isFrame
<1> QED  BY <1>1 DEF isFrame

LEMMA PcFrame ==
    ASSUME NEW f, isFrame(f), NEW pc, NEW g, g = [f EXCEPT !.pc = pc]
    PROVE  /\ isFrame(g) /\ g.pc = pc /\ g.verdict = f.verdict
           /\ g.token = f.token /\ g.got = f.got /\ g.att = f.att /\ g.failed = f.failed
<1>1. g = [pc |-> pc, token |-> f.token, got |-> f.got, att |-> f.att,
           verdict |-> f.verdict, failed |-> f.failed]
  BY DEF isFrame
<1> QED  BY <1>1 DEF isFrame

\* A client whose job ends without an answer about an image.
LEMMA Ends ==
    ASSUME NEW c, NEW f, NEW th, NEW mt, NEW occ, GoodClient(c, f, th, mt, occ),
           NEW g, isFrame(g), g.pc = "done", g.failed \in BOOLEAN, g.got \in SUBSET f.got,
           g.verdict \notin {"attested", "notAttested", "listed", "allowed"}
    PROVE  GoodClient(c, g, th, mt, occ)
<1>1. GoodListing(job[c], f, th, mt, occ)  BY DEF GoodClient
<1>2. IsFiniteSet(g.got) /\ g.got \subseteq mt  BY <1>1, FS_Subset DEF GoodListing
<1>3. GoodPlace(job[c], g)  BY DEF GoodPlace
<1>4. GoodListing(job[c], g, th, mt, occ)  BY <1>1, <1>2 DEF GoodListing
<1>5. GoodVerdict(job[c], g, th)  BY DEF GoodVerdict
<1> QED  BY <1>3, <1>4, <1>5 DEF GoodClient

\* A client that only looks on while the occurrences change.
LEMMA Observed ==
    ASSUME NEW c, NEW f, NEW th, NEW mt, NEW occ, GoodClient(c, f, th, mt, occ),
           NEW occ2, NEW th2, th2 = th \cap occ2,
           NEW mt2, mt2 = IF f.pc = "fetch" THEN mt \cup {o \in occ2 : listed(o, job[c])} ELSE mt
    PROVE  GoodClient(c, f, th2, mt2, occ2)
<1>1. GoodListing(job[c], f, th, mt, occ) /\ GoodVerdict(job[c], f, th)  BY DEF GoodClient
<1>2. th2 \subseteq th /\ th2 \subseteq occ2 /\ mt \subseteq mt2  OBVIOUS
<1>3. \A o \in mt2 : listed(o, job[c])  BY <1>1 DEF GoodListing
<1>4. f.pc = "fetch" => \A o \in occ2 : listed(o, job[c]) => o \in mt2  OBVIOUS
<1>5. GoodListing(job[c], f, th2, mt2, occ2)  BY <1>1, <1>2, <1>3, <1>4 DEF GoodListing
<1>6. GoodVerdict(job[c], f, th2)  BY <1>1, <1>2 DEF GoodVerdict
<1> QED  BY <1>5, <1>6 DEF GoodClient

\* The jobs do not change, so every client may be judged in the old state.
LEMMA ClientsStep ==
    ASSUME given' = given,
           \A c \in Clients : \A f, th, mt, occ :
              f = frame'[c] /\ th = there'[c] /\ mt = met'[c] /\ occ = occurrences'
              => GoodClient(c, f, th, mt, occ)
    PROVE  ClientsInv'
<1>1. \A o, j : listed(o, j) <=> listed(o, j)'  BY DEF listed, filtered
<1>2. job' = job  BY DEF job
<1>3. \A j, f, th, mt, occ : GoodListing(j, f, th, mt, occ) <=> GoodListing(j, f, th, mt, occ)'
  BY <1>1 DEF GoodListing
<1>4. \A c, f, th, mt, occ : GoodClient(c, f, th, mt, occ) => GoodClient(c, f, th, mt, occ)'
  BY <1>2, <1>3 DEF GoodClient
<1> QED  BY <1>4 DEF ClientsInv

-----------------------------------------------------------------------------
(* Steps.                                                                  *)

LEMMA Calls ==
    ASSUME ShapeInv, NEW ok, Call(ok)
    PROVE  faults' \in 0..MaxFaults
<1>1. MaxFaults \in Nat /\ faults \in 0..MaxFaults
  BY VerificationAssumption DEF ShapeInv, MaxFaults
<1> QED  BY <1>1 DEF Call

LEMMA Goes ==
    ASSUME ShapeInv, NEW c \in Clients, NEW f, Go(c, f)
    PROVE  /\ frame' = [d \in Clients |-> frame'[d]]
           /\ frame'[c] = f /\ \A d \in Clients : d # c => frame'[d] = frame[d]
BY DEF ShapeInv, Go

LEMMA ServerStays ==
    ASSUME ServerInv, ShapeInv, UNCHANGED <<server, disk>>,
           edits' = edits \/ edits' = edits + 1
    PROVE  ServerInv'
<1>1. edits \in Nat  BY VerificationAssumption DEF ShapeInv
<1>2. edits' = 0 => edits = 0  BY <1>1
<1> QED  BY <1>2 DEF ServerInv, ServingMeansClient

\* A step of one client that changes nothing but its frame.
LEMMA LocalStep ==
    ASSUME VInv, NEW c \in Clients, NEW f, Go(c, f),
           GoodClient(c, f, there[c], met[c], occurrences),
           UNCHANGED <<server, disk, given, occurrences, history, last, edits>>,
           faults' \in 0..MaxFaults
    PROVE  VInv'
<1>1. ShapeInv /\ PlacesInv /\ ServerInv /\ ClientsInv  BY DEF VInv
<1>2. /\ frame' = [d \in Clients |-> frame'[d]]
      /\ frame'[c] = f /\ \A d \in Clients : d # c => frame'[d] = frame[d]
  BY <1>1, Goes
<1>3. there' = there /\ met' = met  BY DEF history
<1>4. ShapeInv'  BY <1>1, <1>2, <1>3 DEF ShapeInv, MaxFaults, MaxEdits
<1>5. PlacesInv'  BY <1>1 DEF PlacesInv
<1>6. ServerInv'  BY <1>1, ServerStays
<1>7. ASSUME NEW d \in Clients PROVE GoodClient(d, frame'[d], there[d], met[d], occurrences)
  BY <1>1, <1>2 DEF ClientsInv
<1>8. ClientsInv'  BY <1>3, <1>7, ClientsStep
<1> QED  BY <1>4, <1>5, <1>6, <1>8 DEF VInv

\* What everyone who only looks on sees.
LEMMA ObserveShape ==
    ASSUME Observe, NEW d \in Clients
    PROVE  /\ there' = [c \in Clients |-> there'[c]] /\ met' = [c \in Clients |-> met'[c]]
           /\ there'[d] = there[d] \cap occurrences'
           /\ met'[d] = IF frame[d].pc = "fetch"
                        THEN met[d] \cup {o \in occurrences' : listed(o, job[d])} ELSE met[d]
BY DEF Observe, Listed

\* A step of one client that changes the occurrences.
LEMMA FilingStep ==
    ASSUME VInv, NEW c \in Clients, NEW f, Go(c, f), Observe,
           frame[c].pc # "fetch", f.pc # "fetch",
           GoodClient(c, f, there[c], met[c], occurrences),
           PlacesInv', UNCHANGED <<server, disk, given, edits>>,
           faults' \in 0..MaxFaults
    PROVE  VInv'
<1>1. ShapeInv /\ PlacesInv /\ ServerInv /\ ClientsInv  BY DEF VInv
<1>2. /\ frame' = [d \in Clients |-> frame'[d]]
      /\ frame'[c] = f /\ \A d \in Clients : d # c => frame'[d] = frame[d]
  BY <1>1, Goes
<1>3. ShapeInv'
  BY <1>1, <1>2, ObserveShape DEF ShapeInv, MaxFaults, MaxEdits
<1>4. ServerInv'  BY <1>1, ServerStays
<1>5. ASSUME NEW d \in Clients PROVE GoodClient(d, frame'[d], there'[d], met'[d], occurrences')
  <2> DEFINE g == frame'[d]
  <2>1. GoodClient(d, g, there[d], met[d], occurrences)  BY <1>1, <1>2 DEF ClientsInv
  <2>2. g.pc = "fetch" <=> frame[d].pc = "fetch"  BY <1>2
  <2>3. /\ there'[d] = there[d] \cap occurrences'
        /\ met'[d] = IF g.pc = "fetch"
                     THEN met[d] \cup {o \in occurrences' : listed(o, job[d])} ELSE met[d]
    BY <2>2, ObserveShape
  <2> HIDE DEF g
  <2>4. GoodClient(d, g, there'[d], met'[d], occurrences')  BY <2>1, <2>3, Observed
  <2> QED  BY <2>4 DEF g
<1>6. ClientsInv'  BY <1>5, ClientsStep
<1> QED  BY <1>3, <1>4, <1>6 DEF VInv

-----------------------------------------------------------------------------
(* The server.                                                             *)

LEMMA InitVInv ==
    ASSUME Init
    PROVE  VInv
<1>1. given \in Situations /\ occurrences = given.occurrences /\ last = Cardinality(occurrences)
  BY DEF Init
<1>2. PlacesInv
  <2>1. IsFiniteSet(occurrences)  BY <1>1, VerificationAssumption
  <2>2. last \in Nat  BY <1>1, <2>1, FS_CardinalityType
  <2> QED  BY <1>1, <2>1, <2>2, VerificationAssumption DEF PlacesInv
<1>3. ShapeInv
  <2>1. MaxFaults \in Nat /\ MaxEdits \in Nat  BY <1>1, VerificationAssumption DEF MaxFaults, MaxEdits
  <2> QED  BY <1>1, <2>1 DEF Init, ShapeInv
<1>4. ServerInv  BY <1>1, VerificationAssumption DEF Init, ServerInv, ServingMeansClient
<1>5. ASSUME NEW c \in Clients
      PROVE  GoodClient(c, frame[c], there[c], met[c], occurrences)
  <2>1. frame[c] = Idle /\ there[c] = {} /\ met[c] = {}  BY DEF Init
  <2>2. isFrame(Idle) /\ GoodPlace(job[c], Idle)  BY DEF isFrame, Idle, GoodPlace
  <2>3. GoodListing(job[c], Idle, {}, {}, occurrences)  BY FS_EmptySet DEF Idle, GoodListing
  <2>4. GoodVerdict(job[c], Idle, {})  BY DEF Idle, GoodVerdict
  <2> QED  BY <2>1, <2>2, <2>3, <2>4 DEF GoodClient
<1> QED  BY <1>2, <1>3, <1>4, <1>5 DEF VInv, ClientsInv

LEMMA StepBoot ==
    ASSUME VInv, Boot
    PROVE  VInv'
<1>1. ShapeInv /\ PlacesInv /\ ServerInv /\ ClientsInv  BY DEF VInv
<1> DEFINE config == Configure(KritisConfigs, given.certFile)
<1>2. PICK ok \in BOOLEAN :
         /\ Call(ok)
         /\ server' = IF ok /\ config.verdict = "ok" /\ StartCronJob(config, disk, ok) = "ok"
                      THEN [state |-> "serving", config |-> config]
                      ELSE [state |-> "exited", config |-> NoConfig]
  BY DEF Boot
<1> HIDE DEF config
<1>3. UNCHANGED <<disk, given, occurrences, frame, there, met, last, edits>>  BY DEF Boot, history
<1>4. faults' \in 0..MaxFaults  BY <1>1, <1>2, Calls
<1>5. ShapeInv'  BY <1>1, <1>3, <1>4 DEF ShapeInv, MaxFaults, MaxEdits
<1>6. PlacesInv'  BY <1>1, <1>3 DEF PlacesInv
<1>7. ServerInv'
  <2>1. CASE server' = [state |-> "exited", config |-> NoConfig]
    BY <1>1, <1>3, <2>1 DEF ServerInv, ServingMeansClient
  <2>2. CASE /\ server' = [state |-> "serving", config |-> config]
             /\ ok /\ StartCronJob(config, disk, ok) = "ok"
    <3>1. MetadataClient(config, disk, TRUE) = "ok"  BY <2>2, JobStarted
    <3>2. \A d, b : MetadataClient(config, d, b) # "panic"  BY <3>1, ClientNeverPanics
    <3>3. disk \in {"good", "bad"} /\ disk' = disk  BY <1>1, <1>3 DEF ServerInv
    <3>4. server'.state = "serving" /\ server'.config = config  BY <2>2
    <3> QED  BY <3>1, <3>2, <3>3, <3>4 DEF ServerInv, ServingMeansClient
  <2> QED  BY <1>2, <2>1, <2>2
<1>8. ClientsInv'  BY <1>1, <1>3, ClientsStep DEF ClientsInv
<1> QED  BY <1>5, <1>6, <1>7, <1>8 DEF VInv

LEMMA StepCronStart ==
    ASSUME VInv, CronStart
    PROVE  VInv'
<1>1. ShapeInv /\ PlacesInv /\ ServerInv /\ ClientsInv  BY DEF VInv
<1>2. UNCHANGED <<disk, given, occurrences, there, met, last, faults, edits>>
  BY DEF CronStart, history
<1>3. frame' = [c \in Clients |-> frame'[c]]  BY DEF CronStart
<1>4. ShapeInv'  BY <1>1, <1>2, <1>3 DEF ShapeInv, MaxFaults, MaxEdits
<1>5. PlacesInv'  BY <1>1, <1>2 DEF PlacesInv
<1>6. ServerInv'  BY <1>1, <1>2 DEF CronStart, ServerInv, ServingMeansClient
<1>7. ASSUME NEW c \in Clients PROVE GoodClient(c, frame'[c], there[c], met[c], occurrences)
  <2> DEFINE g == frame'[c]
             f == frame[c]
  <2>1. GoodClient(c, f, there[c], met[c], occurrences)  BY <1>1 DEF ClientsInv
  <2>2. g = f \/ g = Done([f EXCEPT !.failed = TRUE], "lost")  BY DEF CronStart
  <2> HIDE DEF g, f
  <2>3. CASE g = Done([f EXCEPT !.failed = TRUE], "lost")
    <3>1. isFrame(f)  BY <2>1 DEF GoodClient
    <3>2. PICK h : h = [f EXCEPT !.failed = TRUE]  OBVIOUS
    <3>3. isFrame(h) /\ h.failed = TRUE /\ h.got = f.got  BY <3>1, <3>2, FailedFrame
    <3>a. g = Done(h, "lost")  BY <2>3, <3>2
    <3>4. isFrame(g) /\ g.pc = "done" /\ g.verdict = "lost" /\ g.failed = TRUE /\ g.got = f.got
      BY <3>a, <3>3, DoneFrame
    <3>5. g.failed \in BOOLEAN /\ g.got \in SUBSET f.got
          /\ g.verdict \notin {"attested", "notAttested", "listed", "allowed"}
      BY <3>4
    <3>6. GoodClient(c, g, there[c], met[c], occurrences)  BY <2>1, <3>4, <3>5, Ends
    <3> QED  BY <3>6 DEF g
  <2> QED  BY <2>1, <2>2, <2>3 DEF g
<1>8. ClientsInv'  BY <1>2, <1>7, ClientsStep
<1> QED  BY <1>4, <1>5, <1>6, <1>8 DEF VInv

LEMMA StepEditDisk ==
    ASSUME VInv, EditDisk
    PROVE  VInv'
<1>1. ShapeInv /\ PlacesInv /\ ServerInv /\ ClientsInv  BY DEF VInv
<1>2. UNCHANGED <<server, given, occurrences, frame, there, met, last, faults>>
  BY DEF EditDisk, history
<1>3. edits \in Nat /\ MaxEdits \in Nat  BY <1>1, VerificationAssumption DEF ShapeInv, MaxEdits
<1>4. ShapeInv'  BY <1>1, <1>2, <1>3 DEF EditDisk, ShapeInv, MaxFaults, MaxEdits
<1>5. PlacesInv'  BY <1>1, <1>2 DEF PlacesInv
<1>6. edits' # 0 /\ disk' \in {"good", "bad"}  BY <1>3 DEF EditDisk
<1>7. ServerInv'  BY <1>1, <1>2, <1>6 DEF ServerInv, ServingMeansClient
<1>8. ClientsInv'  BY <1>1, <1>2, ClientsStep DEF ClientsInv
<1> QED  BY <1>4, <1>5, <1>7, <1>8 DEF VInv

LEMMA StepEditOccurrences ==
    ASSUME VInv, EditOccurrences
    PROVE  VInv'
<1>1. ShapeInv /\ PlacesInv /\ ServerInv /\ ClientsInv  BY DEF VInv
<1>2. UNCHANGED <<server, disk, given, frame, last, faults>> /\ edits' = edits + 1 /\ Observe
      /\ occurrences' \in SUBSET occurrences
  BY DEF EditOccurrences, outside
<1>3. edits \in Nat /\ MaxEdits \in Nat  BY <1>1, VerificationAssumption DEF ShapeInv, MaxEdits
<1>4. ShapeInv'
  <2>1. there' = [c \in Clients |-> there'[c]] /\ met' = [c \in Clients |-> met'[c]]
    BY <1>2 DEF Observe
  <2> QED  BY <1>1, <1>2, <1>3, <2>1 DEF EditOccurrences, ShapeInv, MaxFaults, MaxEdits
<1>5. PlacesInv'
  <2>1. IsFiniteSet(occurrences')  BY <1>1, <1>2, FS_Subset DEF PlacesInv
  <2> QED  BY <1>1, <1>2, <2>1 DEF PlacesInv
<1>6. ServerInv'  BY <1>1, <1>2, ServerStays
<1>7. ASSUME NEW d \in Clients PROVE GoodClient(d, frame[d], there'[d], met'[d], occurrences')
  <2>1. GoodClient(d, frame[d], there[d], met[d], occurrences)  BY <1>1 DEF ClientsInv
  <2>2. /\ there'[d] = there[d] \cap occurrences'
        /\ met'[d] = IF frame[d].pc = "fetch"
                     THEN met[d] \cup {o \in occurrences' : listed(o, job[d])} ELSE met[d]
    BY <1>2, ObserveShape
  <2> QED  BY <2>1, <2>2, Observed
<1>8. ClientsInv'  BY <1>2, <1>7, ClientsStep
<1> QED  BY <1>4, <1>5, <1>6, <1>8 DEF VInv

-----------------------------------------------------------------------------
(* The clients.                                                            *)

\* A client that begins to page.
LEMMA StepStartFetch ==
    ASSUME VInv, NEW c \in Clients, frame[c].pc = "start", StartFetch(c, frame[c]),
           job[c].does \in {"review", "vulnerabilities", "delete"},
           job[c].does = "review" => ~allowed(job[c]),
           UNCHANGED <<server, disk, given, occurrences, last, edits>>,
           faults' \in 0..MaxFaults
    PROVE  VInv'
<1>1. ShapeInv /\ PlacesInv /\ ServerInv /\ ClientsInv  BY DEF VInv
<1>2. PICK f : f = frame[c]  OBVIOUS
<1>3. PICK g : g = [f EXCEPT !.pc = "fetch"]  OBVIOUS
<1>4. Go(c, g)  BY <1>2, <1>3 DEF StartFetch
<1>5. /\ frame' = [d \in Clients |-> frame'[d]]
      /\ frame'[c] = g /\ \A d \in Clients : d # c => frame'[d] = frame[d]
  BY <1>1, <1>4, Goes
<1> DEFINE L == {o \in occurrences : listed(o, job[c])}
<1>6. /\ there' = [there EXCEPT ![c] = L] /\ met' = [met EXCEPT ![c] = L]
  BY DEF StartFetch, Listed
<1> HIDE DEF L
<1>7. /\ there' = [d \in Clients |-> there'[d]] /\ met' = [d \in Clients |-> met'[d]]
      /\ there'[c] = L /\ met'[c] = L
      /\ \A d \in Clients : d # c => there'[d] = there[d] /\ met'[d] = met[d]
  BY <1>1, <1>6 DEF ShapeInv
<1>8. ShapeInv'  BY <1>1, <1>5, <1>7 DEF ShapeInv, MaxFaults, MaxEdits
<1>9. PlacesInv'  BY <1>1 DEF PlacesInv
<1>10. ServerInv'  BY <1>1, ServerStays
<1>11. GoodClient(c, g, L, L, occurrences)
  <2>1. GoodClient(c, f, there[c], met[c], occurrences) /\ f.pc = "start"  BY <1>1, <1>2 DEF ClientsInv
  <2>2. isFrame(f) /\ f.verdict = "none" /\ f.failed = FALSE /\ f.got = {} /\ f.token = 0
    BY <2>1 DEF GoodClient, GoodPlace, GoodListing
  <2>3. isFrame(g) /\ g.pc = "fetch" /\ g.verdict = "none" /\ g.failed = FALSE
        /\ g.got = {} /\ g.token = 0
    BY <1>3, <2>2, PcFrame
  <2>4. GoodPlace(job[c], g)  BY <2>3 DEF GoodPlace
  <2>5. \A o \in L : o.place > 0
    BY <1>1 DEF L, PlacesInv
  <2>6. GoodListing(job[c], g, L, L, occurrences)  BY <2>3, <2>5, FS_EmptySet DEF GoodListing, L
  <2>7. GoodVerdict(job[c], g, L)  BY <2>3 DEF GoodVerdict
  <2> QED  BY <2>3, <2>4, <2>6, <2>7 DEF GoodClient
<1>12. ASSUME NEW d \in Clients PROVE GoodClient(d, frame'[d], there'[d], met'[d], occurrences)
  BY <1>1, <1>5, <1>7, <1>11 DEF ClientsInv
<1>13. ClientsInv'  BY <1>12, ClientsStep
<1> QED  BY <1>8, <1>9, <1>10, <1>13 DEF VInv

LEMMA StepStartListing ==
    ASSUME VInv, NEW c \in Clients, StartListing(c)
    PROVE  VInv'
<1>1. UNCHANGED <<server, disk, given, occurrences, last, faults, edits>>
  BY DEF StartListing, outside
<1>2. frame[c].pc = "start" /\ StartFetch(c, frame[c])
      /\ job[c].does \in {"vulnerabilities", "delete"}
  BY DEF StartListing
<1>3. faults' \in 0..MaxFaults  BY <1>1 DEF VInv, ShapeInv
<1> QED  BY <1>1, <1>2, <1>3, StepStartFetch

LEMMA StepStartReview ==
    ASSUME VInv, NEW c \in Clients, StartReview(c)
    PROVE  VInv'
<1>1. ShapeInv /\ PlacesInv /\ ServerInv /\ ClientsInv  BY DEF VInv
<1>2. PICK f : f = frame[c]  OBVIOUS
<1>3. /\ UNCHANGED <<server, disk, given, occurrences, last, edits>>
      /\ f.pc = "start" /\ job[c].does = "review" /\ server.state = "serving"
  BY <1>2 DEF StartReview, outside
<1>4. GoodClient(c, f, there[c], met[c], occurrences)  BY <1>1, <1>2 DEF ClientsInv
<1>5. isFrame(f) /\ f.failed = FALSE /\ f.got = {} /\ there[c] = {}
  BY <1>3, <1>4 DEF GoodClient, GoodPlace, GoodListing
<1>a. PICK ok \in BOOLEAN :
         /\ Call(ok)
         /\ \/ /\ MetadataClient(server.config, disk, ok) # "ok"
               /\ Go(c, Done([f EXCEPT !.failed = TRUE], MetadataClient(server.config, disk, ok)))
               /\ UNCHANGED history
            \/ Go(c, Done(f, "elsewhere")) /\ UNCHANGED history
            \/ /\ allowed(job[c]) \/ givesUp(job[c])
               /\ Go(c, Done(f, IF allowed(job[c]) THEN "allowed" ELSE "notAttested"))
               /\ UNCHANGED history
            \/ ~allowed(job[c]) /\ StartFetch(c, f)
  BY <1>2 DEF StartReview
<1>6. faults' \in 0..MaxFaults  BY <1>1, <1>a, Calls
<1> DEFINE client == MetadataClient(server.config, disk, ok)
<1>b. ASSUME NEW g, Go(c, g), UNCHANGED history, NEW h, isFrame(h), h.got = f.got,
             h.failed \in BOOLEAN, NEW v, g = Done(h, v),
             v \notin {"attested", "notAttested", "listed", "allowed"}
      PROVE  VInv'
  <2>1. isFrame(g) /\ g.pc = "done" /\ g.verdict = v /\ g.failed = h.failed /\ g.got = f.got
    BY <1>b, DoneFrame
  <2>2. g.failed \in BOOLEAN /\ g.got \in SUBSET f.got
        /\ g.verdict \notin {"attested", "notAttested", "listed", "allowed"}
    BY <1>b, <2>1
  <2>3. GoodClient(c, g, there[c], met[c], occurrences)  BY <1>4, <2>1, <2>2, Ends
  <2> QED  BY <1>3, <1>6, <1>b, <2>3, LocalStep
<1>7. CASE client # "ok" /\ Go(c, Done([f EXCEPT !.failed = TRUE], client)) /\ UNCHANGED history
  <2>1. PICK h : h = [f EXCEPT !.failed = TRUE]  OBVIOUS
  <2>2. isFrame(h) /\ h.failed = TRUE /\ h.got = f.got  BY <1>5, <2>1, FailedFrame
  <2>3. client \in {"ok", "error", "panic"}
    BY DEF MetadataClient, New, NewCache, GrafeasMetadata, ContainerAnalysisMetadata, ValidateConfig,
           nilCerts
  <2> HIDE DEF client
  <2>4. PICK g : g = Done(h, client)  OBVIOUS
  <2>5. Go(c, g) /\ UNCHANGED history  BY <1>7, <2>1, <2>4
  <2>6. client \notin {"attested", "notAttested", "listed", "allowed"}  BY <2>3
  <2>7. h.failed \in BOOLEAN  BY <2>2
  <2> QED  BY <1>b, <2>2, <2>4, <2>5, <2>6, <2>7
<1>c. CASE Go(c, Done(f, "elsewhere")) /\ UNCHANGED history
  <2>1. PICK g : g = Done(f, "elsewhere")  OBVIOUS
  <2>2. f.failed \in BOOLEAN  BY <1>5
  <2>3. "elsewhere" \notin {"attested", "notAttested", "listed", "allowed"}  OBVIOUS
  <2> QED  BY <1>5, <1>b, <1>c, <2>1, <2>2, <2>3
<1>8. CASE /\ allowed(job[c]) \/ givesUp(job[c])
           /\ Go(c, Done(f, IF allowed(job[c]) THEN "allowed" ELSE "notAttested"))
           /\ UNCHANGED history
  <2>1. PICK v : v = IF allowed(job[c]) THEN "allowed" ELSE "notAttested"  OBVIOUS
  <2>2. PICK g : g = Done(f, v)  OBVIOUS
  <2>3. isFrame(g) /\ g.pc = "done" /\ g.verdict = v /\ g.failed = FALSE /\ g.got = {}
    BY <1>5, <2>2, DoneFrame
  <2>4. GoodPlace(job[c], g)  BY <2>3 DEF GoodPlace
  <2>5. GoodListing(job[c], g, there[c], met[c], occurrences)
    BY <1>4, <1>5, <2>3 DEF GoodClient, GoodListing
  <2>6. GoodVerdict(job[c], g, there[c])  BY <1>3, <1>5, <2>1, <2>3 DEF GoodVerdict
  <2>7. GoodClient(c, g, there[c], met[c], occurrences)  BY <2>3, <2>4, <2>5, <2>6 DEF GoodClient
  <2>8. Go(c, g)  BY <1>8, <2>1, <2>2
  <2> QED  BY <1>3, <1>6, <1>8, <2>7, <2>8, LocalStep
<1>9. CASE ~allowed(job[c]) /\ StartFetch(c, f)
  BY <1>2, <1>3, <1>6, <1>9, StepStartFetch
<1> QED  BY <1>a, <1>7, <1>c, <1>8, <1>9

\* A loop that has ended has all that was there throughout, or has broken off with
\* nothing, so what becomes of its listing is right.
LEMMA ListingIsGood ==
    ASSUME NEW c, NEW f, NEW th, NEW mt, NEW occ, isFrame(f), f.pc = "fetch",
           f.verdict = "none", f.failed = FALSE, f.got \in SUBSET mt, IsFiniteSet(f.got),
           th \subseteq f.got \/ brokeOff(f), th \in SUBSET mt, th \in SUBSET occ, \A o \in mt : listed(o, job[c]),
           job[c].does \in {"review", "vulnerabilities", "delete"},
           job[c].does = "review" => ~allowed(job[c]),
           NEW g, g = Listing(c, f)
    PROVE  GoodClient(c, g, th, mt, occ)
<1>1. ASSUME NEW v, g = Done(f, v),
             \/ v = "listed" \/ v = "error"
             \/ v = "attested" /\ job[c].does = "review" /\ VerifyAll(c, f.got)
             \/ v = "notAttested" /\ job[c].does = "review" /\ ~VerifyAll(c, f.got)
      PROVE  GoodClient(c, g, th, mt, occ)
  <2>1. isFrame(g) /\ g.pc = "done" /\ g.verdict = v /\ g.failed = FALSE /\ g.got = f.got
    BY <1>1, DoneFrame
  <2>2. GoodPlace(job[c], g)  BY <2>1 DEF GoodPlace
  <2>3. GoodListing(job[c], g, th, mt, occ)  BY <1>1, <2>1, DoneFrame DEF GoodListing, brokeOff
  <2>4. VerifyAll(c, f.got) <=> parses(f.got) /\ \E o \in f.got : verified(o, job[c])
    BY DEF VerifyAll, verified
  <2>5. GoodVerdict(job[c], g, th)  BY <1>1, <2>1, <2>4 DEF GoodVerdict
  <2> QED  BY <2>1, <2>2, <2>3, <2>5 DEF GoodClient
<1>a. ASSUME NEW v, v \notin {"attested", "notAttested", "listed", "allowed"},
             g = Done([f EXCEPT !.failed = TRUE], v)
      PROVE  GoodClient(c, g, th, mt, occ)
  <2>1. PICK h : h = [f EXCEPT !.failed = TRUE]  OBVIOUS
  <2>2. isFrame(h) /\ h.failed = TRUE /\ h.got = f.got  BY <2>1, FailedFrame
  <2>3. g = Done(h, v)  BY <1>a, <2>1
  <2>4. isFrame(g) /\ g.pc = "done" /\ g.verdict = v /\ g.failed = TRUE /\ g.got = f.got
    BY <2>2, <2>3, DoneFrame
  <2>5. GoodPlace(job[c], g)  BY <2>4 DEF GoodPlace
  <2>6. GoodListing(job[c], g, th, mt, occ)  BY <2>4 DEF GoodListing
  <2>7. GoodVerdict(job[c], g, th)  BY <1>a, <2>4 DEF GoodVerdict
  <2> QED  BY <2>4, <2>5, <2>6, <2>7 DEF GoodClient
<1>2. CASE job[c].does = "review"
  <2>1. PICK v : v = IF VerifyAll(c, f.got) THEN "attested" ELSE "notAttested"  OBVIOUS
  <2>2. g = reviewed(c, f)  BY <1>2 DEF Listing
  <2>3. g = Done(f, v) \/ g = Done([f EXCEPT !.failed = TRUE], "panic")  BY <2>1, <2>2 DEF reviewed
  <2> QED  BY <1>1, <1>a, <1>2, <2>1, <2>3
<1>3. CASE job[c].does = "vulnerabilities"
  <2>1. g = Done(f, "listed")  BY <1>3 DEF Listing
  <2> QED  BY <1>1, <2>1
<1>4. CASE job[c].does = "delete"
  <2>1. CASE Cardinality(f.got) # 1
    <3>1. g = Done(f, "error")  BY <1>4, <2>1 DEF Listing
    <3> QED  BY <1>1, <3>1
  <2>2. CASE Cardinality(f.got) = 1
    <3>1. g = [f EXCEPT !.pc = "delete"]  BY <1>4, <2>2 DEF Listing
    <3>2. isFrame(g) /\ g.pc = "delete" /\ g.verdict = "none" /\ g.failed = FALSE /\ g.got = f.got
      BY <3>1, PcFrame
    <3>3. GoodPlace(job[c], g)  BY <1>4, <3>2 DEF GoodPlace
    <3>4. GoodListing(job[c], g, th, mt, occ)
      <4>1. g.token = f.token  BY <3>1, PcFrame
      <4> QED  BY <2>2, <3>2, <4>1 DEF GoodListing, brokeOff
    <3>5. GoodVerdict(job[c], g, th)  BY <3>2 DEF GoodVerdict
    <3> QED  BY <3>2, <3>3, <3>4, <3>5 DEF GoodClient
  <2> QED  BY <2>1, <2>2
<1> QED  BY <1>2, <1>3, <1>4

\* A page that fails ends a review as not attested, and any other job in error.
LEMMA FailedIsGood ==
    ASSUME NEW c, NEW th, NEW mt, NEW occ, GoodClient(c, frame[c], th, mt, occ),
           frame[c].pc = "fetch", NEW g, g = Failed(c)
    PROVE  GoodClient(c, g, th, mt, occ)
<1>1. PICK f : f = frame[c]  OBVIOUS
<1>2. PICK h : h = [f EXCEPT !.failed = TRUE, !.got = {}]  OBVIOUS
<1>3. PICK v : v = IF job[c].does = "review" THEN "notAttested" ELSE "error"  OBVIOUS
<1>4. g = Done(h, v)  BY <1>1, <1>2, <1>3 DEF Failed
<1>5. isFrame(h) /\ h.failed = TRUE /\ h.got = {}
  <2>1. isFrame(f)  BY <1>1 DEF GoodClient
  <2>2. h = [pc |-> f.pc, token |-> f.token, got |-> {}, att |-> f.att,
             verdict |-> f.verdict, failed |-> TRUE]
    BY <1>2, <2>1 DEF isFrame
  <2> QED  BY <2>2 DEF isFrame
<1>6. isFrame(g) /\ g.pc = "done" /\ g.verdict = v /\ g.failed = TRUE /\ g.got = {}
  BY <1>4, <1>5, DoneFrame
<1>7. GoodPlace(job[c], g)  BY <1>6 DEF GoodPlace
<1>8. GoodListing(job[c], g, th, mt, occ)  BY <1>6, FS_EmptySet DEF GoodClient, GoodListing
<1>9. GoodVerdict(job[c], g, th)  BY <1>3, <1>6 DEF GoodClient, GoodVerdict
<1> QED  BY <1>6, <1>7, <1>8, <1>9 DEF GoodClient

LEMMA StepFetchPage ==
    ASSUME VInv, NEW c \in Clients, FetchPage(c)
    PROVE  VInv'
<1>1. ShapeInv /\ PlacesInv /\ ServerInv /\ ClientsInv  BY DEF VInv
<1>2. PICK fr, th, mt, occ : fr = frame[c] /\ th = there[c] /\ mt = met[c] /\ occ = occurrences
  OBVIOUS
<1>3. GoodClient(c, fr, th, mt, occ) /\ fr.pc = "fetch"  BY <1>1, <1>2 DEF ClientsInv, FetchPage
<1>4. PICK ok \in BOOLEAN, r \in Pages(c) :
         /\ Call(ok)
         /\ Go(c, IF ~ok THEN Failed(c)
                  ELSE IF fr.got \cup r.page = {} \/ r.token = 0
                       THEN Listing(c, [fr EXCEPT !.got = fr.got \cup r.page, !.token = r.token])
                       ELSE [fr EXCEPT !.got = fr.got \cup r.page, !.token = r.token])
  BY <1>2 DEF FetchPage
<1>5. UNCHANGED <<server, disk, given, occurrences, history, last, edits>>  BY DEF FetchPage, outside
<1>6. faults' \in 0..MaxFaults  BY <1>1, <1>4, Calls
<1>7. /\ isFrame(fr) /\ fr.verdict = "none" /\ fr.failed = FALSE
      /\ job[c].does \in {"review", "vulnerabilities", "delete"}
      /\ job[c].does = "review" => ~allowed(job[c])
      /\ fr.token \in Nat /\ fr.got \subseteq mt /\ IsFiniteSet(fr.got)
      /\ th \subseteq mt /\ th \subseteq occ /\ \A o \in mt : listed(o, job[c])
      /\ \A o \in occ : listed(o, job[c]) => o \in mt
      /\ \A o \in th : o \in fr.got \/ o.place > fr.token
  BY <1>3 DEF GoodClient, GoodPlace, GoodListing, GoodVerdict
<1>8. PICK got : got = fr.got \cup r.page  OBVIOUS
<1>9. PICK f : f = [fr EXCEPT !.got = got, !.token = r.token]  OBVIOUS
<1>10. isFrame(f) /\ f.pc = "fetch" /\ f.verdict = "none" /\ f.failed = FALSE
       /\ f.got = got /\ f.token = r.token
  <2>1. f = [pc |-> fr.pc, token |-> r.token, got |-> got, att |-> fr.att,
             verdict |-> fr.verdict, failed |-> fr.failed]
    BY <1>7, <1>9 DEF isFrame
  <2> QED  BY <1>3, <1>7, <2>1 DEF isFrame
<1>11. /\ \A o \in r.page : o \in occ /\ listed(o, job[c])
       /\ IsFiniteSet(r.page) /\ r.token \in Nat
       /\ \A o \in th : o \in got \/ (r.token # 0 /\ o.place > r.token)
  <2>1. /\ r.page \subseteq Listed(c, occurrences) /\ IsFiniteSet(r.page) /\ r.token \in Nat
        /\ \A o \in Listed(c, occurrences) :
              o.place > frame[c].token => o \in r.page \/ (r.token # 0 /\ o.place > r.token)
    BY <1>1, <1>2, <1>7, PageFacts
  <2>2. Listed(c, occurrences) = {o \in occ : listed(o, job[c])}  BY <1>2 DEF Listed
  <2> QED  BY <1>2, <1>7, <1>8, <2>1, <2>2
<1>12. got \in SUBSET mt /\ IsFiniteSet(got)
  BY <1>7, <1>8, <1>11, FS_Union
<1>13. CASE ~ok
  <2>1. PICK g : g = Failed(c)  OBVIOUS
  <2>2. Go(c, g)  BY <1>4, <1>13, <2>1
  <2>3. GoodClient(c, g, th, mt, occ)  BY <1>2, <1>3, <2>1, FailedIsGood
  <2> QED  BY <1>2, <1>5, <1>6, <2>2, <2>3, LocalStep
<1>14. CASE ok /\ (got = {} \/ r.token = 0)
  <2>1. PICK g : g = Listing(c, f)  OBVIOUS
  <2>2. Go(c, g)  BY <1>4, <1>8, <1>9, <1>14, <2>1
  <2>3. th \subseteq f.got \/ brokeOff(f)  BY <1>10, <1>11, <1>14 DEF brokeOff
  <2>4. f.got \in SUBSET mt /\ IsFiniteSet(f.got) /\ th \in SUBSET mt /\ th \in SUBSET occ
    BY <1>7, <1>10, <1>12
  <2>5. GoodClient(c, g, th, mt, occ)  BY <1>7, <1>10, <2>1, <2>3, <2>4, ListingIsGood
  <2> QED  BY <1>2, <1>5, <1>6, <2>2, <2>5, LocalStep
<1>15. CASE ok /\ got # {} /\ r.token # 0
  <2>1. Go(c, f)  BY <1>4, <1>8, <1>9, <1>15
  <2>2. GoodPlace(job[c], f)  BY <1>7, <1>10 DEF GoodPlace
  <2>3. \A o \in th : o \in f.got \/ o.place > f.token  BY <1>10, <1>11
  <2>4. GoodListing(job[c], f, th, mt, occ)
    BY <1>7, <1>10, <1>11, <1>12, <1>15, <2>3 DEF GoodListing
  <2>5. GoodVerdict(job[c], f, th)  BY <1>7, <1>10 DEF GoodVerdict
  <2>6. GoodClient(c, f, th, mt, occ)  BY <1>10, <2>2, <2>4, <2>5 DEF GoodClient
  <2> QED  BY <1>2, <1>5, <1>6, <2>1, <2>6, LocalStep
<1> QED  BY <1>13, <1>14, <1>15

\* The end of a step that may have failed: the frame h with or without its mark,
\* and a verdict that is no answer about an image.
LEMMA EndsFailed ==
    ASSUME NEW c, NEW f, NEW th, NEW mt, NEW occ, GoodClient(c, f, th, mt, occ),
           NEW b \in BOOLEAN, NEW v, v \notin {"attested", "notAttested", "listed", "allowed"},
           NEW g, g = Done([f EXCEPT !.failed = b], v)
    PROVE  GoodClient(c, g, th, mt, occ) /\ g.pc = "done"
<1>1. isFrame(f)  BY DEF GoodClient
<1>2. PICK h : h = [f EXCEPT !.failed = b]  OBVIOUS
<1>3. isFrame(h) /\ h.failed = b /\ h.got = f.got  BY <1>1, <1>2, FailedFrame
<1>a. g = Done(h, v)  BY <1>2
<1>4. isFrame(g) /\ g.pc = "done" /\ g.verdict = v /\ g.failed = b /\ g.got = f.got
  BY <1>a, <1>3, DoneFrame
<1>5. g.failed \in BOOLEAN /\ g.got \in SUBSET f.got
      /\ g.verdict \notin {"attested", "notAttested", "listed", "allowed"}
  BY <1>4
<1> QED  BY <1>4, <1>5, Ends

LEMMA StepDelete ==
    ASSUME VInv, NEW c \in Clients, Delete(c)
    PROVE  VInv'
<1>1. ShapeInv /\ PlacesInv /\ ServerInv /\ ClientsInv  BY DEF VInv
<1>2. PICK f, th, mt, occ : f = frame[c] /\ th = there[c] /\ mt = met[c] /\ occ = occurrences
  OBVIOUS
<1>3. GoodClient(c, f, th, mt, occ) /\ f.pc = "delete"  BY <1>1, <1>2 DEF ClientsInv, Delete
<1>4. PICK o \in f.got, ok, done \in BOOLEAN :
         /\ Call(ok)
         /\ occurrences' = IF done THEN occurrences \ {o} ELSE occurrences
         /\ Go(c, Done([f EXCEPT !.failed = ~ok],
                       IF ok /\ o \in occurrences THEN "deleted" ELSE "error"))
  BY <1>2 DEF Delete
<1>5. UNCHANGED <<server, disk, given, last, edits>> /\ Observe  BY DEF Delete, outside
<1>6. faults' \in 0..MaxFaults  BY <1>1, <1>4, Calls
<1>7. occurrences' \in SUBSET occurrences  BY <1>4
<1>8. PlacesInv'
  <2>1. IsFiniteSet(occurrences')  BY <1>1, <1>7, FS_Subset DEF PlacesInv
  <2> QED  BY <1>1, <1>5, <1>7, <2>1 DEF PlacesInv
<1>9. PICK v : v = IF ok /\ o \in occurrences THEN "deleted" ELSE "error"  OBVIOUS
<1>a. PICK b \in BOOLEAN : b = ~ok  OBVIOUS
<1>10. PICK g : g = Done([f EXCEPT !.failed = b], v)  OBVIOUS
<1>11. Go(c, g)  BY <1>4, <1>9, <1>10, <1>a
<1>12. v \notin {"attested", "notAttested", "listed", "allowed"}  BY <1>9
<1>13. GoodClient(c, g, th, mt, occ) /\ g.pc = "done"  BY <1>3, <1>10, <1>12, EndsFailed
<1>14. frame[c].pc # "fetch" /\ g.pc # "fetch"  BY <1>2, <1>3, <1>13
<1> QED  BY <1>2, <1>5, <1>6, <1>8, <1>11, <1>13, <1>14, FilingStep

\* A client that goes on to another step of its attestation.
LEMMA GoesOn ==
    ASSUME NEW c, NEW f, NEW th, NEW mt, NEW occ, GoodClient(c, f, th, mt, occ),
           f.pc \in {"start", "notes", "sign"}, job[c].does = "attest",
           NEW g, isFrame(g), g.pc \in {"notes", "sign", "upload"},
           g.verdict = f.verdict, g.failed = f.failed, g.got = f.got,
           g.pc = "upload" => g.att = CreateAttestation(job[c], TRUE) /\ ~failed(g.att)
    PROVE  GoodClient(c, g, th, mt, occ)
<1>1. f.verdict = "none" /\ f.failed = FALSE  BY DEF GoodClient, GoodPlace
<1>2. GoodPlace(job[c], g)  BY <1>1 DEF GoodPlace
<1>3. GoodListing(job[c], g, th, mt, occ)  BY <1>1 DEF GoodClient, GoodListing
<1>4. GoodVerdict(job[c], g, th)  BY <1>1 DEF GoodVerdict
<1> QED  BY <1>2, <1>3, <1>4 DEF GoodClient

LEMMA StepExampleNote ==
    ASSUME VInv, NEW c \in Clients, ExampleNote(c)
    PROVE  VInv'
<1>1. ShapeInv /\ PlacesInv /\ ServerInv /\ ClientsInv  BY DEF VInv
<1>2. PICK f, th, mt, occ : f = frame[c] /\ th = there[c] /\ mt = met[c] /\ occ = occurrences
  OBVIOUS
<1>3. GoodClient(c, f, th, mt, occ) /\ f.pc = "start" /\ job[c].does = "attest"
  BY <1>1, <1>2 DEF ClientsInv, ExampleNote
<1>4. PICK ok \in BOOLEAN :
         /\ Call(ok)
         /\ \/ Go(c, [f EXCEPT !.pc = "notes"])
            \/ Go(c, Done([f EXCEPT !.failed = TRUE], "error"))
  BY <1>2 DEF ExampleNote
<1>5. UNCHANGED <<server, disk, given, occurrences, history, last, edits>>
  BY DEF ExampleNote, outside
<1>6. faults' \in 0..MaxFaults  BY <1>1, <1>4, Calls
<1>7. CASE Go(c, [f EXCEPT !.pc = "notes"])
  <2>1. PICK g : g = [f EXCEPT !.pc = "notes"]  OBVIOUS
  <2>2. isFrame(f)  BY <1>3 DEF GoodClient
  <2>3. isFrame(g) /\ g.pc = "notes" /\ g.verdict = f.verdict /\ g.failed = f.failed /\ g.got = f.got
    BY <2>1, <2>2, PcFrame
  <2>4. GoodClient(c, g, th, mt, occ)  BY <1>3, <2>3, GoesOn
  <2> QED  BY <1>2, <1>5, <1>6, <1>7, <2>1, <2>4, LocalStep
<1>8. CASE Go(c, Done([f EXCEPT !.failed = TRUE], "error"))
  <2>1. PICK g : g = Done([f EXCEPT !.failed = TRUE], "error")  OBVIOUS
  <2>2. GoodClient(c, g, th, mt, occ)  BY <1>3, <2>1, EndsFailed
  <2> QED  BY <1>2, <1>5, <1>6, <1>8, <2>1, <2>2, LocalStep
<1> QED  BY <1>4, <1>7, <1>8

LEMMA StepExampleListNotes ==
    ASSUME VInv, NEW c \in Clients, ExampleListNotes(c)
    PROVE  VInv'
<1>1. ShapeInv /\ PlacesInv /\ ServerInv /\ ClientsInv  BY DEF VInv
<1>2. PICK f, th, mt, occ : f = frame[c] /\ th = there[c] /\ mt = met[c] /\ occ = occurrences
  OBVIOUS
<1>3. GoodClient(c, f, th, mt, occ) /\ f.pc = "notes"
  BY <1>1, <1>2 DEF ClientsInv, ExampleListNotes
<1>4. PICK ok \in BOOLEAN :
         /\ Call(ok)
         /\ \/ Go(c, [f EXCEPT !.pc = "sign"])
            \/ Go(c, Done([f EXCEPT !.failed = TRUE], "error"))
  BY <1>2 DEF ExampleListNotes
<1>5. UNCHANGED <<server, disk, given, occurrences, history, last, edits>>
  BY DEF ExampleListNotes, outside
<1>6. faults' \in 0..MaxFaults  BY <1>1, <1>4, Calls
<1>7. CASE Go(c, [f EXCEPT !.pc = "sign"])
  <2>1. PICK g : g = [f EXCEPT !.pc = "sign"]  OBVIOUS
  <2>2. isFrame(f) /\ job[c].does = "attest"  BY <1>3 DEF GoodClient, GoodPlace
  <2>3. isFrame(g) /\ g.pc = "sign" /\ g.verdict = f.verdict /\ g.failed = f.failed /\ g.got = f.got
    BY <2>1, <2>2, PcFrame
  <2>4. GoodClient(c, g, th, mt, occ)  BY <1>3, <2>2, <2>3, GoesOn
  <2> QED  BY <1>2, <1>5, <1>6, <1>7, <2>1, <2>4, LocalStep
<1>8. CASE Go(c, Done([f EXCEPT !.failed = TRUE], "error"))
  <2>1. PICK g : g = Done([f EXCEPT !.failed = TRUE], "error")  OBVIOUS
  <2>2. GoodClient(c, g, th, mt, occ)  BY <1>3, <2>1, EndsFailed
  <2> QED  BY <1>2, <1>5, <1>6, <1>8, <2>1, <2>2, LocalStep
<1> QED  BY <1>4, <1>7, <1>8

LEMMA StepSign ==
    ASSUME VInv, NEW c \in Clients, Sign(c)
    PROVE  VInv'
<1>1. ShapeInv /\ PlacesInv /\ ServerInv /\ ClientsInv  BY DEF VInv
<1>2. PICK f, th, mt, occ : f = frame[c] /\ th = there[c] /\ mt = met[c] /\ occ = occurrences
  OBVIOUS
<1>3. GoodClient(c, f, th, mt, occ) /\ f.pc \in {"start", "sign"} /\ job[c].does = "attest"
  BY <1>1, <1>2 DEF ClientsInv, Sign, signing
<1>4. PICK ok \in BOOLEAN :
         LET att == CreateAttestation(job[c], ok) IN
         /\ Call(ok)
         /\ Go(c, IF failed(att) THEN Done([f EXCEPT !.failed = TRUE], att.PublicKeyID[1])
                  ELSE [f EXCEPT !.pc = "upload", !.att = att])
  BY <1>2 DEF Sign
<1>5. UNCHANGED <<server, disk, given, occurrences, history, last, edits>>  BY DEF Sign, outside
<1>6. faults' \in 0..MaxFaults  BY <1>1, <1>4, Calls
<1>7. PICK att : att = CreateAttestation(job[c], ok)  OBVIOUS
<1>8. CASE failed(att)
  <2>1. PICK g : g = Done([f EXCEPT !.failed = TRUE], att.PublicKeyID[1])  OBVIOUS
  <2>2. att.PublicKeyID[1] \in {"error", "panic"}
    <3>1. ErrorID[1] = "error" /\ PanicID[1] = "panic"  BY DEF ErrorID, PanicID
    <3>2. att.PublicKeyID = ErrorID \/ att.PublicKeyID = PanicID  BY <1>8 DEF failed
    <3> QED  BY <3>1, <3>2
  <2>3. att.PublicKeyID[1] \notin {"attested", "notAttested", "listed", "allowed"}  BY <2>2
  <2>4. GoodClient(c, g, th, mt, occ)  BY <1>3, <2>1, <2>3, EndsFailed
  <2>5. Go(c, g)  BY <1>4, <1>7, <1>8, <2>1
  <2> QED  BY <1>2, <1>5, <1>6, <2>4, <2>5, LocalStep
<1>9. CASE ~failed(att)
  <2>1. PICK g : g = [f EXCEPT !.pc = "upload", !.att = att]  OBVIOUS
  <2>2. Go(c, g)  BY <1>4, <1>7, <1>9, <2>1
  <2>3. ok = TRUE
    <3>1. ~ok => att = jwtAttestation  BY <1>7 DEF CreateAttestation
    <3>2. failed(jwtAttestation)  BY DEF failed, jwtAttestation, NoAttestation
    <3> QED  BY <1>9, <3>1, <3>2
  <2>4. isFrame(f)  BY <1>3 DEF GoodClient
  <2>5. /\ isFrame(g) /\ g.pc = "upload" /\ g.verdict = f.verdict /\ g.failed = f.failed
        /\ g.got = f.got /\ g.att = att
    <3>1. g = [pc |-> "upload", token |-> f.token, got |-> f.got, att |-> att,
               verdict |-> f.verdict, failed |-> f.failed]
      BY <2>1, <2>4 DEF isFrame
    <3> QED  BY <3>1 DEF isFrame
  <2>6. g.att = CreateAttestation(job[c], TRUE) /\ ~failed(g.att)  BY <1>7, <1>9, <2>3, <2>5
  <2>7. GoodClient(c, g, th, mt, occ)  BY <1>3, <2>5, <2>6, GoesOn
  <2> QED  BY <1>2, <1>5, <1>6, <2>2, <2>7, LocalStep
<1> QED  BY <1>8, <1>9

LEMMA StepUpload ==
    ASSUME VInv, NEW c \in Clients, Upload(c)
    PROVE  VInv'
<1>1. ShapeInv /\ PlacesInv /\ ServerInv /\ ClientsInv  BY DEF VInv
<1>2. PICK f, th, mt, occ : f = frame[c] /\ th = there[c] /\ mt = met[c] /\ occ = occurrences
  OBVIOUS
<1>3. GoodClient(c, f, th, mt, occ) /\ f.pc = "upload"  BY <1>1, <1>2 DEF ClientsInv, Upload
<1>4. PICK ok, done \in BOOLEAN :
         /\ Call(ok)
         /\ occurrences' = IF done THEN occurrences \cup {newOccurrence(c, last + 1)}
                           ELSE occurrences
         /\ last' = IF done THEN last + 1 ELSE last
         /\ Go(c, Done([f EXCEPT !.att = jwtAttestation, !.failed = ~ok],
                       IF ok THEN "filed" ELSE "error"))
  BY <1>2 DEF Upload
<1>5. UNCHANGED <<server, disk, given, edits>> /\ Observe  BY DEF Upload, outside
<1>6. faults' \in 0..MaxFaults  BY <1>1, <1>4, Calls
<1>7. PlacesInv'
  <2>1. CASE done
    <3>1. PICK n : n = newOccurrence(c, last + 1)  OBVIOUS
    <3>2. n.place = last + 1  BY <3>1 DEF newOccurrence
    <3>3. occurrences' = occurrences \cup {n} /\ last' = last + 1  BY <1>4, <2>1, <3>1
    <3>4. /\ last \in Nat /\ IsFiniteSet(occurrences)
          /\ \A o, p \in occurrences : o.place = p.place => o = p
          /\ \A o \in occurrences : o.place \in 1..last
      BY <1>1 DEF PlacesInv
    <3>5. IsFiniteSet(occurrences')  BY <3>3, <3>4, FS_AddElement
    <3>6. \A o \in occurrences' : o.place \in 1..last'  BY <3>2, <3>3, <3>4
    <3>7. \A o \in occurrences : o.place # n.place  BY <3>2, <3>4
    <3>8. \A o, p \in occurrences' : o.place = p.place => o = p  BY <3>3, <3>4, <3>7
    <3> QED  BY <3>3, <3>4, <3>5, <3>6, <3>8 DEF PlacesInv
  <2>2. CASE ~done  BY <1>1, <1>4, <2>2 DEF PlacesInv
  <2> QED  BY <2>1, <2>2
<1>8. PICK v : v = IF ok THEN "filed" ELSE "error"  OBVIOUS
<1>9. PICK h : h = [f EXCEPT !.att = jwtAttestation, !.failed = ~ok]  OBVIOUS
<1>10. PICK g : g = Done(h, v)  OBVIOUS
<1>11. Go(c, g)  BY <1>4, <1>8, <1>9, <1>10
<1>12. isFrame(h) /\ h.failed = ~ok /\ h.got = f.got
  <2>1. isFrame(f)  BY <1>3 DEF GoodClient
  <2>2. h = [pc |-> f.pc, token |-> f.token, got |-> f.got, att |-> jwtAttestation,
             verdict |-> f.verdict, failed |-> ~ok]
    BY <1>9, <2>1 DEF isFrame
  <2> QED  BY <2>2 DEF isFrame
<1>13. isFrame(g) /\ g.pc = "done" /\ g.verdict = v /\ g.failed = ~ok /\ g.got = f.got
  BY <1>10, <1>12, DoneFrame
<1>14. /\ g.failed \in BOOLEAN /\ g.got \in SUBSET f.got
       /\ g.verdict \notin {"attested", "notAttested", "listed", "allowed"}
  BY <1>8, <1>13
<1>15. GoodClient(c, g, th, mt, occ)  BY <1>3, <1>13, <1>14, Ends
<1>16. frame[c].pc # "fetch" /\ g.pc # "fetch"  BY <1>2, <1>3, <1>13
<1> QED  BY <1>2, <1>5, <1>6, <1>7, <1>11, <1>15, <1>16, FilingStep

LEMMA StepStutter ==
    ASSUME VInv, UNCHANGED vars
    PROVE  VInv'
<1>1. ShapeInv /\ PlacesInv /\ ServerInv /\ ClientsInv  BY DEF VInv
<1>2. UNCHANGED <<server, disk, given, occurrences, frame, there, met, last, faults, edits>>
  BY DEF vars, outside, history
<1>3. ShapeInv'  BY <1>1, <1>2 DEF ShapeInv, MaxFaults, MaxEdits
<1>4. PlacesInv'  BY <1>1, <1>2 DEF PlacesInv
<1>5. ServerInv'  BY <1>1, <1>2, ServerStays
<1>6. ClientsInv'  BY <1>1, <1>2, ClientsStep DEF ClientsInv
<1> QED  BY <1>3, <1>4, <1>5, <1>6 DEF VInv

-----------------------------------------------------------------------------
(* The theorems.                                                           *)

\* The invariant: places of occurrences, the server's client, and what each
\* client has fetched and concluded, at every point of every interleaving of
\* the paging loops, the attestors and the deletions.
THEOREM VerificationInvariant == Spec => []VInv
<1>1. Init => VInv  BY InitVInv
<1>2. ASSUME VInv, [Next]_vars PROVE VInv'
  BY <1>2, StepBoot, StepCronStart, StepEditDisk, StepEditOccurrences, StepStartReview,
     StepStartListing, StepFetchPage, StepDelete, StepExampleNote, StepExampleListNotes,
     StepSign, StepUpload, StepStutter
  DEF Next, Work
<1> QED  BY <1>1, <1>2, PTL DEF Spec

\* Type correctness: every occurrence has a place of its own, a client is where
\* its job may be, and what it is about to file is signed.
THEOREM TypeCorrect == Spec => []TypeOK
BY VerificationInvariant, InvTypeOK, PTL

\* fetchAttestationOccurrence and fetchVulnerabilityOccurrence, for every page
\* size and every cut of the pages, empty ones included: a loop that ends without an
\* error has all that was there throughout and nothing that was never there, or it
\* has broken off at an empty first page and has nothing.  It never has a part.
THEOREM ListingsAreComplete == Spec => []FetchComplete
BY VerificationInvariant, InvFetchComplete, PTL

\* GetValidatedAttestations over pages agrees with the one-step lookup of
\* Admission, on all that was met and on all that was there throughout.
THEOREM AttestedIsSigned == Spec => []AcceptedMeansSigned
BY VerificationInvariant, InvAcceptedMeansSigned, PTL

\* imageInGlobalAllowlist and imageInGapAllowlist: a review skips the attestations
\* of exactly the images the lists stand for, whatever the lists are.
THEOREM AllowlistsAreExact == Spec => []SkipsTheAllowed
BY VerificationInvariant, InvSkipsTheAllowed, PTL

\* verifyDetached accepts what pkixSigner and kmsSigner make under the same key,
\* the same payload and the algorithms of the same JWA name, and nothing else.
THEOREM DetachedSignaturesAreExact == Spec => []DetachedExact
BY VerificationInvariant, InvDetachedExact, PTL

\* main of the admission server: what serves has made its metadata client once,
\* so that no request panics on a missing certificate configuration.
THEOREM ServingHasClient == Spec => []ServingMeansClient
<1>1. VInv => ServingMeansClient  BY DEF VInv, ServerInv
<1> QED  BY <1>1, VerificationInvariant, PTL

\* DeleteAttestationOccurrence deletes one occurrence at most, one it has listed,
\* and only when no other one was there from its first page on.
THEOREM DeletionIsOfTheOne == Spec => DeletesTheOne
<1>1. ASSUME VInv, Next
      PROVE  \A c \in Clients :
                frame[c].pc = "delete" /\ frame'[c].pc = "done" =>
                    /\ occurrences \ occurrences' \subseteq met[c]
                    /\ Cardinality(occurrences \ occurrences') <= 1
                    /\ there[c] \subseteq frame[c].got /\ Cardinality(there[c]) <= 1
  <2> SUFFICES ASSUME NEW c \in Clients, frame[c].pc = "delete", frame'[c].pc = "done"
               PROVE  /\ occurrences \ occurrences' \subseteq met[c]
                      /\ Cardinality(occurrences \ occurrences') <= 1
                      /\ there[c] \subseteq frame[c].got /\ Cardinality(there[c]) <= 1
    OBVIOUS
  <2>1. ShapeInv /\ GoodClient(c, frame[c], there[c], met[c], occurrences)
    BY <1>1 DEF VInv, ClientsInv
  <2>2. /\ there[c] \subseteq frame[c].got /\ frame[c].got \subseteq met[c]
        /\ IsFiniteSet(frame[c].got) /\ Cardinality(frame[c].got) = 1
    <3>1. ~frame[c].failed  BY <2>1 DEF GoodClient, GoodPlace
    <3>2. /\ there[c] \subseteq frame[c].got \/ brokeOff(frame[c])
          /\ frame[c].got \subseteq met[c] /\ IsFiniteSet(frame[c].got)
          /\ Cardinality(frame[c].got) = 1
      BY <2>1, <3>1 DEF GoodClient, GoodListing
    <3>3. frame[c].got # {}  BY <3>2, FS_EmptySet
    <3> QED  BY <3>2, <3>3 DEF brokeOff
  <2>3. Cardinality(there[c]) <= 1
    BY <2>2, FS_Subset
  <2>4. Delete(c)
    <3>1. frame' # frame  OBVIOUS
    <3>2. ~Boot /\ ~EditDisk /\ ~EditOccurrences  BY <3>1 DEF Boot, EditDisk, EditOccurrences
    <3>3. ~CronStart
      <4>1. CronStart => frame'[c] = frame[c]  BY DEF CronStart
      <4> QED  BY <4>1
    <3>4. PICK d \in Clients : Work(d)  BY <1>1, <3>2, <3>3 DEF Next
    <3>5. d = c
      <4>1. \E f : Go(d, f)
        BY <3>4 DEF Work, StartReview, StartListing, StartFetch, FetchPage, Delete, ExampleNote,
                    ExampleListNotes, Sign, Upload
      <4> QED  BY <2>1, <4>1, Goes
    <3>6. /\ ~StartReview(c) /\ ~StartListing(c) /\ ~FetchPage(c) /\ ~ExampleNote(c)
          /\ ~ExampleListNotes(c) /\ ~Sign(c) /\ ~Upload(c)
      BY DEF StartReview, StartListing, FetchPage, ExampleNote, ExampleListNotes, Sign, signing, Upload
    <3> QED  BY <3>4, <3>5, <3>6 DEF Work
  <2>5. PICK o \in frame[c].got : occurrences \ occurrences' \in SUBSET {o}  BY <2>4 DEF Delete
  <2>6. Cardinality(occurrences \ occurrences') <= 1
    <3>1. IsFiniteSet({o}) /\ Cardinality({o}) = 1  BY FS_Singleton
    <3> QED  BY <2>5, <3>1, FS_Subset
  <2> QED  BY <2>2, <2>3, <2>5, <2>6
<1>2. VInv /\ [Next]_vars =>
         [\A c \in Clients :
             frame[c].pc = "delete" /\ frame'[c].pc = "done" =>
                 /\ occurrences \ occurrences' \subseteq met[c]
                 /\ Cardinality(occurrences \ occurrences') <= 1
                 /\ there[c] \subseteq frame[c].got /\ Cardinality(there[c]) <= 1]_vars
  BY <1>1
<1> QED  BY <1>2, VerificationInvariant, PTL DEF Spec, DeletesTheOne

=============================================================================
