---------------------------- MODULE ResolveProofs ----------------------------
(***************************************************************************)
(* resolve-tags works on all the files or on none, and what it lets out    *)
(* mentions images by digest only: proved for any command line, manifests  *)
(* and registry.                                                           *)
(*                                                                         *)
(* The walks over a document are recursive functions.  That they have the  *)
(* values their definitions say is the lemma Recursion, by induction over  *)
(* the height of a node; what follows about a document is stated with the  *)
(* least set of nodes closed under kids.  FInv says how far the loops of   *)
(* the tool have come, PInv what the manifests hold meanwhile.             *)
(***************************************************************************)
EXTENDS Resolve, FiniteSetTheorems, SequenceTheorems, WellFoundedInduction, TLAPS

-----------------------------------------------------------------------------
(* Induction and recursion. *)

\* A set of natural numbers has a least element.
LEMMA Least ==
    ASSUME NEW S \in SUBSET Nat, S # {}
    PROVE  \E m \in S : \A n \in S : m <= n
<1>1. IsWellFoundedOn(OpToRel(<, Nat), Nat)
  BY NatLessThanWellFounded
<1>2. PICK m \in S : \A n \in S : ~(<<n, m>> \in OpToRel(<, Nat))
  BY <1>1, WFMin, Zenon
<1>3. \A n \in S : ~(n < m)
  BY <1>2 DEF OpToRel
<1> QED BY <1>3

\* Induction over a set of numbers.
LEMMA Induction ==
    ASSUME NEW S \in SUBSET Nat, 0 \in S, \A k \in S : k + 1 \in S
    PROVE  S = Nat
<1> SUFFICES ASSUME Nat \ S # {} PROVE FALSE
  OBVIOUS
<1>1. PICK m \in Nat \ S : \A n \in Nat \ S : m <= n
  BY Least
<1>2. m # 0 /\ m - 1 \in Nat
  BY <1>1
<1>3. m - 1 \in S
  BY <1>1, <1>2
<1> QED BY <1>1, <1>2, <1>3

\* A definition by recursion on N, D[<<n, f>>] being what it says of n when the
\* rest is f, looks only at elements of a smaller rank; and it has a solution.
WellFormed(N, R, rank, K, D) ==
    /\ R # {} /\ K \in Nat
    /\ \A n \in N : rank[n] \in 0..K
    /\ D \in [N \X [N -> R] -> R]
    /\ \A n \in N : \A f, g \in [N -> R] :
          (\A m \in N : rank[m] < rank[n] => f[m] = g[m]) => D[<<n, f>>] = D[<<n, g>>]
Solvable(N, R, D) == \E f \in [N -> R] : \A n \in N : f[n] = D[<<n, f>>]

\* A recursion on a rank has a solution: the functions that solve it below rank
\* k, by induction on k.
LEMMA Recursion ==
    ASSUME NEW N, NEW R, NEW rank, NEW K, NEW D, WellFormed(N, R, rank, K, D)
    PROVE  Solvable(N, R, D)
<1>0. \A a, b \in Nat : a <= b /\ a # b => a < b
  OBVIOUS
<1> USE DEF WellFormed, Solvable
<1> DEFINE Solves(f, k) == \A n \in N : rank[n] < k => f[n] = D[<<n, f>>]
           S == {k \in Nat : \E f \in [N -> R] : Solves(f, k)}
<1>1. 0 \in S
  <2>1. PICK r \in R : TRUE
    OBVIOUS
  <2>2. [n \in N |-> r] \in [N -> R] /\ Solves([n \in N |-> r], 0)
    OBVIOUS
  <2> QED BY <2>2
<1>2. ASSUME NEW k \in S PROVE k + 1 \in S
  <2>1. PICK f \in [N -> R] : Solves(f, k)
    OBVIOUS
  <2>2. PICK g : g = [n \in N |-> IF rank[n] = k THEN D[<<n, f>>] ELSE f[n]]
    OBVIOUS
  <2>3. g \in [N -> R]
    BY <2>2
  <2>4. ASSUME NEW n \in N, rank[n] < k + 1 PROVE g[n] = D[<<n, g>>]
    <3>1. k \in Nat /\ rank[n] \in Nat /\ rank[n] <= k
      BY <2>4
    <3>2. \A m \in N : rank[m] < rank[n] => f[m] = g[m]
      BY <2>2, <3>1
    <3>3. D[<<n, f>>] = D[<<n, g>>]
      BY <2>3, <3>2
    <3>4. CASE rank[n] = k
      <4>1. g[n] = D[<<n, f>>]
        BY <2>2, <3>4
      <4> QED BY <3>3, <4>1
    <3>5. CASE rank[n] # k
      <4>1. g[n] = f[n]
        BY <2>2, <3>5
      <4>2. rank[n] < k
        BY <3>1, <3>5, <1>0
      <4> QED BY <2>1, <3>3, <4>1, <4>2
    <3> QED BY <3>4, <3>5
  <2> QED BY <2>3, <2>4
<1>3. S = Nat
  <2> HIDE DEF S
  <2>1. S \in SUBSET Nat
    BY DEF S
  <2> QED BY <1>1, <1>2, <2>1, Induction
<1>4. PICK f \in [N -> R] : Solves(f, K + 1)
  <2>1. K + 1 \in S
    <3> HIDE DEF S
    <3> QED BY <1>3
  <2> QED BY <2>1
<1>5. \A n \in N : rank[n] < K + 1
  OBVIOUS
<1> QED BY <1>4, <1>5

\* Two lists of images one after the other have the images of both.
LEMMA RangeConcat ==
    ASSUME NEW V, NEW a \in Seq(V), NEW b \in Seq(V)
    PROVE  Range(a \o b) = Range(a) \cup Range(b)
<1>1. DOMAIN (a \o b) = 1..(Len(a) + Len(b)) /\ DOMAIN a = 1..Len(a) /\ DOMAIN b = 1..Len(b)
  OBVIOUS
<1>2. \A i \in 1..Len(a) : i \in 1..(Len(a) + Len(b)) /\ (a \o b)[i] = a[i]
  OBVIOUS
<1>3. \A i \in 1..Len(b) : /\ Len(a) + i \in 1..(Len(a) + Len(b))
                           /\ (a \o b)[Len(a) + i] = b[i]
  OBVIOUS
<1>4. ASSUME NEW i \in 1..(Len(a) + Len(b)) PROVE (a \o b)[i] \in Range(a) \cup Range(b)
  <2>1. CASE i \in 1..Len(a)
    BY <1>1, <1>2, <2>1 DEF Range
  <2>2. CASE i \notin 1..Len(a)
    <3>1. i - Len(a) \in 1..Len(b) /\ Len(a) + (i - Len(a)) = i
      BY <2>2
    <3>2. (a \o b)[i] = b[i - Len(a)]
      BY <1>3, <3>1
    <3> QED BY <1>1, <3>1, <3>2 DEF Range
  <2> QED BY <2>1, <2>2
<1>5. Range(a \o b) \subseteq Range(a) \cup Range(b)
  <2>1. ASSUME NEW y \in Range(a \o b) PROVE y \in Range(a) \cup Range(b)
    <3>1. PICK i \in DOMAIN (a \o b) : y = (a \o b)[i]
      BY <2>1 DEF Range
    <3> QED BY <1>1, <1>4, <3>1
  <2> QED BY <2>1
<1>6. Range(a) \subseteq Range(a \o b)
  <2>1. \A i \in DOMAIN a : a[i] \in Range(a \o b)
    BY <1>1, <1>2 DEF Range
  <2> QED BY <2>1 DEF Range
<1>7. Range(b) \subseteq Range(a \o b)
  <2>1. \A i \in DOMAIN b : b[i] \in Range(a \o b)
    BY <1>1, <1>3 DEF Range
  <2> QED BY <2>1 DEF Range
<1> QED BY <1>5, <1>6, <1>7

\* FlattenSeq concatenates: it returns a sequence, of what the parts hold.
LEMMA Flatten ==
    ASSUME NEW V, NEW s \in Seq(Seq(V))
    PROVE  /\ FlattenSeq(s) \in Seq(V)
           /\ \A x : x \in Range(FlattenSeq(s)) <=> \E i \in DOMAIN s : x \in Range(s[i])
<1>1. CASE s = << >>
  <2>1. FlattenSeq(s) = << >>
    BY <1>1 DEF FlattenSeq
  <2>2. Range(<< >>) = {} /\ DOMAIN s = {}
    BY <1>1 DEF Range
  <2> QED BY <2>1, <2>2
<1>2. CASE s # << >>
  <2> DEFINE L == Len(s)
             D == [a \in (1..L) \X [1..L -> Seq(V)] |->
                     IF a[1] = 1 THEN s[a[1]] ELSE a[2][a[1] - 1] \o s[a[1]]]
             id == [i \in 1..L |-> i]
  <2>1. L \in Nat \ {0} /\ DOMAIN s = 1..L /\ \A i \in 1..L : s[i] \in Seq(V)
    BY <1>2
  <2>2. D \in [(1..L) \X [1..L -> Seq(V)] -> Seq(V)]
    <3>1. ASSUME NEW i \in 1..L, NEW f \in [1..L -> Seq(V)] PROVE D[<<i, f>>] \in Seq(V)
      <4>1. CASE i = 1
        BY <2>1, <4>1
      <4>2. CASE i # 1
        <5>1. i - 1 \in 1..L
          BY <2>1, <4>2
        <5>2. f[i - 1] \in Seq(V) /\ s[i] \in Seq(V)
          BY <2>1, <5>1
        <5> QED BY <4>2, <5>2
      <4> QED BY <4>1, <4>2
    <3> QED BY <3>1
  <2>3. ASSUME NEW i \in 1..L, NEW f \in [1..L -> Seq(V)], NEW g \in [1..L -> Seq(V)],
               \A m \in 1..L : id[m] < id[i] => f[m] = g[m]
        PROVE  D[<<i, f>>] = D[<<i, g>>]
    <3>1. i # 1 => i - 1 \in 1..L /\ i - 1 < i
      BY <2>1
    <3>2. i # 1 => f[i - 1] = g[i - 1]
      BY <2>3, <3>1
    <3> QED BY <3>2
  <2>4. \A i \in 1..L : id[i] \in 0..L
    BY <2>1
  <2>5. << >> \in Seq(V)
    OBVIOUS
  <2>6. PICK f \in [1..L -> Seq(V)] : \A i \in 1..L : f[i] = D[<<i, f>>]
    <3>1. Seq(V) # {} /\ L \in Nat
      BY <2>1, <2>5
    <3>2. WellFormed(1..L, Seq(V), id, L, D)
      <4> HIDE DEF L, D, id
      <4>1. \A n \in 1..L : \A f, g \in [1..L -> Seq(V)] :
              (\A m \in 1..L : id[m] < id[n] => f[m] = g[m]) => D[<<n, f>>] = D[<<n, g>>]
        BY <2>3
      <4> QED BY <2>2, <2>4, <3>1, <4>1 DEF WellFormed
    <3> HIDE DEF L, D, id
    <3>3. Solvable(1..L, Seq(V), D)
      BY <3>2, Recursion
    <3> QED BY <3>3 DEF Solvable
  <2>7. f = [i \in 1..L |-> IF i = 1 THEN s[i] ELSE f[i - 1] \o s[i]]
    BY <2>6
  <2>8. PICK g : g = CHOOSE h : h = [i \in 1..L |-> IF i = 1 THEN s[i] ELSE h[i - 1] \o s[i]]
    OBVIOUS
  <2>9. g = [i \in 1..L |-> IF i = 1 THEN s[i] ELSE g[i - 1] \o s[i]]
    BY <2>7, <2>8
  <2>10. FlattenSeq(s) = g[L]
    BY <2>1, <2>8 DEF FlattenSeq
  <2> DEFINE S == {k \in Nat : k + 1 \in 1..L =>
                      /\ g[k + 1] \in Seq(V)
                      /\ \A x : x \in Range(g[k + 1]) <=> \E i \in 1..(k + 1) : x \in Range(s[i])}
  <2>11. 0 \in S
    <3>1. g[1] = s[1] /\ 1..1 = {1}
      BY <2>1, <2>9
    <3>2. \A x : x \in Range(s[1]) <=> \E i \in 1..1 : x \in Range(s[i])
      BY <3>1
    <3> QED BY <2>1, <3>1, <3>2
  <2>12. ASSUME NEW k \in S PROVE k + 1 \in S
    <3>0. k \in Nat /\ k + 1 \in Nat /\ (k + 1) + 1 = k + 2
      OBVIOUS
    <3> SUFFICES ASSUME k + 2 \in 1..L
                 PROVE  /\ g[k + 2] \in Seq(V)
                        /\ \A x : x \in Range(g[k + 2]) <=> \E i \in 1..(k + 2) : x \in Range(s[i])
      BY <3>0
    <3>1. k \in Nat /\ k + 1 \in 1..L
      BY <2>1
    <3>2. g[k + 1] \in Seq(V) /\ s[k + 2] \in Seq(V)
      BY <2>1, <3>1
    <3>3. g[k + 2] = g[k + 1] \o s[k + 2]
      <4>1. k + 2 # 1 /\ (k + 2) - 1 = k + 1
        BY <3>1
      <4> HIDE DEF L
      <4>2. g[k + 2] = IF k + 2 = 1 THEN s[k + 2] ELSE g[(k + 2) - 1] \o s[k + 2]
        BY <2>9
      <4> QED BY <4>1, <4>2
    <3>4. Range(g[k + 1] \o s[k + 2]) = Range(g[k + 1]) \cup Range(s[k + 2])
      BY <3>2, RangeConcat
    <3>5. 1..(k + 2) = (1..(k + 1)) \cup {k + 2}
      BY <3>1
    <3>6. g[k + 2] \in Seq(V)
      BY <3>2, <3>3
    <3>7. \A x : x \in Range(g[k + 1]) <=> \E i \in 1..(k + 1) : x \in Range(s[i])
      BY <3>1
    <3>8. ASSUME NEW x
          PROVE  x \in Range(g[k + 2]) <=> \E i \in 1..(k + 2) : x \in Range(s[i])
      <4>1. x \in Range(g[k + 2]) <=> x \in Range(g[k + 1]) \/ x \in Range(s[k + 2])
        BY <3>3, <3>4
      <4>2. (\E i \in 1..(k + 2) : x \in Range(s[i]))
              <=> (\E i \in 1..(k + 1) : x \in Range(s[i])) \/ x \in Range(s[k + 2])
        BY <3>5, Zenon
      <4> QED BY <3>7, <4>1, <4>2, Zenon
    <3> QED BY <3>6, <3>8
  <2>13. S = Nat
    <3> HIDE DEF S
    <3>1. S \in SUBSET Nat
      BY DEF S
    <3> QED BY <2>11, <2>12, <3>1, Induction
  <2>14. g[L] \in Seq(V) /\ \A x : x \in Range(g[L]) <=> \E i \in 1..L : x \in Range(s[i])
    <3>1. L - 1 \in Nat /\ (L - 1) + 1 = L /\ L \in 1..L
      BY <2>1
    <3>2. L - 1 \in S
      BY <2>13, <3>1
    <3> QED BY <3>1, <3>2
  <2> QED BY <2>1, <2>10, <2>14
<1> QED BY <1>1, <1>2

-----------------------------------------------------------------------------
(* The walks over a document. *)

\* TreeAssumption, in the form the inductions use.
LEMMA Trees ==
    /\ Cardinality(Nodes) \in Nat
    /\ \A n \in Nodes :
          /\ Node[n].kids \in Seq(Nodes)
          /\ Height[n] \in 0..Cardinality(Nodes)
          /\ \A i \in DOMAIN Node[n].kids :
                Node[n].kids[i] \in Nodes /\ Height[Node[n].kids[i]] < Height[n]
<1>1. Cardinality(Nodes) \in Nat
  BY TreeAssumption, FS_CardinalityType
<1>2. \A n \in Nodes : \A i \in DOMAIN Node[n].kids : Node[n].kids[i] \in Nodes
  BY TreeAssumption
<1> QED BY <1>1, <1>2, TreeAssumption

\* Induction from the leaves of a document to its root.
LEMMA TreeInduction ==
    ASSUME NEW S, \A n \in Nodes : (\A i \in DOMAIN Node[n].kids : Node[n].kids[i] \in S) => n \in S
    PROVE  \A n \in Nodes : n \in S
<1> SUFFICES ASSUME NEW x \in Nodes, x \notin S PROVE FALSE
  OBVIOUS
<1> DEFINE H == {Height[n] : n \in Nodes \ S}
<1>1. H \in SUBSET Nat /\ H # {}
  BY Trees
<1>2. PICK h \in H : \A g \in H : h <= g
  <2> HIDE DEF H
  <2> QED BY <1>1, Least
<1>3. PICK n \in Nodes \ S : h = Height[n]
  OBVIOUS
<1>4. ASSUME NEW i \in DOMAIN Node[n].kids PROVE Node[n].kids[i] \in S
  <2>1. Node[n].kids[i] \in Nodes /\ Height[Node[n].kids[i]] \in Nat
        /\ Height[n] \in Nat /\ Height[Node[n].kids[i]] < Height[n]
    BY Trees
  <2>2. ~(Height[n] <= Height[Node[n].kids[i]])
    BY <2>1
  <2>3. Height[Node[n].kids[i]] \notin H
    BY <1>2, <1>3, <2>2
  <2> QED BY <2>1, <2>3
<1> QED BY <1>4

\* What a walk that looks only at the kids of a node computes is well defined.
LEMMA Walks ==
    ASSUME NEW R, R # {}, NEW D \in [Nodes \X [Nodes -> R] -> R],
           \A n \in Nodes : \A f, g \in [Nodes -> R] :
              (\A i \in DOMAIN Node[n].kids : f[Node[n].kids[i]] = g[Node[n].kids[i]])
                 => D[<<n, f>>] = D[<<n, g>>]
    PROVE  Solvable(Nodes, R, D)
<1>1. ASSUME NEW n \in Nodes, NEW f \in [Nodes -> R], NEW g \in [Nodes -> R],
             \A m \in Nodes : Height[m] < Height[n] => f[m] = g[m]
      PROVE  D[<<n, f>>] = D[<<n, g>>]
  <2>1. \A i \in DOMAIN Node[n].kids : f[Node[n].kids[i]] = g[Node[n].kids[i]]
    BY <1>1, Trees
  <2> QED BY <2>1
<1>2. WellFormed(Nodes, R, Height, Cardinality(Nodes), D)
  BY <1>1, Trees DEF WellFormed
<1> QED BY <1>2, Recursion

\* The type assertions of the walks.
LEMMA PanicsEq ==
    \A n \in Nodes :
       panics[n] <=> \/ Node[n].kind = "item" /\ Node[n].key = NonString
                     \/ isImage(n) /\ Node[kid(n)].kind # "string"
                     \/ ~isImage(n) /\ \E i \in DOMAIN Node[n].kids : panics[Node[n].kids[i]]
<1> DEFINE body(n, f) == \/ Node[n].kind = "item" /\ Node[n].key = NonString
                         \/ isImage(n) /\ Node[kid(n)].kind # "string"
                         \/ ~isImage(n) /\ \E i \in DOMAIN Node[n].kids : f[Node[n].kids[i]]
           D == [a \in Nodes \X [Nodes -> BOOLEAN] |-> body(a[1], a[2])]
<1>1. D \in [Nodes \X [Nodes -> BOOLEAN] -> BOOLEAN]
  <2>1. \A n, f : body(n, f) \in BOOLEAN
    OBVIOUS
  <2> HIDE DEF body
  <2> QED BY <2>1
<1>2. ASSUME NEW n \in Nodes, NEW f \in [Nodes -> BOOLEAN], NEW g \in [Nodes -> BOOLEAN],
             \A i \in DOMAIN Node[n].kids : f[Node[n].kids[i]] = g[Node[n].kids[i]]
      PROVE  D[<<n, f>>] = D[<<n, g>>]
  <2>1. body(n, f) = body(n, g)
    BY <1>2
  <2> HIDE DEF body
  <2> QED BY <2>1
<1>3. Solvable(Nodes, BOOLEAN, D)
  <2> HIDE DEF D
  <2> QED BY <1>1, <1>2, Walks
<1>4. PICK f \in [Nodes -> BOOLEAN] : \A n \in Nodes : f[n] = D[<<n, f>>]
  BY <1>3 DEF Solvable
<1>5. \A n \in Nodes : f[n] = body(n, f)
  <2> HIDE DEF body
  <2> QED BY <1>4
<1>6. f = [n \in Nodes |-> body(n, f)]
  <2> HIDE DEF body
  <2> QED BY <1>5
<1>7. panics = CHOOSE g : g = [n \in Nodes |-> body(n, g)]
  BY DEF panics
<1>8. panics = [n \in Nodes |-> body(n, panics)]
  <2> HIDE DEF body
  <2> QED BY <1>6, <1>7
<1>9. \A n \in Nodes : panics[n] = body(n, panics)
  <2> HIDE DEF body
  <2> QED BY <1>8
<1> QED BY <1>9

\* The nodes the second walk rewrites.
LEMMA ImageNodesEq ==
    \A n \in Nodes :
       /\ isImage(n) => imageNodes[n] = {kid(n)} \cap StringNodes
       /\ ~isImage(n) => \A x : x \in imageNodes[n]
                           <=> \E i \in DOMAIN Node[n].kids : x \in imageNodes[Node[n].kids[i]]
<1> DEFINE body(n, f) == IF isImage(n) THEN {kid(n)} \cap StringNodes
                         ELSE UNION {f[Node[n].kids[i]] : i \in DOMAIN Node[n].kids}
           R == SUBSET StringNodes
           D == [a \in Nodes \X [Nodes -> R] |-> body(a[1], a[2])]
<1>1. D \in [Nodes \X [Nodes -> R] -> R]
  <2>1. ASSUME NEW n \in Nodes, NEW f \in [Nodes -> R] PROVE body(n, f) \in R
    <3>1. \A i \in DOMAIN Node[n].kids : f[Node[n].kids[i]] \in R
      BY Trees
    <3> QED BY <3>1
  <2> HIDE DEF body, R
  <2> QED BY <2>1
<1>2. ASSUME NEW n \in Nodes, NEW f \in [Nodes -> R], NEW g \in [Nodes -> R],
             \A i \in DOMAIN Node[n].kids : f[Node[n].kids[i]] = g[Node[n].kids[i]]
      PROVE  D[<<n, f>>] = D[<<n, g>>]
  <2>1. {f[Node[n].kids[i]] : i \in DOMAIN Node[n].kids} = {g[Node[n].kids[i]] : i \in DOMAIN Node[n].kids}
    BY <1>2
  <2>2. body(n, f) = body(n, g)
    BY <2>1
  <2> HIDE DEF body, R
  <2> QED BY <2>2
<1>3. Solvable(Nodes, R, D)
  <2>1. R # {}
    OBVIOUS
  <2> HIDE DEF D, R
  <2> QED BY <1>1, <1>2, <2>1, Walks
<1>4. PICK f \in [Nodes -> R] : \A n \in Nodes : f[n] = D[<<n, f>>]
  BY <1>3 DEF Solvable
<1>5. f = [n \in Nodes |-> body(n, f)]
  <2> HIDE DEF body, R
  <2> QED BY <1>4
<1>6. imageNodes = CHOOSE g : g = [n \in Nodes |-> body(n, g)]
  BY DEF imageNodes
<1>7. imageNodes = [n \in Nodes |-> body(n, imageNodes)]
  <2> HIDE DEF body
  <2> QED BY <1>5, <1>6
<1>8. \A n \in Nodes : imageNodes[n] = body(n, imageNodes)
  <2> HIDE DEF body
  <2> QED BY <1>7
<1>9. ASSUME NEW n \in Nodes, ~isImage(n), NEW x
      PROVE  x \in imageNodes[n] <=> \E i \in DOMAIN Node[n].kids : x \in imageNodes[Node[n].kids[i]]
  <2>1. imageNodes[n] = UNION {imageNodes[Node[n].kids[i]] : i \in DOMAIN Node[n].kids}
    BY <1>8, <1>9
  <2> QED BY <2>1
<1>10. ASSUME NEW n \in Nodes, isImage(n) PROVE imageNodes[n] = {kid(n)} \cap StringNodes
  BY <1>8, <1>10
<1> QED BY <1>9, <1>10

\* The images the first walk returns.
LEMMA TaggedEq ==
    \A n \in Nodes :
       /\ recursiveGetTaggedImages[n] \in Seq({Source[kid(m)] : m \in Nodes})
       /\ isImage(n) =>
             recursiveGetTaggedImages[n] =
                IF FullyQualifiedImage(Source[kid(n)]) THEN << >> ELSE <<Source[kid(n)]>>
       /\ ~isImage(n) => \A x : x \in Range(recursiveGetTaggedImages[n])
             <=> \E i \in DOMAIN Node[n].kids : x \in Range(recursiveGetTaggedImages[Node[n].kids[i]])
<1> DEFINE V == {Source[kid(n)] : n \in Nodes}
           R == Seq(V)
           found(n) == IF FullyQualifiedImage(Source[kid(n)]) THEN << >> ELSE <<Source[kid(n)]>>
           below(n, f) == [i \in DOMAIN Node[n].kids |-> f[Node[n].kids[i]]]
           body(n, f) == IF isImage(n) THEN found(n) ELSE FlattenSeq(below(n, f))
           D == [a \in Nodes \X [Nodes -> R] |-> body(a[1], a[2])]
<1>1. ASSUME NEW n \in Nodes PROVE found(n) \in R
  <2>1. Source[kid(n)] \in V
    OBVIOUS
  <2> HIDE DEF V
  <2> QED BY <2>1
<1>2. ASSUME NEW n \in Nodes, NEW f, \A i \in DOMAIN Node[n].kids : f[Node[n].kids[i]] \in R
      PROVE  /\ FlattenSeq(below(n, f)) \in R
             /\ \A x : x \in Range(FlattenSeq(below(n, f)))
                   <=> \E i \in DOMAIN Node[n].kids : x \in Range(f[Node[n].kids[i]])
  <2>1. Node[n].kids \in Seq(Nodes)
    BY Trees
  <2>2. below(n, f) \in Seq(R) /\ DOMAIN below(n, f) = DOMAIN Node[n].kids
    BY <1>2, <2>1
  <2>3. \A i \in DOMAIN Node[n].kids : below(n, f)[i] = f[Node[n].kids[i]]
    OBVIOUS
  <2>4. /\ FlattenSeq(below(n, f)) \in R
        /\ \A x : x \in Range(FlattenSeq(below(n, f)))
              <=> \E i \in DOMAIN below(n, f) : x \in Range(below(n, f)[i])
    <3> HIDE DEF below, V
    <3> QED BY <2>2, Flatten
  <2> HIDE DEF below, V
  <2> QED BY <2>2, <2>3, <2>4
<1>4. ASSUME NEW n \in Nodes, NEW f, \A i \in DOMAIN Node[n].kids : f[Node[n].kids[i]] \in R
      PROVE  body(n, f) \in R
  <2>1. FlattenSeq(below(n, f)) \in R
    BY <1>2, <1>4
  <2> HIDE DEF R, found, below
  <2> QED BY <1>1, <2>1
<1>14. D \in [Nodes \X [Nodes -> R] -> R]
  <2>1. ASSUME NEW n \in Nodes, NEW f \in [Nodes -> R] PROVE body(n, f) \in R
    <3> HIDE DEF body, R
    <3>1. \A i \in DOMAIN Node[n].kids : f[Node[n].kids[i]] \in R
      BY Trees
    <3> QED BY <1>4, <3>1
  <2> HIDE DEF body, R
  <2> QED BY <2>1
<1>5. ASSUME NEW n \in Nodes, NEW f \in [Nodes -> R], NEW g \in [Nodes -> R],
             \A i \in DOMAIN Node[n].kids : f[Node[n].kids[i]] = g[Node[n].kids[i]]
      PROVE  D[<<n, f>>] = D[<<n, g>>]
  <2>1. below(n, f) = below(n, g)
    BY <1>5
  <2>2. body(n, f) = body(n, g)
    <3> HIDE DEF below
    <3> QED BY <2>1
  <2> HIDE DEF body, R
  <2> QED BY <2>2
<1>6. Solvable(Nodes, R, D)
  <2>1. R # {}
    <3>1. << >> \in R
      OBVIOUS
    <3> QED BY <3>1
  <2> HIDE DEF D, R
  <2> QED BY <1>14, <1>5, <2>1, Walks
<1>7. PICK f \in [Nodes -> R] : \A n \in Nodes : f[n] = D[<<n, f>>]
  BY <1>6 DEF Solvable
<1>8. f = [n \in Nodes |-> body(n, f)]
  <2> HIDE DEF body, R
  <2> QED BY <1>7
<1>9. PICK w : w = recursiveGetTaggedImages
  OBVIOUS
<1>10. w = CHOOSE g : g = [n \in Nodes |-> body(n, g)]
  <2>1. recursiveGetTaggedImages = CHOOSE g : g = [n \in Nodes |-> body(n, g)]
    BY DEF recursiveGetTaggedImages
  <2> HIDE DEF body
  <2> QED BY <1>9, <2>1
<1>11. w = [n \in Nodes |-> body(n, w)]
  <2> HIDE DEF body
  <2> QED BY <1>8, <1>10
<1>12. \A n \in Nodes : w[n] = body(n, w)
  <2> HIDE DEF body
  <2> QED BY <1>11
<1>13. \A n \in Nodes : w[n] \in R
  <2> DEFINE S == {n \in Nodes : w[n] \in R}
  <2>1. ASSUME NEW n \in Nodes, \A i \in DOMAIN Node[n].kids : Node[n].kids[i] \in S
        PROVE  n \in S
    <3>1. \A i \in DOMAIN Node[n].kids : w[Node[n].kids[i]] \in R
      BY <2>1
    <3> HIDE DEF body, R
    <3> QED BY <1>4, <1>12, <3>1
  <2>2. \A n \in Nodes : n \in S
    <3> HIDE DEF S
    <3> QED BY <2>1, TreeInduction
  <2> QED BY <2>2
<1>15. ASSUME NEW n \in Nodes, isImage(n) PROVE w[n] = found(n)
  <2> HIDE DEF found, below
  <2> QED BY <1>12, <1>15
<1>16. ASSUME NEW n \in Nodes, ~isImage(n)
       PROVE  \A x : x \in Range(w[n]) <=> \E i \in DOMAIN Node[n].kids : x \in Range(w[Node[n].kids[i]])
  <2>1. \A i \in DOMAIN Node[n].kids : w[Node[n].kids[i]] \in R
    <3> HIDE DEF R
    <3> QED BY <1>13, Trees
  <2>2. w[n] = FlattenSeq(below(n, w))
    <3> HIDE DEF found, below
    <3> QED BY <1>12, <1>16
  <2> HIDE DEF below, R
  <2> QED BY <1>2, <2>1, <2>2
<1> HIDE DEF found, body
<1> QED BY <1>9, <1>13, <1>15, <1>16 DEF found

-----------------------------------------------------------------------------
(* The nodes of a document, and what the walks say of them. *)

\* The root of a document is a node.
LEMMA RootNodes == Roots \subseteq Nodes
<1>1. ASSUME NEW f \in Files, NEW i \in DOMAIN Documents[f] PROVE Documents[f][i] \in Nodes
  BY TreeAssumption
<1> QED BY <1>1 DEF Roots

\* NodesOf[root] is the least set with the root that is closed under kids.
LEMMA Reached ==
    ASSUME NEW root \in Roots
    PROVE  /\ root \in NodesOf[root] /\ NodesOf[root] \subseteq Nodes
           /\ \A n \in NodesOf[root] : \A i \in DOMAIN Node[n].kids : Node[n].kids[i] \in NodesOf[root]
           /\ \A S : root \in S /\ (\A n \in S \cap Nodes : \A i \in DOMAIN Node[n].kids : Node[n].kids[i] \in S)
                    => NodesOf[root] \subseteq S
<1> DEFINE K == Cardinality(Nodes)
           R == SUBSET Nodes
           body(d, f) == IF d = 0 THEN {root} ELSE f[d - 1] \cup Below(f[d - 1])
           D == [a \in (0..K) \X [0..K -> R] |-> body(a[1], a[2])]
           id == [d \in 0..K |-> d]
<1>1. K \in Nat /\ root \in Nodes
  BY Trees, RootNodes
<1>2. ASSUME NEW S \in R PROVE Below(S) \in R
  BY <1>2, Trees DEF Below
<1>3. D \in [(0..K) \X [0..K -> R] -> R]
  <2>1. ASSUME NEW d \in 0..K, NEW f \in [0..K -> R] PROVE body(d, f) \in R
    <3>1. d # 0 => d - 1 \in 0..K
      BY <1>1
    <3>2. d # 0 => f[d - 1] \in R
      BY <3>1
    <3>3. d # 0 => Below(f[d - 1]) \in R
      BY <1>2, <3>2
    <3> QED BY <1>1, <3>2, <3>3
  <2> HIDE DEF body, R, K
  <2> QED BY <2>1
<1>4. ASSUME NEW d \in 0..K, NEW f \in [0..K -> R], NEW g \in [0..K -> R],
             \A e \in 0..K : id[e] < id[d] => f[e] = g[e]
      PROVE  D[<<d, f>>] = D[<<d, g>>]
  <2>1. d # 0 => d - 1 \in 0..K /\ d - 1 < d
    BY <1>1
  <2>2. d # 0 => f[d - 1] = g[d - 1]
    BY <1>4, <2>1
  <2>3. body(d, f) = body(d, g)
    BY <2>2
  <2> HIDE DEF body, R, K
  <2> QED BY <2>3
<1>5. WellFormed(0..K, R, id, K, D)
  <2>1. R # {} /\ \A d \in 0..K : id[d] \in 0..K
    OBVIOUS
  <2> HIDE DEF K, D, id, R
  <2>2. \A d \in 0..K : \A f, g \in [0..K -> R] :
          (\A e \in 0..K : id[e] < id[d] => f[e] = g[e]) => D[<<d, f>>] = D[<<d, g>>]
    BY <1>4
  <2> QED BY <1>1, <1>3, <2>1, <2>2 DEF WellFormed
<1>6. PICK f \in [0..K -> R] : \A d \in 0..K : f[d] = D[<<d, f>>]
  <2>1. Solvable(0..K, R, D)
    <3> HIDE DEF K, D, id, R
    <3> QED BY <1>5, Recursion
  <2> HIDE DEF K, D, id, R
  <2> QED BY <2>1 DEF Solvable
<1>7. f = [d \in 0..K |-> body(d, f)]
  <2> HIDE DEF K, body, R
  <2> QED BY <1>6
<1>8. PICK g : g = CHOOSE h : h = [d \in 0..K |-> body(d, h)]
  OBVIOUS
<1>9. g = [d \in 0..K |-> body(d, g)]
  <2> HIDE DEF K, body
  <2> QED BY <1>7, <1>8
<1>10. NodesOf[root] = g[K]
  BY <1>8 DEF NodesOf
<1>11. \A d \in 0..K : g[d] = body(d, g)
  <2> HIDE DEF K, body
  <2> QED BY <1>9
<1> HIDE DEF K, D, id
<1>12. g[0] = {root} /\ \A d \in 0..K : d # 0 => g[d] = g[d - 1] \cup Below(g[d - 1])
  <2>1. 0 \in 0..K
    BY <1>1
  <2>2. g[0] = {root}
    BY <1>11, <2>1
  <2>3. ASSUME NEW d \in 0..K, d # 0 PROVE g[d] = g[d - 1] \cup Below(g[d - 1])
    BY <1>11, <2>3
  <2> QED BY <2>2, <2>3
<1>13. \A S : \A n : n \in Below(S) <=> \E m \in S : \E i \in DOMAIN Node[m].kids : n = Node[m].kids[i]
  BY DEF Below
\* Monotone, and every node is met early enough to meet those below it too.
<1>14. ASSUME NEW d \in Nat, d + 1 \in 0..K
       PROVE  /\ d \in 0..K /\ g[d] \subseteq g[d + 1]
              /\ \A n : n \in g[d + 1] <=>
                    n \in g[d] \/ \E m \in g[d] : \E i \in DOMAIN Node[m].kids : n = Node[m].kids[i]
  <2>1. d \in 0..K /\ d + 1 # 0 /\ (d + 1) - 1 = d
    BY <1>1, <1>14
  <2>2. g[d + 1] = g[d] \cup Below(g[d])
    BY <1>12, <1>14, <2>1
  <2> QED BY <1>13, <2>1, <2>2
<1>15. ASSUME NEW d \in 0..K PROVE g[d] \subseteq g[K]
  <2> DEFINE T == {k \in Nat : k <= K => g[K - k] \subseteq g[K]}
  <2>1. 0 \in T
    BY <1>1
  <2>2. ASSUME NEW k \in T PROVE k + 1 \in T
    <3>1. SUFFICES ASSUME k + 1 <= K PROVE g[K - (k + 1)] \subseteq g[K]
      OBVIOUS
    <3>2. PICK e \in Nat : e = K - (k + 1) /\ e + 1 = K - k /\ e + 1 \in 0..K
      BY <1>1, <3>1
    <3>3. g[e] \subseteq g[e + 1]
      BY <1>14, <3>2
    <3>4. g[K - k] \subseteq g[K]
      BY <1>1, <3>1
    <3> QED BY <3>2, <3>3, <3>4
  <2>3. T = Nat
    <3>1. T \in SUBSET Nat
      OBVIOUS
    <3> HIDE DEF T
    <3> QED BY <2>1, <2>2, <3>1, Induction
  <2>4. K - d \in Nat /\ K - d <= K /\ K - (K - d) = d
    BY <1>1
  <2>5. K - d \in T
    BY <2>3, <2>4
  <2> QED BY <2>4, <2>5
<1>16. \A d \in 0..K : \A n \in g[d] : n \in Nodes /\ \E e \in 0..K : n \in g[e] /\ e + Height[n] <= K
  <2> DEFINE Early(n) == n \in Nodes /\ \E e \in 0..K : n \in g[e] /\ e + Height[n] <= K
             T == {d \in Nat : d \in 0..K => \A n \in g[d] : Early(n)}
  <2>1. 0 \in T
    <3>1. 0 \in 0..K /\ Height[root] \in 0..K /\ 0 + Height[root] <= K
      BY <1>1, Trees DEF K
    <3> QED BY <1>1, <1>12, <3>1
  <2>2. ASSUME NEW d \in T PROVE d + 1 \in T
    <3>1. SUFFICES ASSUME d + 1 \in 0..K, NEW n \in g[d + 1] PROVE Early(n)
      OBVIOUS
    <3>2. d \in Nat /\ d \in 0..K
      BY <1>14, <3>1
    <3>3. CASE n \in g[d]
      BY <3>2, <3>3
    <3>4. CASE n \notin g[d]
      <4>1. PICK m \in g[d] : \E i \in DOMAIN Node[m].kids : n = Node[m].kids[i]
        <5> HIDE DEF T
        <5> QED BY <1>14, <3>1, <3>2, <3>4
      <4>2. PICK i \in DOMAIN Node[m].kids : n = Node[m].kids[i]
        BY <4>1
      <4>3. m \in Nodes
        BY <3>2
      <4>4. PICK e \in 0..K : m \in g[e] /\ e + Height[m] <= K
        BY <3>2
      <4>5. n \in Nodes /\ Height[n] \in Nat /\ Height[m] \in Nat /\ Height[n] < Height[m]
        BY <4>2, <4>3, Trees
      <4>6. e \in Nat /\ e + 1 \in 0..K /\ (e + 1) + Height[n] <= K
        BY <1>1, <4>4, <4>5
      <4>7. n \in g[e + 1]
        BY <1>14, <4>2, <4>4, <4>6
      <4> QED BY <4>5, <4>6, <4>7
    <3> QED BY <3>3, <3>4
  <2>3. T = Nat
    <3>1. T \in SUBSET Nat
      OBVIOUS
    <3> HIDE DEF T
    <3> QED BY <2>1, <2>2, <3>1, Induction
  <2> QED BY <1>1, <2>3
<1>17. root \in NodesOf[root]
  BY <1>1, <1>10, <1>12, <1>15
<1>18. NodesOf[root] \subseteq Nodes
  BY <1>1, <1>10, <1>16
<1>19. ASSUME NEW n \in NodesOf[root], NEW i \in DOMAIN Node[n].kids
       PROVE  Node[n].kids[i] \in NodesOf[root]
  <2>1. n \in Nodes /\ K \in 0..K
    BY <1>1, <1>18
  <2>2. PICK e \in 0..K : n \in g[e] /\ e + Height[n] <= K
    BY <1>10, <1>16, <2>1
  <2>3. Height[n] \in Nat /\ Height[Node[n].kids[i]] \in Nat /\ Height[Node[n].kids[i]] < Height[n]
    BY <2>1, Trees
  <2>4. e \in Nat /\ e + 1 \in 0..K
    BY <1>1, <2>2, <2>3
  <2>5. Node[n].kids[i] \in g[e + 1]
    BY <1>14, <2>2, <2>4
  <2> QED BY <1>10, <1>15, <2>4, <2>5
<1>20. ASSUME NEW S, root \in S,
              \A n \in S \cap Nodes : \A i \in DOMAIN Node[n].kids : Node[n].kids[i] \in S
       PROVE  NodesOf[root] \subseteq S
  <2> DEFINE T == {d \in Nat : d \in 0..K => g[d] \subseteq S}
  <2>1. 0 \in T
    BY <1>12, <1>20
  <2>2. ASSUME NEW d \in T PROVE d + 1 \in T
    <3>1. SUFFICES ASSUME d + 1 \in 0..K, NEW n \in g[d + 1] PROVE n \in S
      OBVIOUS
    <3>2. d \in Nat /\ d \in 0..K /\ g[d] \subseteq S
      BY <1>14, <3>1
    <3>3. \A m \in g[d] : m \in Nodes
      BY <1>16, <3>2
    <3> QED BY <1>14, <1>20, <3>1, <3>2, <3>3
  <2>3. T = Nat
    <3>1. T \in SUBSET Nat
      OBVIOUS
    <3> HIDE DEF T
    <3> QED BY <2>1, <2>2, <3>1, Induction
  <2> QED BY <1>1, <1>10, <2>3
<1> QED BY <1>17, <1>18, <1>19, <1>20

\* An item has its value below it, a string has nothing.
LEMMA ItemsAndStrings ==
    ASSUME NEW n \in Nodes
    PROVE  /\ isImage(n) => /\ 1 \in DOMAIN Node[n].kids /\ kid(n) \in Nodes
                            /\ \A i \in DOMAIN Node[n].kids : Node[n].kids[i] = kid(n)
           /\ n \in StringNodes => ~isImage(n) /\ DOMAIN Node[n].kids = {}
<1>1. ASSUME isImage(n)
      PROVE  /\ 1 \in DOMAIN Node[n].kids /\ kid(n) \in Nodes
             /\ \A i \in DOMAIN Node[n].kids : Node[n].kids[i] = kid(n)
  <2>1. Len(Node[n].kids) = 1 /\ Node[n].kids \in Seq(Nodes)
    BY <1>1, TreeAssumption DEF isImage
  <2>2. DOMAIN Node[n].kids = {1}
    BY <2>1
  <2> QED BY <2>2, Trees DEF kid
<1>2. ASSUME n \in StringNodes PROVE ~isImage(n) /\ DOMAIN Node[n].kids = {}
  <2>1. Node[n].kind = "string"
    BY <1>2 DEF StringNodes
  <2>2. Node[n].kids = << >>
    BY <2>1, TreeAssumption
  <2> QED BY <2>1, <2>2 DEF isImage
<1> QED BY <1>1, <1>2

\* The images of a document are nodes of the document.
LEMMA ImagesReached ==
    ASSUME NEW root \in Roots
    PROVE  ImagesOf[root] \subseteq NodesOf[root]
<1>1. ASSUME NEW n \in NodesOf[root], isImage(n) PROVE kid(n) \in NodesOf[root]
  <2>1. n \in Nodes
    BY Reached
  <2> QED BY <1>1, <2>1, Reached, ItemsAndStrings DEF kid
<1> QED BY <1>1 DEF ImagesOf

\* The two walks and the document: they take for an image what is one.  The
\* second walk rewrites no other node.
LEMMA SecondWalk ==
    ASSUME NEW root \in Roots
    PROVE  imageNodes[root] \subseteq ImagesOf[root]
<1> DEFINE S == {n \in Nodes : n \in NodesOf[root] => imageNodes[n] \subseteq ImagesOf[root]}
<1>1. ASSUME NEW n \in Nodes, \A i \in DOMAIN Node[n].kids : Node[n].kids[i] \in S
      PROVE  n \in S
  <2>1. SUFFICES ASSUME n \in NodesOf[root], NEW x \in imageNodes[n] PROVE x \in ImagesOf[root]
    OBVIOUS
  <2>2. CASE isImage(n)
    <3>1. x = kid(n)
      BY <2>1, <2>2, ImageNodesEq
    <3> QED BY <2>1, <2>2, <3>1 DEF ImagesOf
  <2>3. CASE ~isImage(n)
    <3>1. PICK i \in DOMAIN Node[n].kids : x \in imageNodes[Node[n].kids[i]]
      BY <2>1, <2>3, ImageNodesEq
    <3>2. Node[n].kids[i] \in NodesOf[root]
      BY <2>1, Reached
    <3> QED BY <1>1, <3>1, <3>2
  <2> QED BY <2>2, <2>3
<1>2. \A n \in Nodes : n \in S
  <2> HIDE DEF S
  <2> QED BY <1>1, TreeInduction
<1>3. root \in Nodes /\ root \in NodesOf[root]
  BY Reached, RootNodes
<1> QED BY <1>2, <1>3

\* If no type assertion fails, the first walk finds every image of the document
\* that is not by digest, and the second walk comes to every image.
LEMMA FirstWalk ==
    ASSUME NEW root \in Roots, ~panics[root], NEW x \in ImagesOf[root]
    PROVE  /\ x \in StringNodes /\ x \in imageNodes[root]
           /\ ~FullyQualifiedImage(Source[x]) => Source[x] \in Range(recursiveGetTaggedImages[root])
<1> DEFINE Covers(n) == /\ ~panics[n] /\ imageNodes[n] \subseteq imageNodes[root]
                        /\ Range(recursiveGetTaggedImages[n]) \subseteq Range(recursiveGetTaggedImages[root])
           S == {n \in Nodes : Covers(n)}
<1>1. root \in S
  BY RootNodes
<1>2. ASSUME NEW n \in S \cap Nodes, NEW i \in DOMAIN Node[n].kids PROVE Node[n].kids[i] \in S
  <2>1. PICK m \in Nodes : m = Node[n].kids[i]
    BY Trees
  <2>2. CASE isImage(n)
    <3>1. m = kid(n)
      BY <2>1, <2>2, ItemsAndStrings
    <3>2. Node[m].kind = "string"
      BY <2>2, <3>1, PanicsEq
    <3>3. m \in StringNodes
      BY <3>2 DEF StringNodes
    <3>4. ~isImage(m) /\ DOMAIN Node[m].kids = {}
      BY <3>3, ItemsAndStrings
    <3>5. ~panics[m]
      BY <3>2, <3>4, PanicsEq
    <3>6. \A y : y \notin imageNodes[m] /\ y \notin Range(recursiveGetTaggedImages[m])
      BY <3>4, ImageNodesEq, TaggedEq
    <3> QED BY <2>1, <3>5, <3>6
  <2>3. CASE ~isImage(n)
    <3>1. ~panics[m]
      BY <2>1, <2>3, PanicsEq
    <3>2. \A y \in imageNodes[m] : y \in imageNodes[n]
      BY <2>1, <2>3, ImageNodesEq
    <3>3. \A y \in Range(recursiveGetTaggedImages[m]) : y \in Range(recursiveGetTaggedImages[n])
      BY <2>1, <2>3, TaggedEq
    <3> QED BY <2>1, <3>1, <3>2, <3>3
  <2> QED BY <2>2, <2>3
<1>3. NodesOf[root] \subseteq S
  <2> HIDE DEF S
  <2> QED BY <1>1, <1>2, Reached
<1>4. PICK n \in NodesOf[root] : isImage(n) /\ x = kid(n)
  BY DEF ImagesOf
<1>5. n \in Nodes /\ Covers(n)
  BY <1>3
<1>6. x \in Nodes /\ Node[x].kind = "string"
  BY <1>4, <1>5, ItemsAndStrings, PanicsEq
<1>7. x \in StringNodes
  BY <1>6 DEF StringNodes
<1>8. x \in imageNodes[root]
  BY <1>4, <1>5, <1>7, ImageNodesEq
<1>9. ASSUME ~FullyQualifiedImage(Source[x]) PROVE Source[x] \in Range(recursiveGetTaggedImages[root])
  <2>1. recursiveGetTaggedImages[n] = <<Source[x]>>
    BY <1>4, <1>5, <1>9, TaggedEq
  <2>2. Source[x] \in Range(recursiveGetTaggedImages[n])
    BY <2>1 DEF Range
  <2> QED BY <1>5, <2>2
<1> QED BY <1>7, <1>8, <1>9

\* The values that stand in some document.
SourceValues == {Source[n] : n \in StringNodes}

\* What the first walk returns stands in the document.
LEMMA TaggedValues ==
    ASSUME NEW root \in Nodes, ~panics[root]
    PROVE  recursiveGetTaggedImages[root] \in Seq(SourceValues)
<1> DEFINE S == {n \in Nodes : ~panics[n] => Range(recursiveGetTaggedImages[n]) \subseteq SourceValues}
<1>1. ASSUME NEW n \in Nodes, \A i \in DOMAIN Node[n].kids : Node[n].kids[i] \in S
      PROVE  n \in S
  <2>1. SUFFICES ASSUME ~panics[n], NEW x \in Range(recursiveGetTaggedImages[n])
                 PROVE  x \in SourceValues
    OBVIOUS
  <2>2. CASE isImage(n)
    <3>1. kid(n) \in Nodes /\ Node[kid(n)].kind = "string"
      BY <2>1, <2>2, ItemsAndStrings, PanicsEq
    <3>2. recursiveGetTaggedImages[n] = << >> \/ recursiveGetTaggedImages[n] = <<Source[kid(n)]>>
      BY <2>2, TaggedEq
    <3>3. x = Source[kid(n)]
      BY <2>1, <3>2 DEF Range
    <3> QED BY <3>1, <3>3 DEF SourceValues, StringNodes
  <2>3. CASE ~isImage(n)
    <3>1. PICK i \in DOMAIN Node[n].kids : x \in Range(recursiveGetTaggedImages[Node[n].kids[i]])
      BY <2>1, <2>3, TaggedEq
    <3>2. ~panics[Node[n].kids[i]]
      BY <2>1, <2>3, PanicsEq
    <3> QED BY <1>1, <3>1, <3>2
  <2> QED BY <2>2, <2>3
<1>2. \A n \in Nodes : n \in S
  <2> HIDE DEF S
  <2> QED BY <1>1, TreeInduction
<1>3. Range(recursiveGetTaggedImages[root]) \subseteq SourceValues
  BY <1>2
<1>4. PICK s : s = recursiveGetTaggedImages[root]
  OBVIOUS
<1>5. PICK V : V = {Source[kid(m)] : m \in Nodes}
  OBVIOUS
<1>6. s \in Seq(V)
  BY <1>4, <1>5, TaggedEq
<1>7. \A i \in DOMAIN s : s[i] \in SourceValues
  BY <1>3, <1>4 DEF Range
<1>8. s \in Seq(SourceValues)
  BY <1>6, <1>7
<1> QED BY <1>4, <1>8

-----------------------------------------------------------------------------
(* What rewriting a document does to it. *)

\* Pinned, with the digests the tags have had as a parameter.
PinnedIn(root, t, p) ==
    /\ ImagesOf[root] \subseteq StringNodes
    /\ \A n \in ImagesOf[root] :
          /\ t[n].form = "digest"
          /\ Source[n].form = "tag" =>
                t[n] \in {ByDigest(Context[Source[n].repo], d) : d \in p[NewTag(Source[n])]}
    /\ \A n, m \in ImagesOf[root] : Source[n] = Source[m] => t[n] = t[m]

\* A document that is done, and one that is not begun.
Done(root, t, p) == PinnedIn(root, t, p) /\ Rest(root, t)
Untouched(root, t) == \A n \in NodesOf[root] \cap StringNodes : t[n] = Source[n]

\* What the resolver answers for an image.
Answers(v, w, p) ==
    /\ v \in SourceValues /\ v.form = "tag"
    /\ \E d \in p[NewTag(v)] \ {Absent} : w = ByDigest(Context[v.repo], d)

Histories == [Tags -> SUBSET (Digests \cup {Absent})]

\* A digest stays one the tag has had.
LEMMA PinnedGrows ==
    ASSUME NEW root, NEW t, NEW p, NEW q, \A x \in Tags : p[x] \subseteq q[x],
           PinnedIn(root, t, p)
    PROVE  PinnedIn(root, t, q)
<1>1. ASSUME NEW n \in ImagesOf[root], Source[n].form = "tag"
      PROVE  t[n] \in {ByDigest(Context[Source[n].repo], d) : d \in q[NewTag(Source[n])]}
  <2>1. n \in StringNodes
    BY DEF PinnedIn
  <2>2. NewTag(Source[n]) \in Tags
    BY <1>1, <2>1, ResolveAssumption DEF Source
  <2>3. PICK d \in p[NewTag(Source[n])] : t[n] = ByDigest(Context[Source[n].repo], d)
    BY <1>1 DEF PinnedIn
  <2>4. d \in q[NewTag(Source[n])]
    BY <2>2, <2>3
  <2> QED BY <2>3, <2>4
<1> QED BY <1>1 DEF PinnedIn

\* A digest a tag had during the run is one it had when the run is longer.
LEMMA AnswersGrow ==
    ASSUME NEW v, NEW w, NEW p, NEW q, \A x \in Tags : p[x] \subseteq q[x],
           Answers(v, w, p)
    PROVE  Answers(v, w, q)
<1>1. NewTag(v) \in Tags
  BY ResolveAssumption DEF Answers, SourceValues, Source
<1> QED BY <1>1 DEF Answers

\* An answer is an image by digest that may stand in a manifest.
LEMMA AnswerValues ==
    ASSUME NEW p \in Histories, NEW v, NEW w, Answers(v, w, p)
    PROVE  /\ v \in Values /\ w \in Values /\ w.form = "digest"
           /\ w \in {ByDigest(Context[v.repo], d) : d \in p[NewTag(v)]}
<1>1. v.repo \in DOMAIN Context /\ NewTag(v) \in Tags
  BY ResolveAssumption DEF Answers, SourceValues, Source
<1>2. PICK d \in p[NewTag(v)] \ {Absent} : w = ByDigest(Context[v.repo], d)
  BY DEF Answers
<1>3. d \in Digests
  BY <1>1, <1>2 DEF Histories
<1>4. w \in Values
  BY <1>1, <1>2, <1>3 DEF Values
<1>5. v \in Values
  BY DEF Answers, SourceValues, Values
<1>6. w.form = "digest"
  BY <1>2 DEF ByDigest
<1>7. w \in {ByDigest(Context[v.repo], e) : e \in p[NewTag(v)]}
  BY <1>2
<1> QED BY <1>4, <1>5, <1>6, <1>7

\* A file as it is read is a text.
LEMMA SourceText == Source \in Text
BY DEF Source, Text, Values

\* The result of the second walk is a text.
LEMMA RewriteText ==
    ASSUME NEW root, NEW t \in Text, NEW p \in Histories, NEW r,
           \A v \in DOMAIN r : Answers(v, r[v], p)
    PROVE  recursiveReplaceImage(root, t, r) \in Text
<1>1. \A v \in DOMAIN r : r[v] \in Values
  BY AnswerValues
<1>2. \A n \in StringNodes : t[n] \in Values
  BY DEF Text
<1> QED BY <1>1, <1>2 DEF recursiveReplaceImage, Text

\* The second walk leaves the other documents alone.
LEMMA RewriteApart ==
    ASSUME NEW root \in Roots, NEW other \in Roots,
           NodesOf[root] \cap NodesOf[other] = {}, NEW t, NEW r
    PROVE  \A n \in NodesOf[other] \cap StringNodes :
              recursiveReplaceImage(root, t, r)[n] = t[n]
<1>1. imageNodes[root] \subseteq NodesOf[root]
  BY ImagesReached, SecondWalk
<1> QED BY <1>1 DEF recursiveReplaceImage

\* Whether a document is done depends on its own strings.
LEMMA DoneAgrees ==
    ASSUME NEW root \in Roots, NEW t, NEW u, NEW p,
           \A n \in NodesOf[root] \cap StringNodes : u[n] = t[n], Done(root, t, p)
    PROVE  Done(root, u, p)
<1>1. \A n \in ImagesOf[root] : n \in NodesOf[root] \cap StringNodes
  BY ImagesReached DEF Done, PinnedIn
<1>2. \A n \in ImagesOf[root] : u[n] = t[n]
  BY <1>1
<1>3. PinnedIn(root, u, p)
  BY <1>2 DEF Done, PinnedIn
<1>4. Rest(root, u)
  BY DEF Done, Rest
<1> QED BY <1>3, <1>4 DEF Done

\* The second walk makes a document that is done of one that is not begun, once
\* every image the first walk found has its answer.
LEMMA RewriteDone ==
    ASSUME NEW root \in Roots, ~panics[root], NEW t, Untouched(root, t),
           NEW p \in Histories, NEW r, \A v \in DOMAIN r : Answers(v, r[v], p),
           Range(recursiveGetTaggedImages[root]) \subseteq DOMAIN r
    PROVE  Done(root, recursiveReplaceImage(root, t, r), p)
<1>1. PICK u : u = recursiveReplaceImage(root, t, r)
  OBVIOUS
<1>2. ASSUME NEW n \in ImagesOf[root]
      PROVE  /\ n \in StringNodes
             /\ u[n] = IF FullyQualifiedImage(Source[n]) THEN Source[n] ELSE r[Source[n]]
             /\ ~FullyQualifiedImage(Source[n]) => Source[n] \in DOMAIN r
  <2>1. n \in StringNodes /\ n \in imageNodes[root]
    BY FirstWalk
  <2>2. t[n] = Source[n]
    BY <2>1, ImagesReached DEF Untouched
  <2>3. u[n] = IF Source[n] \in DOMAIN r THEN r[Source[n]] ELSE Source[n]
    BY <1>1, <2>1, <2>2 DEF recursiveReplaceImage
  <2>4. ~FullyQualifiedImage(Source[n]) => Source[n] \in DOMAIN r
    BY FirstWalk
  <2>5. FullyQualifiedImage(Source[n]) => Source[n] \notin DOMAIN r
    BY DEF Answers, FullyQualifiedImage
  <2> QED BY <2>1, <2>3, <2>4, <2>5
<1>3. ASSUME NEW n \in ImagesOf[root]
      PROVE  /\ u[n].form = "digest"
             /\ Source[n].form = "tag" =>
                   u[n] \in {ByDigest(Context[Source[n].repo], d) : d \in p[NewTag(Source[n])]}
  <2>1. CASE FullyQualifiedImage(Source[n])
    BY <1>2, <2>1 DEF FullyQualifiedImage
  <2>2. CASE ~FullyQualifiedImage(Source[n])
    <3>1. u[n] = r[Source[n]] /\ Answers(Source[n], r[Source[n]], p)
      BY <1>2, <2>2
    <3> QED BY <3>1, AnswerValues
  <2> QED BY <2>1, <2>2
<1>4. ASSUME NEW n \in ImagesOf[root], NEW m \in ImagesOf[root], Source[n] = Source[m]
      PROVE  u[n] = u[m]
  BY <1>2, <1>4
<1>5. PinnedIn(root, u, p)
  BY <1>2, <1>3, <1>4 DEF PinnedIn
<1>6. Rest(root, u)
  <2>1. ASSUME NEW n \in (NodesOf[root] \cap StringNodes) \ ImagesOf[root] PROVE u[n] = Source[n]
    <3>1. n \notin imageNodes[root]
      BY SecondWalk
    <3> QED BY <1>1, <3>1 DEF recursiveReplaceImage, Untouched
  <2> QED BY <2>1 DEF Rest
<1> QED BY <1>1, <1>5, <1>6 DEF Done

FileDone(f, t, p) == \A r \in DocumentsOf(f) : Done(r, t, p)

\* What is shown of a file: printing spoils it if it has a percent sign.
FileShown(f, t, p) == ~percent(f, Source) => FileDone(f, t, p)

\* Pinning brings no percent sign into a file: no digest has one, and nothing else
\* is rewritten.
LEMMA PercentSource ==
    ASSUME NEW f \in Files, NEW t, NEW p, FileDone(f, t, p), percent(f, t)
    PROVE  percent(f, Source)
<1>1. PICK r \in DocumentsOf(f) : \E n \in NodesOf[r] :
         \/ Node[n].kind = "item" /\ Node[n].key \in KeysWithVerb
         \/ n \in StringNodes /\ t[n] \in HasVerb
  BY DEF percent
<1>2. PICK n \in NodesOf[r] :
         \/ Node[n].kind = "item" /\ Node[n].key \in KeysWithVerb
         \/ n \in StringNodes /\ t[n] \in HasVerb
  BY <1>1
<1>3. CASE Node[n].kind = "item" /\ Node[n].key \in KeysWithVerb
  BY <1>3 DEF percent
<1>4. CASE n \in StringNodes /\ t[n] \in HasVerb
  <2>1. Done(r, t, p)
    BY DEF FileDone
  <2>2. n \notin ImagesOf[r]
    BY <1>4, <2>1, ResolveAssumption DEF Done, PinnedIn
  <2>3. t[n] = Source[n]
    BY <1>4, <2>1, <2>2 DEF Done, Rest
  <2> QED BY <1>4, <2>3 DEF percent
<1> QED BY <1>2, <1>3, <1>4

\* So a file without a percent sign is printed as it was rewritten.
LEMMA PrintShows ==
    ASSUME NEW f \in Files, NEW t, NEW p, FileDone(f, t, p)
    PROVE  FileShown(f, Fprintf(f, t), p)
<1>1. ASSUME ~percent(f, Source) PROVE Fprintf(f, t) = t
  BY <1>1, PercentSource DEF Fprintf
<1> QED BY <1>1 DEF FileShown

-----------------------------------------------------------------------------
(* The inductive invariant: how far the loops have come. *)

\* The files of the loop of Execute, and those it is done with.
Named == {files[i] : i \in DOMAIN files}
DoneFiles == {files[i] : i \in 1..(file - 1)}
NothingOut == DOMAIN printed = {} /\ DOMAIN applied = {}

\* The loop over the files: the ones before the current one have their substitute.
Looping ==
    /\ Len(files) \in Nat \ {0} /\ DOMAIN files = 1..Len(files)
    /\ file \in 1..(Len(files) + 1)
    /\ DOMAIN substitutes = DoneFiles
    /\ pc \in {"document", "resolve"} => file <= Len(files)

\* All the files have their substitute.
AllDone ==
    /\ Len(files) \in Nat \ {0} /\ DOMAIN files = 1..Len(files)
    /\ file = Len(files) + 1
    /\ DOMAIN substitutes = Named

FInv ==
    /\ pc \in {"preRun", "read", "document", "resolve", "output", "apply", "done"}
    /\ pc = "preRun" => /\ args \in CommandLines /\ file = 1 /\ substitutes = empty
                        /\ exit = "running" /\ NothingOut
    /\ pc \in {"read", "document", "resolve"} => Looping /\ exit = "running" /\ NothingOut
    /\ pc = "output" => AllDone /\ exit = "running" /\ NothingOut
    /\ pc = "apply" => /\ AllDone /\ exit = "running"
                       /\ DOMAIN printed = {} /\ toApply \cup DOMAIN applied = Named
    /\ pc = "done" => AllResolvedFirst

-----------------------------------------------------------------------------
(* The steps of the tool. *)

LEMMA EmptyDomain == DOMAIN empty = {}
BY DEF empty

LEMMA PutDomain ==
    ASSUME NEW f, NEW x, NEW y
    PROVE  DOMAIN Put(f, x, y) = DOMAIN f \cup {x}
BY DEF Put

\* The invariant holds initially.
LEMMA InitFInv == Init => FInv
BY EmptyDomain DEF Init, FInv, NothingOut

\* A tool that ends with an error before any output has nothing to answer for.
LEMMA EndsEmpty ==
    ASSUME NothingOut, UNCHANGED output, pc' = "done", exit' \in {"failed", "panic"}
    PROVE  FInv'
<1>1. DOMAIN printed' = {} /\ DOMAIN applied' = {}
  BY DEF NothingOut, output
<1> QED BY <1>1 DEF FInv, AllResolvedFirst

\* PersistentPreRunE starts the loop with a list of files that is not empty.
LEMMA FilepathsFInv ==
    ASSUME FInv, resolveFilepaths
    PROVE  FInv'
<1>1. /\ args \in CommandLines /\ file = 1 /\ substitutes = empty
      /\ exit = "running" /\ NothingOut /\ UNCHANGED output
  BY DEF FInv, resolveFilepaths
<1>2. PICK given : given = IF args.envFile # "" THEN <<args.envFile>> ELSE args.files
  OBVIOUS
<1>3. given \in Seq(STRING)
  <2>1. args.files \in Seq(STRING) /\ args.envFile \in STRING
    BY <1>1, ResolveAssumption
  <2>2. <<args.envFile>> \in Seq(STRING)
    BY <2>1
  <2> QED BY <1>2, <2>1, <2>2
<1>4. SUFFICES ASSUME given # << >>, pc' = "read",
                      files' = [i \in DOMAIN given |->
                                  IF given[i] \in Files THEN given[i] ELSE FullPath[given[i]]],
                      UNCHANGED <<exit, file, substitutes>>
               PROVE  FInv'
  BY <1>1, <1>2, EndsEmpty DEF resolveFilepaths, Ends
<1>5. Len(given) \in Nat \ {0} /\ DOMAIN given = 1..Len(given)
  BY <1>3, <1>4
<1>6. DOMAIN files' = 1..Len(given)
  BY <1>4, <1>5
<1>7. Len(files') = Len(given)
  BY <1>4, <1>5
<1>8. Looping'
  <2>1. DOMAIN substitutes' = {} /\ {files'[i] : i \in 1..(file' - 1)} = {}
    BY <1>1, <1>4, EmptyDomain
  <2>2. file' \in 1..(Len(files') + 1)
    BY <1>1, <1>4, <1>5, <1>7
  <2> QED BY <1>4, <1>5, <1>6, <1>7, <2>1, <2>2 DEF Looping, DoneFiles
<1> QED BY <1>1, <1>4, <1>8 DEF FInv, NothingOut, output

\* The loop of Execute is left when every file has its substitute.
LEMMA ExecuteFInv ==
    ASSUME FInv, Execute
    PROVE  FInv'
<1>1. Looping /\ exit = "running" /\ NothingOut /\ UNCHANGED output
  BY DEF FInv, Execute
<1>2. CASE file > Len(files)
  <2>1. pc' = "output" /\ UNCHANGED <<exit, files, file, substitutes>>
    BY <1>2 DEF Execute, tool
  <2>2. file = Len(files) + 1 /\ 1..(file - 1) = DOMAIN files
    BY <1>1, <1>2 DEF Looping
  <2>3. AllDone'
    BY <1>1, <2>1, <2>2 DEF Looping, DoneFiles, AllDone, Named
  <2> QED BY <1>1, <2>1, <2>3 DEF FInv, NothingOut, output
<1>3. CASE ~(file > Len(files))
  <2>1. SUFFICES ASSUME pc' = "document", UNCHANGED <<exit, files, file, substitutes>>
                 PROVE  FInv'
    BY <1>1, <1>3, EndsEmpty DEF Execute, Ends
  <2>2. Looping'
    BY <1>1, <1>3, <2>1 DEF Looping, DoneFiles
  <2> QED BY <1>1, <2>1, <2>2 DEF FInv, NothingOut, output
<1> QED BY <1>2, <1>3

\* A file gets its substitute when its last document is done.
LEMMA SubstitutionFInv ==
    ASSUME FInv, executeSubstitution
    PROVE  FInv'
<1>1. /\ Looping /\ file <= Len(files) /\ exit = "running" /\ NothingOut
      /\ UNCHANGED output
  BY DEF FInv, Looping, executeSubstitution
<1>2. ASSUME pc' = "resolve", UNCHANGED <<exit, files, file, substitutes>>
      PROVE  FInv'
  <2>1. Looping'
    BY <1>1, <1>2 DEF Looping, DoneFiles
  <2> QED BY <1>1, <1>2, <2>1 DEF FInv, NothingOut, output
<1>3. ASSUME pc' = "read", UNCHANGED <<exit, files>>, file' = file + 1,
             substitutes' = Put(substitutes, files[file], text)
      PROVE  FInv'
  <2>1. DOMAIN substitutes' = DoneFiles \cup {files[file]}
    BY <1>1, <1>3, PutDomain DEF Looping
  <2>2. 1..(file' - 1) = (1..(file - 1)) \cup {file}
    BY <1>1, <1>3 DEF Looping
  <2>3. DoneFiles' = DoneFiles \cup {files[file]}
    BY <1>3, <2>2 DEF DoneFiles
  <2>4. file' \in 1..(Len(files) + 1)
    BY <1>1, <1>3 DEF Looping
  <2>5. Looping'
    BY <1>1, <1>3, <2>1, <2>3, <2>4 DEF Looping
  <2> QED BY <1>1, <1>3, <2>5 DEF FInv, NothingOut, output
<1>4. ASSUME pc' = "done", exit' \in {"failed", "panic"}
      PROVE  FInv'
  BY <1>1, <1>4, EndsEmpty
<1> QED BY <1>2, <1>3, <1>4 DEF executeSubstitution, Ends

\* The lookups of a document leave the files alone.
LEMMA TagsFInv ==
    ASSUME FInv, resolveTagsToDigests
    PROVE  FInv'
<1>1. /\ Looping /\ file <= Len(files) /\ exit = "running" /\ NothingOut
      /\ UNCHANGED output /\ UNCHANGED <<files, file, substitutes>> /\ pc = "resolve"
  BY DEF FInv, Looping, resolveTagsToDigests
<1>2. \/ pc' \in {"document", "resolve"} /\ exit' = exit
      \/ pc' = "done" /\ exit' = "failed"
  BY <1>1 DEF resolveTagsToDigests, resolver, Ends
<1>3. CASE pc' \in {"document", "resolve"} /\ exit' = exit
  <2>1. Looping'
    BY <1>1, <1>3 DEF Looping, DoneFiles
  <2> QED BY <1>1, <1>3, <2>1 DEF FInv, NothingOut, output
<1>4. CASE pc' = "done" /\ exit' = "failed"
  BY <1>1, <1>4, EndsEmpty
<1> QED BY <1>2, <1>3, <1>4

\* outputResults prints every file, or hands every file to the loop of
\* applyChanges.
LEMMA OutputFInv ==
    ASSUME FInv, outputResults
    PROVE  FInv'
<1>1. /\ AllDone /\ exit = "running" /\ NothingOut
      /\ UNCHANGED <<files, file, substitutes, applied>>
  BY DEF FInv, outputResults
<1>2. AllDone' /\ Named' = Named
  BY <1>1 DEF AllDone, Named
<1>3. CASE args.apply
  <2>1. pc' = "apply" /\ toApply' = DOMAIN substitutes /\ UNCHANGED <<exit, printed>>
    BY <1>3 DEF outputResults
  <2>2. toApply' \cup DOMAIN applied' = Named
    BY <1>1, <2>1 DEF AllDone, NothingOut
  <2> QED BY <1>1, <1>2, <2>1, <2>2 DEF FInv, NothingOut
<1>4. CASE ~args.apply
  <2>1. DOMAIN printed' = DOMAIN substitutes /\ pc' = "done" /\ exit' = "ok"
    BY <1>4 DEF outputResults, print, Ends
  <2>2. DOMAIN printed' \cup DOMAIN applied' = Named
    BY <1>1, <2>1 DEF AllDone, NothingOut
  <2>3. Named # {}
    <3>1. 1 \in DOMAIN files
      BY <1>1 DEF AllDone
    <3>2. files[1] \in Named
      BY <3>1 DEF Named
    <3> QED BY <3>2
  <2>4. AllResolvedFirst'
    BY <1>1, <1>2, <2>2, <2>3 DEF AllResolvedFirst, AllDone, Named
  <2> QED BY <2>1, <2>4 DEF FInv
<1> QED BY <1>3, <1>4

\* applyChanges ends well only when kubectl has had every file.
LEMMA ApplyFInv ==
    ASSUME FInv, applyChanges
    PROVE  FInv'
<1>1. /\ AllDone /\ exit = "running" /\ DOMAIN printed = {}
      /\ toApply \cup DOMAIN applied = Named
      /\ UNCHANGED <<files, file, substitutes, printed>> /\ pc = "apply"
  BY DEF FInv, applyChanges
<1>2. AllDone' /\ Named' = Named
  BY <1>1 DEF AllDone, Named
<1>3. Named # {}
  <2>1. 1 \in DOMAIN files
    BY <1>1 DEF AllDone
  <2>2. files[1] \in Named
    BY <2>1 DEF Named
  <2> QED BY <2>2
<1>4. ASSUME pc' = "done", exit' = "ok" => DOMAIN applied' = Named
      PROVE  FInv'
  <2>1. AllResolvedFirst'
    BY <1>1, <1>2, <1>3, <1>4 DEF AllResolvedFirst, AllDone, Named
  <2> QED BY <1>4, <2>1 DEF FInv
<1>5. CASE toApply = {} /\ Ends("ok") /\ UNCHANGED applied
  BY <1>1, <1>4, <1>5 DEF Ends
<1>6. CASE \E f \in toApply, ok, done \in BOOLEAN :
              /\ ok => done
              /\ applied' = IF done THEN Put(applied, f, substitutes[f]) ELSE applied
              /\ IF ok THEN toApply' = toApply \ {f} /\ UNCHANGED <<pc, exit>>
                 ELSE Ends("failed") /\ UNCHANGED toApply
  <2>1. PICK f \in toApply, ok \in BOOLEAN, done \in BOOLEAN :
              /\ ok => done
              /\ applied' = IF done THEN Put(applied, f, substitutes[f]) ELSE applied
              /\ IF ok THEN toApply' = toApply \ {f} /\ UNCHANGED <<pc, exit>>
                 ELSE Ends("failed") /\ UNCHANGED toApply
    BY <1>6
  <2>2. CASE ok
    <3>1. DOMAIN applied' = DOMAIN applied \cup {f} /\ toApply' = toApply \ {f}
      BY <2>1, <2>2, PutDomain
    <3>2. toApply' \cup DOMAIN applied' = Named
      BY <1>1, <3>1
    <3> QED BY <1>1, <1>2, <2>1, <2>2, <3>2 DEF FInv
  <2>3. CASE ~ok
    BY <1>4, <2>1, <2>3 DEF Ends
  <2> QED BY <2>2, <2>3
<1> QED BY <1>5, <1>6 DEF applyChanges

\* A tag that moves, and a step of nobody, change nothing the tool has done.
LEMMA OthersFInv ==
    ASSUME FInv, MoveTag \/ UNCHANGED vars
    PROVE  FInv'
<1>1. UNCHANGED <<pc, exit, args, files, file, substitutes, toApply, printed, applied>>
  BY DEF MoveTag, vars, tool, output
<1> QED
  BY <1>1 DEF FInv, Looping, AllDone, NothingOut, DoneFiles, Named, AllResolvedFirst

-----------------------------------------------------------------------------
(* The inductive invariant: what the manifests hold. *)

\* The loop over the images.
Lookups ==
    /\ todo \in Seq(SourceValues)
    /\ \A v \in DOMAIN resolved : Answers(v, resolved[v], pointed)

\* The loop over the documents.
Rewriting ==
    LET roots == Documents[files[file]] IN
    /\ doc \in 1..(Len(roots) + 1)
    /\ \A i \in DOMAIN roots :
          /\ i < doc => Done(roots[i], text, pointed)
          /\ i >= doc => Untouched(roots[i], text)

\* No image of the document is forgotten.
Resolving ==
    LET root == Documents[files[file]][doc] IN
    /\ doc \in DOMAIN Documents[files[file]] /\ ~panics[root]
    /\ Range(recursiveGetTaggedImages[root]) \subseteq Range(todo) \cup DOMAIN resolved

Results ==
    /\ \A f \in DOMAIN substitutes : FileDone(f, substitutes[f], pointed)
    /\ \A f \in DOMAIN applied : FileDone(f, applied[f], pointed)
    /\ \A f \in DOMAIN printed : FileShown(f, printed[f], pointed)

PInv ==
    /\ TypeOK
    /\ \A t \in Tags : registry[t] \in pointed[t]
    /\ Lookups
    /\ pc \in {"document", "resolve"} => Rewriting
    /\ pc = "resolve" => Resolving
    /\ Results

-----------------------------------------------------------------------------
(* The steps of the tool, and the manifests. *)

\* A set of files with their contents.
Contents(m) == DOMAIN m \subseteq Files /\ \A f \in DOMAIN m : m[f] \in Text
Shows(m) == DOMAIN m \subseteq Files /\ \A f \in DOMAIN m : m[f] \in Text \cup {Garbled}

\* One more file with its contents.
LEMMA PutContents ==
    ASSUME NEW m, Contents(m), NEW f \in Files, NEW t \in Text
    PROVE  Contents(Put(m, f, t))
<1>1. PICK q : q = Put(m, f, t)
  OBVIOUS
<1>2. DOMAIN q = DOMAIN m \cup {f} /\ q[f] = t /\ \A z \in DOMAIN m : z # f => q[z] = m[z]
  BY <1>1 DEF Put
<1>3. Contents(q)
  BY <1>2 DEF Contents
<1> QED BY <1>1, <1>3

\* The documents of a file.
LEMMA RootOf ==
    ASSUME NEW f \in Files
    PROVE  /\ Documents[f] \in Seq(Nodes)
           /\ \A i \in DOMAIN Documents[f] : Documents[f][i] \in Roots /\ Documents[f][i] \in Nodes
           /\ \A r \in DocumentsOf(f) : r \in Roots /\ \E i \in DOMAIN Documents[f] : r = Documents[f][i]
<1>1. Documents[f] \in Seq(Nodes)
  BY TreeAssumption
<1>2. \A i \in DOMAIN Documents[f] : Documents[f][i] \in Roots
  BY DEF Roots
<1> QED BY <1>1, <1>2, RootNodes DEF DocumentsOf

\* The tool begins with nothing read and nothing put out.
LEMMA InitPInv == Init => PInv
<1> SUFFICES ASSUME Init PROVE PInv
  OBVIOUS
<1>1. /\ files = << >> /\ file = 1 /\ doc = 1 /\ todo = << >> /\ toApply = {}
      /\ pc = "preRun" /\ exit = "running" /\ moves = 0 /\ faults = 0 /\ text = Source
      /\ DOMAIN resolved = {} /\ DOMAIN substitutes = {}
      /\ DOMAIN printed = {} /\ DOMAIN applied = {}
      /\ registry \in [Tags -> Digests \cup {Absent}]
      /\ pointed = [t \in Tags |-> {registry[t]}]
  BY EmptyDomain DEF Init
<1>2. pointed \in [Tags -> SUBSET (Digests \cup {Absent})] /\ \A t \in Tags : registry[t] \in pointed[t]
  BY <1>1
<1>3. file \in 1..Len(files) + 1 /\ DOMAIN files = {} /\ DOMAIN todo = {}
  BY <1>1
<1>4. moves \in 0..MaxMoves /\ faults \in 0..MaxFaults
  BY <1>1, ResolveAssumption
<1>5. TypeOK
  BY <1>1, <1>2, <1>3, <1>4, SourceText DEF TypeOK
<1>6. Lookups
  BY <1>1 DEF Lookups
<1> QED BY <1>1, <1>2, <1>5, <1>6 DEF PInv, Results

\* A call that fails counts against the bound.
LEMMA CallFaults ==
    ASSUME NEW ok \in BOOLEAN, Call(ok), faults \in 0..MaxFaults
    PROVE  faults' \in 0..MaxFaults
BY ResolveAssumption DEF Call

\* A tool that ends keeps what it has.
LEMMA EndsPInv ==
    ASSUME PInv, pc' = "done", exit' \in {"ok", "failed", "panic"},
           UNCHANGED <<outside, tool, output>>, faults' \in 0..MaxFaults
    PROVE  PInv'
<1>1. TypeOK'
  BY DEF PInv, TypeOK, outside, tool, output
<1>2. Lookups'
  BY DEF PInv, Lookups, outside, tool
<1>3. Results'
  BY DEF PInv, Results, outside, tool, output
<1> QED BY <1>1, <1>2, <1>3 DEF PInv, outside

\* PersistentPreRunE names files that exist.
LEMMA FilepathsPInv ==
    ASSUME PInv, FInv', resolveFilepaths
    PROVE  PInv'
<1>1. faults' \in 0..MaxFaults
  BY DEF PInv, TypeOK, resolveFilepaths
<1>2. SUFFICES ASSUME pc' = "read", \A i \in DOMAIN files' : files'[i] \in Files,
                      UNCHANGED <<exit, file, doc, todo, resolved, text, substitutes, toApply,
                                  outside, output, faults>>
               PROVE  PInv'
  BY <1>1, EndsPInv DEF resolveFilepaths, Ends
<1>3. file' \in 1..Len(files') + 1
  BY <1>2 DEF FInv, Looping
<1>4. TypeOK'
  BY <1>2, <1>3 DEF PInv, TypeOK, outside, output
<1>5. Lookups'
  BY <1>2 DEF PInv, Lookups, outside
<1>6. Results'
  BY <1>2 DEF PInv, Results, outside, output
<1> QED BY <1>2, <1>4, <1>5, <1>6 DEF PInv, outside

\* A file begins as it is on the disk.
LEMMA ExecutePInv ==
    ASSUME PInv, FInv', Execute
    PROVE  PInv'
<1>1. faults \in 0..MaxFaults /\ UNCHANGED <<outside, output>>
  BY DEF PInv, TypeOK, Execute
<1>2. CASE pc' = "output" /\ UNCHANGED <<exit, tool, faults>>
  <2>1. TypeOK'
    BY <1>1, <1>2 DEF PInv, TypeOK, outside, tool, output
  <2>2. Lookups'
    BY <1>1, <1>2 DEF PInv, Lookups, outside, tool
  <2>3. Results'
    BY <1>1, <1>2 DEF PInv, Results, outside, tool, output
  <2> QED BY <1>1, <1>2, <2>1, <2>2, <2>3 DEF PInv, outside
<1>3. CASE \E ok \in BOOLEAN :
              /\ Call(ok)
              /\ IF ok THEN /\ pc' = "document"
                            /\ text' = Source /\ doc' = 1
                            /\ UNCHANGED <<exit, args, files, file, todo, resolved,
                                           substitutes, toApply>>
                 ELSE Ends("failed") /\ UNCHANGED tool
  <2>1. faults' \in 0..MaxFaults
    BY <1>1, <1>3, CallFaults
  <2>2. SUFFICES ASSUME pc' = "document", text' = Source, doc' = 1,
                        UNCHANGED <<exit, args, files, file, todo, resolved, substitutes, toApply>>
                 PROVE  PInv'
    BY <1>1, <1>3, <2>1, EndsPInv DEF Ends
  <2>3. TypeOK'
    BY <1>1, <2>1, <2>2, SourceText DEF PInv, TypeOK, outside, output
  <2>4. Lookups'
    BY <1>1, <2>2 DEF PInv, Lookups, outside
  <2>5. Results'
    BY <1>1, <2>2 DEF PInv, Results, outside, output
  <2>6. files'[file'] \in Files
    <3>1. file' \in DOMAIN files'
      BY <2>2 DEF FInv, Looping
    <3> QED BY <2>3, <3>1 DEF TypeOK
  <2>7. Rewriting'
    <3>1. PICK roots : roots = Documents[files'[file']]
      OBVIOUS
    <3>2. roots \in Seq(Nodes)
      BY <2>6, <3>1, RootOf
    <3>3. 1 \in 1..(Len(roots) + 1) /\ \A i \in DOMAIN roots : ~(i < 1)
      BY <3>2
    <3>4. \A i \in DOMAIN roots : Untouched(roots[i], Source)
      BY DEF Untouched
    <3> QED BY <2>2, <3>1, <3>3, <3>4 DEF Rewriting
  <2> QED BY <1>1, <2>2, <2>3, <2>4, <2>5, <2>7 DEF PInv, outside
<1> QED BY <1>2, <1>3 DEF Execute

\* A file goes to the substitutes with every document of it done; a document
\* goes to the lookups with every image of it on the list.
LEMMA SubstitutionPInv ==
    ASSUME PInv, FInv, executeSubstitution
    PROVE  PInv'
<1>1. PICK f, roots : f = files[file] /\ roots = Documents[f]
  OBVIOUS
<1>2. /\ pc = "document" /\ UNCHANGED <<outside, output, faults>> /\ faults \in 0..MaxFaults
      /\ text \in Text /\ Rewriting
  BY DEF PInv, TypeOK, executeSubstitution
<1>3. f \in Files /\ file \in 1..Len(files)
  <2>1. file \in DOMAIN files /\ DOMAIN files = 1..Len(files)
    BY <1>2 DEF FInv, Looping
  <2> QED BY <1>1, <2>1 DEF PInv, TypeOK
<1>4. /\ doc \in 1..(Len(roots) + 1)
      /\ \A i \in DOMAIN roots : /\ i < doc => Done(roots[i], text, pointed)
                                 /\ i >= doc => Untouched(roots[i], text)
  BY <1>1, <1>2 DEF Rewriting
<1>5. roots \in Seq(Nodes) /\ DOMAIN roots = 1..Len(roots) /\ Len(roots) \in Nat
  BY <1>1, <1>3, RootOf
<1>6. CASE /\ doc > Len(roots)
           /\ substitutes' = Put(substitutes, files[file], text)
           /\ file' = file + 1
           /\ pc' = "read"
           /\ UNCHANGED <<exit, args, files, doc, todo, resolved, text, toApply>>
  <2>1. FileDone(f, text, pointed)
    <3>1. ASSUME NEW i \in DOMAIN roots PROVE i < doc
      BY <1>4, <1>5, <1>6
    <3> QED BY <1>1, <1>3, <1>4, <3>1, RootOf DEF FileDone
  <2>2. Contents(substitutes')
    <3>1. Contents(substitutes)
      BY DEF PInv, TypeOK, Contents
    <3> QED BY <1>1, <1>2, <1>3, <1>6, <3>1, PutContents
  <2>3. /\ DOMAIN substitutes' = DOMAIN substitutes \cup {f} /\ substitutes'[f] = text
        /\ \A g \in DOMAIN substitutes : g # f => substitutes'[g] = substitutes[g]
    BY <1>1, <1>6 DEF Put
  <2>4. file' \in 1..Len(files') + 1
    BY <1>3, <1>6
  <2>5. TypeOK'
    BY <1>2, <1>6, <2>2, <2>3, <2>4 DEF PInv, TypeOK, Contents, outside, output
  <2>6. Lookups'
    BY <1>2, <1>6 DEF PInv, Lookups, outside
  <2>7. Results'
    BY <1>2, <2>1, <2>3 DEF PInv, Results, outside, output
  <2> QED BY <1>2, <1>6, <2>5, <2>6, <2>7 DEF PInv, outside
<1>7. CASE pc' = "done" /\ exit' \in {"failed", "panic"} /\ UNCHANGED tool
  BY <1>2, <1>7, EndsPInv
<1>8. CASE /\ ~(doc > Len(roots)) /\ ~panics[roots[doc]]
           /\ todo' = recursiveGetTaggedImages[roots[doc]]
           /\ resolved' = empty
           /\ pc' = "resolve"
           /\ UNCHANGED <<exit, args, files, file, doc, text, substitutes, toApply>>
  <2>1. doc \in DOMAIN roots /\ roots[doc] \in Nodes
    BY <1>4, <1>5, <1>8
  <2>2. todo' \in Seq(SourceValues)
    BY <1>8, <2>1, TaggedValues
  <2>3. \A i \in DOMAIN todo' : todo'[i] \in Values
    BY <2>2 DEF SourceValues, Values
  <2>4. DOMAIN resolved' = {}
    BY <1>8, EmptyDomain
  <2>5. TypeOK'
    BY <1>2, <1>8, <2>3, <2>4 DEF PInv, TypeOK, outside, output
  <2>6. Lookups'
    BY <2>2, <2>4 DEF Lookups
  <2>7. Results'
    BY <1>2, <1>8 DEF PInv, Results, outside, output
  <2>8. Rewriting'
    BY <1>2, <1>8 DEF Rewriting, outside
  <2>9. Resolving'
    BY <1>1, <1>8, <2>1 DEF Resolving
  <2> QED BY <1>2, <1>8, <2>5, <2>6, <2>7, <2>8, <2>9 DEF PInv, outside
<1> QED BY <1>1, <1>6, <1>7, <1>8 DEF executeSubstitution, Ends

\* The lookups add answers of the registry, and the rewriting finishes a document.
LEMMA TagsPInv ==
    ASSUME PInv, FInv, resolveTagsToDigests
    PROVE  PInv'
<1>1. PICK f, roots, root : f = files[file] /\ roots = Documents[f] /\ root = roots[doc]
  OBVIOUS
<1>2. /\ pc = "resolve" /\ UNCHANGED <<outside, output, args, files, file, substitutes, toApply>>
      /\ faults \in 0..MaxFaults /\ text \in Text /\ pointed \in Histories
      /\ Rewriting /\ Resolving /\ Lookups
  BY DEF PInv, TypeOK, resolveTagsToDigests, Histories
<1>3. f \in Files
  <2>1. file \in DOMAIN files
    BY <1>2 DEF FInv, Looping
  <2> QED BY <1>1, <2>1 DEF PInv, TypeOK
<1>4. /\ roots \in Seq(Nodes) /\ DOMAIN roots = 1..Len(roots) /\ Len(roots) \in Nat
      /\ \A i \in DOMAIN roots : roots[i] \in Roots
  BY <1>1, <1>3, RootOf
<1>5. doc \in DOMAIN roots /\ ~panics[root]
      /\ Range(recursiveGetTaggedImages[root]) \subseteq Range(todo) \cup DOMAIN resolved
  BY <1>1, <1>2 DEF Resolving
<1>6. CASE todo = << >>
  <2>1. /\ text' = recursiveReplaceImage(root, text, resolved)
        /\ doc' = doc + 1 /\ pc' = "document" /\ UNCHANGED <<exit, todo, resolved, faults>>
    BY <1>1, <1>6 DEF resolveTagsToDigests
  <2>2. \A v \in DOMAIN resolved : Answers(v, resolved[v], pointed)
    BY <1>2 DEF Lookups
  <2>3. text' \in Text
    BY <1>2, <2>1, <2>2, RewriteText
  <2>4. TypeOK'
    BY <1>2, <2>1, <2>3 DEF PInv, TypeOK, outside, output
  <2>5. Lookups'
    BY <1>2, <2>1 DEF Lookups, outside
  <2>6. Results'
    BY <1>2, <2>1 DEF PInv, Results, outside, output
  <2>7. root \in Roots
    BY <1>1, <1>4, <1>5
  <2>8. Done(root, text', pointed)
    <3>1. Range(<< >>) = {}
      BY DEF Range
    <3>2. Range(recursiveGetTaggedImages[root]) \subseteq DOMAIN resolved
      BY <1>5, <1>6, <3>1
    <3>3. doc >= doc
      BY <1>4, <1>5
    <3>4. Untouched(root, text)
      BY <1>1, <1>2, <1>5, <3>3 DEF Rewriting
    <3>5. PICK r, t, p : r = resolved /\ t = text /\ p = pointed
      OBVIOUS
    <3> QED BY <1>2, <1>5, <2>1, <2>2, <2>7, <3>2, <3>4, <3>5, RewriteDone
  <2>9. ASSUME NEW i \in DOMAIN roots, i # doc
        PROVE  \A n \in NodesOf[roots[i]] \cap StringNodes : text'[n] = text[n]
    <3>1. NodesOf[root] \cap NodesOf[roots[i]] = {}
      BY <1>1, <1>3, <1>5, <2>9, ApartAssumption
    <3>2. roots[i] \in Roots
      BY <1>4
    <3> QED BY <2>1, <2>7, <3>1, <3>2, RewriteApart
  <2>10. ASSUME NEW i \in DOMAIN roots, i < doc + 1 PROVE Done(roots[i], text', pointed)
    <3>1. CASE i = doc
      BY <1>1, <2>8, <3>1
    <3>2. CASE i # doc
      <4>1. i < doc
        BY <1>4, <1>5, <2>10, <3>2
      <4>2. Done(roots[i], text, pointed)
        BY <1>1, <1>2, <4>1 DEF Rewriting
      <4>3. roots[i] \in Roots
        BY <1>4
      <4> QED BY <2>9, <3>2, <4>2, <4>3, DoneAgrees
    <3> QED BY <3>1, <3>2
  <2>11. ASSUME NEW i \in DOMAIN roots, i >= doc + 1 PROVE Untouched(roots[i], text')
    <3>1. i # doc /\ i >= doc
      BY <1>4, <1>5, <2>11
    <3>2. Untouched(roots[i], text)
      BY <1>1, <1>2, <3>1 DEF Rewriting
    <3> QED BY <2>9, <3>1, <3>2 DEF Untouched
  <2>12. doc + 1 \in 1..(Len(roots) + 1)
    BY <1>4, <1>5
  <2>13. roots = Documents[files'[file']] /\ pointed' = pointed
    BY <1>1, <1>2 DEF outside
  <2>14. Rewriting'
    BY <2>1, <2>10, <2>11, <2>12, <2>13 DEF Rewriting
  <2> QED BY <1>2, <2>1, <2>4, <2>5, <2>6, <2>14 DEF PInv, outside
<1>7. CASE todo # << >>
  <2>1. PICK ok \in BOOLEAN : resolver(Head(todo), ok)
    BY <1>7 DEF resolveTagsToDigests
  <2>2. UNCHANGED <<text, doc>>
    BY <1>7 DEF resolveTagsToDigests
  <2>3. PICK image : image = Head(todo)
    OBVIOUS
  <2>4. /\ todo \in Seq(SourceValues) /\ image \in SourceValues /\ Tail(todo) \in Seq(SourceValues)
        /\ Range(todo) \subseteq Range(Tail(todo)) \cup {image}
    <3>1. PICK s : s = todo
      OBVIOUS
    <3>2. s \in Seq(SourceValues) /\ s # << >>
      BY <1>2, <1>7, <3>1 DEF Lookups
    <3>3. Head(s) \in SourceValues /\ Tail(s) \in Seq(SourceValues)
      BY <3>2
    <3>4. ASSUME NEW i \in DOMAIN s, i # 1 PROVE s[i] \in Range(Tail(s))
      <4>1. i - 1 \in DOMAIN Tail(s) /\ Tail(s)[i - 1] = s[i]
        BY <3>2, <3>4
      <4> QED BY <4>1 DEF Range
    <3>5. Head(s) = s[1]
      BY <3>2
    <3>6. Range(s) \subseteq Range(Tail(s)) \cup {Head(s)}
      BY <3>4, <3>5 DEF Range
    <3> QED BY <2>3, <3>1, <3>2, <3>3, <3>6
  <2>5. faults' \in 0..MaxFaults
    BY <1>2, <2>1, CallFaults DEF resolver
  <2>6. SUFFICES ASSUME image.form = "tag", registry[NewTag(image)] # Absent, todo' = Tail(todo),
                        resolved' = Put(resolved, image,
                                        ByDigest(Context[image.repo], registry[NewTag(image)])),
                        UNCHANGED <<pc, exit>>
                 PROVE  PInv'
    <3>1. CASE Ends("failed") /\ UNCHANGED <<todo, resolved>>
      BY <1>2, <2>2, <2>5, <3>1, EndsPInv DEF Ends, tool
    <3>2. CASE ~(Ends("failed") /\ UNCHANGED <<todo, resolved>>)
      <4>1. /\ image.form = "tag" /\ registry[NewTag(image)] # Absent /\ todo' = Tail(todo)
            /\ resolved' = Put(resolved, image,
                               ByDigest(NewTag(image)[1], registry[NewTag(image)]))
            /\ UNCHANGED <<pc, exit>>
        BY <2>1, <2>3, <3>2 DEF resolver
      <4>2. NewTag(image)[1] = Context[image.repo]
        BY DEF NewTag
      <4> QED BY <2>6, <4>1, <4>2
    <3> QED BY <3>1, <3>2
  <2>7. PICK w : w = ByDigest(Context[image.repo], registry[NewTag(image)])
    OBVIOUS
  <2>8. Answers(image, w, pointed)
    <3>1. NewTag(image) \in Tags
      BY <2>4, <2>6, ResolveAssumption DEF SourceValues, Source
    <3>2. registry[NewTag(image)] \in pointed[NewTag(image)] \ {Absent}
      BY <2>6, <3>1 DEF PInv
    <3> QED BY <2>4, <2>6, <2>7, <3>2 DEF Answers
  <2>9. /\ DOMAIN resolved' = DOMAIN resolved \cup {image} /\ resolved'[image] = w
        /\ \A v \in DOMAIN resolved : v # image => resolved'[v] = resolved[v]
    BY <2>6, <2>7 DEF Put
  <2>10. \A v \in DOMAIN resolved' : Answers(v, resolved'[v], pointed)
    BY <1>2, <2>8, <2>9 DEF Lookups
  <2>11. Lookups'
    BY <1>2, <2>4, <2>6, <2>10 DEF Lookups, outside
  <2>12. DOMAIN resolved' \subseteq Values /\ \A v \in DOMAIN resolved' : resolved'[v] \in Values
    BY <1>2, <2>10, AnswerValues
  <2>13. \A i \in DOMAIN todo' : todo'[i] \in Values
    <3>1. SourceValues \subseteq Values
      BY DEF SourceValues, Values
    <3>2. PICK s : s = Tail(todo)
      OBVIOUS
    <3>3. \A i \in DOMAIN s : s[i] \in SourceValues
      BY <2>4, <3>2
    <3> QED BY <2>6, <3>1, <3>2, <3>3
  <2>14. TypeOK'
    BY <1>2, <2>2, <2>5, <2>6, <2>12, <2>13 DEF PInv, TypeOK, outside, output
  <2>15. Results'
    BY <1>2 DEF PInv, Results, outside, output
  <2>16. Rewriting'
    BY <1>2, <2>2 DEF Rewriting, outside
  <2>17. Resolving'
    BY <1>1, <1>2, <1>5, <2>2, <2>4, <2>6, <2>9 DEF Resolving
  <2> QED BY <1>2, <2>6, <2>11, <2>14, <2>15, <2>16, <2>17 DEF PInv, outside
<1> QED BY <1>6, <1>7

\* What is printed is what was rewritten, or it is spoilt.
LEMMA OutputPInv ==
    ASSUME PInv, outputResults
    PROVE  PInv'
<1>1. /\ UNCHANGED <<outside, args, files, file, doc, todo, resolved, text, substitutes,
                     applied, faults>>
      /\ pc' \notin {"document", "resolve"} /\ pc' \in {"apply", "done"} /\ exit' \in {exit, "ok"}
      /\ toApply' \in {toApply, DOMAIN substitutes}
      /\ printed' = printed \/ printed' = [f \in DOMAIN substitutes |-> Fprintf(f, substitutes[f])]
  BY DEF outputResults, print, Ends
<1>2. Contents(substitutes) /\ Shows(printed)
  BY DEF PInv, TypeOK, Contents, Shows
<1>3. Shows(printed') /\ \A f \in DOMAIN printed' : FileShown(f, printed'[f], pointed)
  <2>1. CASE printed' = printed
    BY <1>2, <2>1 DEF PInv, Results
  <2>2. CASE printed' = [f \in DOMAIN substitutes |-> Fprintf(f, substitutes[f])]
    <3>1. Shows(printed')
      BY <1>2, <2>2 DEF Contents, Shows, Fprintf
    <3>2. ASSUME NEW f \in DOMAIN substitutes
          PROVE  FileShown(f, Fprintf(f, substitutes[f]), pointed)
      <4>1. f \in Files
        BY <1>2 DEF Contents
      <4>2. FileDone(f, substitutes[f], pointed)
        BY DEF PInv, Results
      <4> QED BY <4>1, <4>2, PrintShows
    <3> QED BY <2>2, <3>1, <3>2
  <2> QED BY <1>1, <2>1, <2>2
<1>4. TypeOK'
  BY <1>1, <1>3 DEF PInv, TypeOK, Shows, outside
<1>5. Lookups'
  BY <1>1 DEF PInv, Lookups, outside
<1>6. Results'
  BY <1>1, <1>3 DEF PInv, Results, outside
<1> QED BY <1>1, <1>4, <1>5, <1>6 DEF PInv, outside

\* kubectl gets what was rewritten.
LEMMA ApplyPInv ==
    ASSUME PInv, applyChanges
    PROVE  PInv'
<1>1. /\ pc = "apply"
      /\ UNCHANGED <<outside, args, files, file, doc, todo, resolved, text, substitutes, printed>>
      /\ faults \in 0..MaxFaults
  BY DEF PInv, TypeOK, applyChanges
<1>2. CASE toApply = {} /\ Ends("ok") /\ UNCHANGED <<toApply, applied, faults>>
  BY <1>1, <1>2, EndsPInv DEF Ends, tool, output
<1>3. CASE \E f \in toApply, ok, done \in BOOLEAN :
             /\ Call(ok)
             /\ ok => done
             /\ applied' = IF done THEN Put(applied, f, substitutes[f]) ELSE applied
             /\ IF ok THEN toApply' = toApply \ {f} /\ UNCHANGED <<pc, exit>>
                ELSE Ends("failed") /\ UNCHANGED toApply
  <2>1. PICK f \in toApply, ok \in BOOLEAN, done \in BOOLEAN :
             /\ Call(ok)
             /\ applied' = IF done THEN Put(applied, f, substitutes[f]) ELSE applied
             /\ IF ok THEN toApply' = toApply \ {f} /\ UNCHANGED <<pc, exit>>
                ELSE Ends("failed") /\ UNCHANGED toApply
    BY <1>3
  <2>2. faults' \in 0..MaxFaults
    BY <1>1, <2>1, CallFaults
  <2>3. /\ f \in DOMAIN substitutes /\ f \in Files /\ substitutes[f] \in Text
        /\ FileDone(f, substitutes[f], pointed) /\ Contents(applied)
    BY DEF PInv, TypeOK, Results, Contents
  <2>4. Contents(applied')
    BY <2>1, <2>3, PutContents
  <2>5. \A g \in DOMAIN applied' : FileDone(g, applied'[g], pointed)
    <3>1. CASE applied' = applied
      BY <3>1 DEF PInv, Results
    <3>2. CASE applied' = Put(applied, f, substitutes[f])
      <4>1. /\ DOMAIN applied' = DOMAIN applied \cup {f} /\ applied'[f] = substitutes[f]
            /\ \A g \in DOMAIN applied : g # f => applied'[g] = applied[g]
        BY <3>2 DEF Put
      <4> QED BY <2>3, <4>1 DEF PInv, Results
    <3> QED BY <2>1, <3>1, <3>2
  <2>6. toApply' \subseteq toApply /\ pc' \in {"apply", "done"} /\ exit' \in {exit, "failed"}
    BY <1>1, <2>1 DEF Ends
  <2>7. TypeOK'
    BY <1>1, <2>2, <2>4, <2>6 DEF PInv, TypeOK, Contents, outside
  <2>8. Lookups'
    BY <1>1 DEF PInv, Lookups, outside
  <2>9. Results'
    BY <1>1, <2>5 DEF PInv, Results, outside
  <2> QED BY <1>1, <2>6, <2>7, <2>8, <2>9 DEF PInv, outside
<1> QED BY <1>2, <1>3 DEF applyChanges

\* A tag that moves adds to what it has pointed to, and takes nothing back.
LEMMA MovePInv ==
    ASSUME PInv, MoveTag
    PROVE  PInv'
<1>1. PICK t \in Tags, d \in Digests \cup {Absent} :
          /\ registry' = [registry EXCEPT ![t] = d]
          /\ pointed' = [pointed EXCEPT ![t] = @ \cup {d}]
  BY DEF MoveTag
<1>2. UNCHANGED <<pc, exit, tool, output, faults>> /\ moves < MaxMoves /\ moves' = moves + 1
  BY DEF MoveTag
<1>3. registry \in [Tags -> Digests \cup {Absent}] /\ pointed \in Histories
      /\ moves \in 0..MaxMoves /\ \A x \in Tags : registry[x] \in pointed[x]
  BY DEF PInv, TypeOK, Histories
<1>4. registry' \in [Tags -> Digests \cup {Absent}] /\ pointed' \in Histories
  BY <1>1, <1>3 DEF Histories
<1>5. \A x \in Tags : registry'[x] \in pointed'[x] /\ pointed[x] \subseteq pointed'[x]
  BY <1>1, <1>3 DEF Histories
<1>6. moves' \in 0..MaxMoves
  BY <1>2, <1>3, ResolveAssumption
<1>7. TypeOK'
  BY <1>2, <1>4, <1>6 DEF PInv, TypeOK, Histories, tool, output
<1>8. PICK p, q : p = pointed /\ q = pointed' /\ \A x \in Tags : p[x] \subseteq q[x]
  BY <1>5
<1>9. \A r, u : Done(r, u, p) => Done(r, u, q)
  BY <1>8, PinnedGrows DEF Done
<1>11. \A v, w : Answers(v, w, p) => Answers(v, w, q)
  BY <1>8, AnswersGrow
<1>12. Lookups'
  <2>1. todo' = todo /\ resolved' = resolved
    BY <1>2 DEF tool
  <2> QED BY <1>8, <1>11, <2>1 DEF PInv, Lookups
<1>13. Results'
  <2>1. substitutes' = substitutes /\ applied' = applied /\ printed' = printed
    BY <1>2 DEF tool, output
  <2>2. \A f, u : FileDone(f, u, p) => FileDone(f, u, q)
    BY <1>9 DEF FileDone
  <2>3. \A f, u : FileShown(f, u, p) => FileShown(f, u, q)
    BY <2>2 DEF FileShown
  <2> QED BY <1>8, <2>1, <2>2, <2>3 DEF PInv, Results
<1>14. Rewriting => Rewriting'
  <2>1. files' = files /\ file' = file /\ doc' = doc /\ text' = text
    BY <1>2 DEF tool
  <2> QED BY <1>8, <1>9, <2>1 DEF Rewriting
<1>15. Resolving => Resolving'
  BY <1>2 DEF Resolving, tool
<1> QED BY <1>2, <1>5, <1>7, <1>12, <1>13, <1>14, <1>15 DEF PInv

\* A step that changes nothing keeps the invariant.
LEMMA StutterPInv ==
    ASSUME PInv, UNCHANGED vars
    PROVE  PInv'
<1>1. TypeOK'
  BY DEF PInv, TypeOK, vars, outside, tool, output
<1>2. Lookups' /\ Results'
  BY DEF PInv, Lookups, Results, vars, outside, tool, output
<1>3. (Rewriting => Rewriting') /\ (Resolving => Resolving')
  BY DEF Rewriting, Resolving, vars, outside, tool
<1> QED BY <1>1, <1>2, <1>3 DEF PInv, vars, outside

-----------------------------------------------------------------------------
(* The theorems. *)

\* How far the loops of the tool have come in every state it can reach (Execute,
\* executeSubstitution, outputResults, applyChanges).
THEOREM LoopsInvariant == Spec => []FInv
<1>1. Init => FInv
  BY InitFInv
<1>2. FInv /\ [Next]_vars => FInv'
  BY FilepathsFInv, ExecuteFInv, SubstitutionFInv, TagsFInv, OutputFInv, ApplyFInv,
     OthersFInv DEF Next, RootCmd
<1> QED BY <1>1, <1>2, PTL DEF Spec

\* Nothing is printed or applied before every file of the command line is
\* resolved, and the tool succeeds only if every one of them went out, whatever
\* the manifests hold, however the tags move and whichever calls fail.
THEOREM AllOrNothing == Spec => []AllResolvedFirst
<1>1. FInv => AllResolvedFirst
  <2>1. SUFFICES ASSUME FInv, pc # "done" PROVE AllResolvedFirst
    BY DEF FInv
  <2>2. exit # "ok"
    BY <2>1 DEF FInv
  <2>3. CASE pc = "apply"
    BY <2>1, <2>2, <2>3 DEF FInv, AllDone, Named, AllResolvedFirst
  <2>4. CASE pc # "apply"
    <3>1. NothingOut
      BY <2>1, <2>4 DEF FInv
    <3> QED BY <2>2, <3>1 DEF NothingOut, AllResolvedFirst
  <2> QED BY <2>3, <2>4
<1> QED BY <1>1, LoopsInvariant, PTL

\* What the manifests hold in every state the tool can reach: the documents
\* behind it are pinned, those before it are untouched, and every image of the
\* current one is looked up or still to do (resolveTagsToDigests,
\* recursiveReplaceImage).
THEOREM ManifestsInvariant == Spec => []PInv
<1>1. Init => PInv
  BY InitPInv
<1>2. PInv /\ FInv /\ FInv' /\ [Next]_vars => PInv'
  BY FilepathsPInv, ExecutePInv, SubstitutionPInv, TagsPInv, OutputPInv, ApplyPInv,
     MovePInv, StutterPInv DEF Next, RootCmd
<1> QED BY <1>1, <1>2, LoopsInvariant, PTL DEF Spec

\* The variables keep their types, for any manifests: in particular every value
\* of a rewritten text is one of the source or one the registry gave, and what is
\* printed is such a text or is spoilt (recursiveReplaceImage, resolver, print).
THEOREM TypeCorrect == Spec => []TypeOK
BY ManifestsInvariant, PTL DEF PInv

\* What reaches the cluster is pinned, whatever trees the documents are and however
\* often the tags move: every image is by a digest its tag had during the run, the
\* mentions of an image within a document agree, and no other string changes.  What
\* is printed of a file without a percent sign is pinned in the same way; of other
\* files nothing is claimed (executeSubstitution, recursiveGetTaggedImages,
\* recursiveReplaceImage, resolveTagsToDigests, print).
THEOREM OutputIsPinned == Spec => []OutputPinned
<1>1. PInv => OutputPinned
  <2>1. SUFFICES ASSUME PInv PROVE OutputPinned
    OBVIOUS
  <2>2. \A r, t : PinnedIn(r, t, pointed) => Pinned(r, t)
    BY DEF PinnedIn, Pinned
  <2>3. Results
    BY <2>1 DEF PInv
  <2> QED BY <2>2, <2>3 DEF Results, FileDone, FileShown, Done, OutputPinned
<1> QED BY <1>1, ManifestsInvariant, PTL

-----------------------------------------------------------------------------
(* The tool cannot go on for ever. *)

\* What is left to do, the outer loops first: phases, files, whether the file is
\* still to be read, documents, whether its images are still to be collected,
\* and calls of the registry or of kubectl.
PhasesLeft ==
    [preRun |-> 4, read |-> 3, document |-> 3, resolve |-> 3, output |-> 2, apply |-> 1, done |-> 0]
InDocument == pc \in {"document", "resolve"}
FilesLeft == IF pc = "read" \/ InDocument THEN Len(files) + 1 - file ELSE 0
DocsLeft == IF InDocument THEN Len(Documents[files[file]]) + 1 - doc ELSE 0
CallsLeft == IF pc = "resolve" THEN Len(todo) ELSE IF pc = "apply" THEN Cardinality(toApply) ELSE 0
Left == <<PhasesLeft[pc], FilesLeft, IF pc = "read" THEN 1 ELSE 0,
          DocsLeft, IF pc = "document" THEN 1 ELSE 0, CallsLeft>>

\* The lexicographic order.
Less(a, b) == \E k \in 1..6 : a[k] < b[k] /\ \A j \in 1..(k - 1) : a[j] = b[j]

\* The first component in which two tuples differ decides.
LEMMA LessAt ==
    ASSUME NEW a1, NEW a2, NEW a3, NEW a4, NEW a5, NEW a6,
           NEW b1, NEW b2, NEW b3, NEW b4, NEW b5, NEW b6,
           \/ a1 < b1
           \/ a1 = b1 /\ a2 < b2
           \/ a1 = b1 /\ a2 = b2 /\ a3 < b3
           \/ a1 = b1 /\ a2 = b2 /\ a3 = b3 /\ a4 < b4
           \/ a1 = b1 /\ a2 = b2 /\ a3 = b3 /\ a4 = b4 /\ a5 < b5
           \/ a1 = b1 /\ a2 = b2 /\ a3 = b3 /\ a4 = b4 /\ a5 = b5 /\ a6 < b6
    PROVE  Less(<<a1, a2, a3, a4, a5, a6>>, <<b1, b2, b3, b4, b5, b6>>)
<1>1. PICK a, b : a = <<a1, a2, a3, a4, a5, a6>> /\ b = <<b1, b2, b3, b4, b5, b6>>
  OBVIOUS
<1>2. /\ a[1] = a1 /\ a[2] = a2 /\ a[3] = a3 /\ a[4] = a4 /\ a[5] = a5 /\ a[6] = a6
      /\ b[1] = b1 /\ b[2] = b2 /\ b[3] = b3 /\ b[4] = b4 /\ b[5] = b5 /\ b[6] = b6
  BY <1>1
<1>3. Less(a, b)
  <2>1. CASE a1 < b1
    <3>1. 1 \in 1..6 /\ \A j \in 1..(1 - 1) : a[j] = b[j]
      OBVIOUS
    <3> QED BY <1>2, <2>1, <3>1 DEF Less
  <2>2. CASE a1 = b1 /\ a2 < b2
    <3>1. 2 \in 1..6 /\ \A j \in 1..(2 - 1) : j = 1
      OBVIOUS
    <3> QED BY <1>2, <2>2, <3>1 DEF Less
  <2>3. CASE a1 = b1 /\ a2 = b2 /\ a3 < b3
    <3>1. 3 \in 1..6 /\ \A j \in 1..(3 - 1) : j = 1 \/ j = 2
      OBVIOUS
    <3> QED BY <1>2, <2>3, <3>1 DEF Less
  <2>4. CASE a1 = b1 /\ a2 = b2 /\ a3 = b3 /\ a4 < b4
    <3>1. 4 \in 1..6 /\ \A j \in 1..(4 - 1) : j = 1 \/ j = 2 \/ j = 3
      OBVIOUS
    <3> QED BY <1>2, <2>4, <3>1 DEF Less
  <2>5. CASE a1 = b1 /\ a2 = b2 /\ a3 = b3 /\ a4 = b4 /\ a5 < b5
    <3>1. 5 \in 1..6 /\ \A j \in 1..(5 - 1) : j = 1 \/ j = 2 \/ j = 3 \/ j = 4
      OBVIOUS
    <3> QED BY <1>2, <2>5, <3>1 DEF Less
  <2>6. CASE a1 = b1 /\ a2 = b2 /\ a3 = b3 /\ a4 = b4 /\ a5 = b5 /\ a6 < b6
    <3>1. 6 \in 1..6 /\ \A j \in 1..(6 - 1) : j = 1 \/ j = 2 \/ j = 3 \/ j = 4 \/ j = 5
      OBVIOUS
    <3> QED BY <1>2, <2>6, <3>1 DEF Less
  <2> QED BY <2>1, <2>2, <2>3, <2>4, <2>5, <2>6
<1> QED BY <1>1, <1>3

\* What kubectl has not seen yet is finite.
LEMMA ToApplyFinite ==
    ASSUME FInv, PInv, pc \in {"output", "apply"}
    PROVE  /\ IsFiniteSet(DOMAIN substitutes)
           /\ IsFiniteSet(toApply) /\ Cardinality(toApply) \in Nat
<1>1. DOMAIN files = 1..Len(files) /\ Len(files) \in Nat /\ DOMAIN substitutes = Named
  BY DEF FInv, AllDone
<1>2. PICK n \in Nat : n = Len(files)
  BY <1>1
<1>3. [i \in 1..n |-> files[i]] \in Surjection(1..n, Named)
  BY <1>1, <1>2 DEF Surjection, Named
<1>4. IsFiniteSet(Named)
  BY <1>3, FS_NatSurjection DEF ExistsSurjection
<1>5. toApply \subseteq Named
  BY <1>1 DEF PInv, TypeOK
<1>6. IsFiniteSet(toApply)
  BY <1>4, <1>5, FS_Subset
<1> QED BY <1>1, <1>4, <1>6, FS_CardinalityType

\* What is left is counted in natural numbers, which have no infinite descent.
LEMMA LeftNat ==
    ASSUME FInv, PInv
    PROVE  /\ PhasesLeft[pc] \in Nat /\ FilesLeft \in Nat /\ DocsLeft \in Nat /\ CallsLeft \in Nat
<1>1. PhasesLeft[pc] \in Nat
  BY DEF FInv, PhasesLeft
<1>2. FilesLeft \in Nat
  BY DEF FInv, Looping, FilesLeft, InDocument
<1>3. DocsLeft \in Nat
  <2>1. SUFFICES ASSUME InDocument PROVE Len(Documents[files[file]]) + 1 - doc \in Nat
    BY DEF DocsLeft
  <2>2. files[file] \in Files
    BY <2>1 DEF InDocument, FInv, Looping, PInv, TypeOK
  <2>3. Len(Documents[files[file]]) \in Nat
    BY <2>2, RootOf
  <2>4. doc \in 1..(Len(Documents[files[file]]) + 1)
    BY <2>1 DEF InDocument, PInv, Rewriting
  <2> QED BY <2>3, <2>4
<1>4. CallsLeft \in Nat
  <2>1. pc = "resolve" => Len(todo) \in Nat
    BY DEF PInv, Lookups
  <2>2. pc = "apply" => Cardinality(toApply) \in Nat
    BY ToApplyFinite
  <2> QED BY <2>1, <2>2 DEF CallsLeft
<1> QED BY <1>1, <1>2, <1>3, <1>4

\* The ways in which less can be left, from the outermost loop inwards.
LEMMA LeftLess ==
    ASSUME \/ PhasesLeft[pc'] < PhasesLeft[pc]
           \/ /\ PhasesLeft[pc'] = PhasesLeft[pc]
              /\ \/ FilesLeft' < FilesLeft
                 \/ /\ FilesLeft' = FilesLeft
                    /\ \/ pc = "read" /\ pc' = "document"
                       \/ /\ pc # "read" /\ pc' # "read"
                          /\ \/ DocsLeft' < DocsLeft
                             \/ DocsLeft' = DocsLeft /\ pc = "document" /\ pc' = "resolve"
                             \/ DocsLeft' = DocsLeft /\ pc' = pc /\ CallsLeft' < CallsLeft
    PROVE  Less(Left', Left)
<1> DEFINE toRead(p) == IF p = "read" THEN 1 ELSE 0
           toCollect(p) == IF p = "document" THEN 1 ELSE 0
<1>1. PICK a1, a2, a3, a4, a5, a6 :
         /\ a1 = PhasesLeft[pc'] /\ a2 = FilesLeft' /\ a3 = toRead(pc')
         /\ a4 = DocsLeft' /\ a5 = toCollect(pc') /\ a6 = CallsLeft'
  OBVIOUS
<1>2. PICK b1, b2, b3, b4, b5, b6 :
         /\ b1 = PhasesLeft[pc] /\ b2 = FilesLeft /\ b3 = toRead(pc)
         /\ b4 = DocsLeft /\ b5 = toCollect(pc) /\ b6 = CallsLeft
  OBVIOUS
<1>3. Left' = <<a1, a2, a3, a4, a5, a6>> /\ Left = <<b1, b2, b3, b4, b5, b6>>
  BY <1>1, <1>2 DEF Left, PhasesLeft
<1>4. Less(<<a1, a2, a3, a4, a5, a6>>, <<b1, b2, b3, b4, b5, b6>>)
  BY <1>1, <1>2, LessAt
<1> QED BY <1>3, <1>4

\* A step of the tool brings it nearer to its end: it leaves a phase, or goes on
\* in one of the loops.
LEMMA StepsLess ==
    ASSUME FInv, PInv, RootCmd
    PROVE  Less(Left', Left)
<1>1. CASE resolveFilepaths
  <2>1. pc = "preRun" /\ pc' \in {"done", "read"}
    BY <1>1 DEF resolveFilepaths, Ends
  <2> QED BY <2>1, LeftLess DEF PhasesLeft
<1>2. CASE Execute
  <2>1. pc = "read"
    BY <1>2 DEF Execute
  <2>2. CASE pc' \in {"output", "done"}
    BY <2>1, <2>2, LeftLess DEF PhasesLeft
  <2>3. CASE pc' \notin {"output", "done"}
    <3>1. pc' = "document" /\ files' = files /\ file' = file
      BY <1>2, <2>3 DEF Execute, Ends
    <3>2. FilesLeft' = FilesLeft
      BY <2>1, <3>1 DEF FilesLeft, InDocument
    <3> QED BY <2>1, <3>1, <3>2, LeftLess DEF PhasesLeft
  <2> QED BY <2>2, <2>3
<1>3. CASE executeSubstitution
  <2>1. pc = "document"
    BY <1>3 DEF executeSubstitution
  <2>2. CASE pc' = "done"
    BY <2>1, <2>2, LeftLess DEF PhasesLeft
  <2>3. CASE pc' = "read"
    <3>1. files' = files /\ file' = file + 1
      BY <1>3, <2>3 DEF executeSubstitution, Ends
    <3>2. Len(files) \in Nat /\ file \in Nat
      BY <2>1 DEF FInv, Looping
    <3>3. FilesLeft' < FilesLeft
      BY <2>1, <2>3, <3>1, <3>2 DEF FilesLeft, InDocument
    <3> QED BY <2>1, <2>3, <3>3, LeftLess DEF PhasesLeft
  <2>4. CASE pc' \notin {"done", "read"}
    <3>1. pc' = "resolve" /\ files' = files /\ file' = file /\ doc' = doc
      BY <1>3, <2>4 DEF executeSubstitution, Ends
    <3>2. FilesLeft' = FilesLeft /\ DocsLeft' = DocsLeft
      BY <2>1, <3>1 DEF FilesLeft, DocsLeft, InDocument
    <3> QED BY <2>1, <3>1, <3>2, LeftLess DEF PhasesLeft
  <2> QED BY <2>2, <2>3, <2>4
<1>4. CASE resolveTagsToDigests
  <2>1. pc = "resolve" /\ files' = files /\ file' = file
    BY <1>4 DEF resolveTagsToDigests
  <2>2. CASE pc' = "done"
    BY <2>1, <2>2, LeftLess DEF PhasesLeft
  <2>3. CASE todo = << >>
    <3>1. pc' = "document" /\ doc' = doc + 1
      BY <1>4, <2>3 DEF resolveTagsToDigests
    <3>2. files[file] \in Files
      BY <2>1 DEF FInv, Looping, PInv, TypeOK
    <3>3. Len(Documents[files[file]]) \in Nat /\ doc \in Nat
      BY <3>2, RootOf DEF PInv, TypeOK
    <3>4. FilesLeft' = FilesLeft
      BY <2>1, <3>1 DEF FilesLeft, InDocument
    <3>5. PICK n \in Nat : n = Len(Documents[files[file]])
      BY <3>3
    <3>6. DocsLeft = n + 1 - doc /\ DocsLeft' = n + 1 - (doc + 1)
      BY <2>1, <3>1, <3>5 DEF DocsLeft, InDocument
    <3>7. DocsLeft' < DocsLeft
      <4>1. n + 1 - (doc + 1) < n + 1 - doc
        BY <3>3
      <4> QED BY <3>6, <4>1, Zenon
    <3> QED BY <2>1, <3>1, <3>4, <3>7, LeftLess DEF PhasesLeft
  <2>4. CASE todo # << >> /\ pc' # "done"
    <3>1. pc' = pc /\ doc' = doc /\ todo' = Tail(todo)
      BY <1>4, <2>4 DEF resolveTagsToDigests, resolver, Ends
    <3>2. Len(Tail(todo)) < Len(todo)
      <4>1. todo \in Seq(SourceValues)
        BY DEF PInv, Lookups
      <4> QED BY <2>4, <4>1
    <3>3. FilesLeft' = FilesLeft /\ DocsLeft' = DocsLeft /\ CallsLeft' < CallsLeft
      BY <2>1, <3>1, <3>2 DEF FilesLeft, DocsLeft, InDocument, CallsLeft
    <3> QED BY <2>1, <3>1, <3>3, LeftLess
  <2> QED BY <2>2, <2>3, <2>4
<1>5. CASE outputResults
  BY <1>5, LeftLess DEF outputResults, Ends, PhasesLeft
<1>6. CASE applyChanges
  <2>1. pc = "apply"
    BY <1>6 DEF applyChanges
  <2>2. CASE pc' = "done"
    BY <2>1, <2>2, LeftLess DEF PhasesLeft
  <2>3. CASE pc' # "done"
    <3>1. PICK f \in toApply : toApply' = toApply \ {f} /\ pc' = pc
      BY <1>6, <2>3 DEF applyChanges, Ends
    <3>2. IsFiniteSet(toApply) /\ Cardinality(toApply) \in Nat
      BY <2>1, ToApplyFinite
    <3>3. Cardinality(toApply \ {f}) = Cardinality(toApply) - 1
      BY <3>2, FS_RemoveElement
    <3>4. CallsLeft' < CallsLeft
      BY <2>1, <3>1, <3>2, <3>3 DEF CallsLeft
    <3>5. FilesLeft' = FilesLeft /\ DocsLeft' = DocsLeft
      BY <2>1, <3>1 DEF FilesLeft, DocsLeft, InDocument
    <3> QED BY <2>1, <3>1, <3>4, <3>5, LeftLess
  <2> QED BY <2>2, <2>3
<1> QED BY <1>1, <1>2, <1>3, <1>4, <1>5, <1>6 DEF RootCmd

\* Every step of the tool leaves less to do, in the lexicographic order on six
\* natural numbers, and no tag that moves adds to it: however the registry
\* answers and however big the manifests are, Execute, executeSubstitution,
\* resolveTagsToDigests and applyChanges cannot loop.  That they also go on until
\* the end is the liveness property Finishes.
Descends == [][(RootCmd => Less(Left', Left)) /\ (MoveTag => Left' = Left)]_vars

\* Every behaviour of the tool descends, and what is left is always a tuple of
\* natural numbers, so that no behaviour has infinitely many steps of the tool.
THEOREM ToolDescends ==
    Spec => Descends /\ [](Left \in Nat \X Nat \X Nat \X Nat \X Nat \X Nat)
<1>1. FInv /\ PInv /\ [Next]_vars =>
         [(RootCmd => Less(Left', Left)) /\ (MoveTag => Left' = Left)]_vars
  <2>1. ASSUME MoveTag PROVE Left' = Left
    <3>1. UNCHANGED <<pc, files, file, doc, todo, toApply>>
      BY <2>1 DEF MoveTag, tool
    <3> QED BY <3>1 DEF Left, PhasesLeft, FilesLeft, DocsLeft, CallsLeft, InDocument
  <2> QED BY <2>1, StepsLess
<1>2. FInv /\ PInv => Left \in Nat \X Nat \X Nat \X Nat \X Nat \X Nat
  <2>1. (IF pc = "read" THEN 1 ELSE 0) \in Nat /\ (IF pc = "document" THEN 1 ELSE 0) \in Nat
    OBVIOUS
  <2> QED BY <2>1, LeftNat DEF Left
<1> QED BY <1>1, <1>2, LoopsInvariant, ManifestsInvariant, PTL DEF Spec, Descends

=============================================================================
