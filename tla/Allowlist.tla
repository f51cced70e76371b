------------------------------ MODULE Allowlist ------------------------------
(***************************************************************************)
(* Which images a list takes out of a review (pkg/kritis/util/             *)
(* allowlist.go).  A name is a sequence of symbols, two of which have a    *)
(* meaning: "/" between the parts of a path and "*" at the end of a        *)
(* pattern.  Matching one entry says "match", "no" or "error".             *)
(***************************************************************************)
EXTENDS Naturals, Sequences, SequencesExt

CONSTANTS
    Repository,        \* the repository a reference resolves to, or NoReference
    NoReference        \* the name does not parse

\* Tags and digests are not compared.
imageRefMatch(image, pattern) ==
    IF NoReference \in {Repository[image], Repository[pattern]} THEN "error"
    ELSE IF Repository[image] = Repository[pattern] THEN "match" ELSE "no"

LastIndex(image) == SelectLastInSeq(image, LAMBDA c : c = "/")

\* Mutant: the wildcard matches any path.
imageNamePatternMatch_anyPath(image, pattern) ==
    CASE pattern = <<>> -> "error"
      [] pattern # <<>> /\ Last(pattern) = "*" ->
            IF IsPrefix(Front(pattern), image) THEN "match" ELSE "no"
      [] OTHER -> IF image = pattern THEN "match" ELSE "no"

\* The wildcard stands for the rest of the last part of the path.
imageNamePatternMatch(image, pattern) ==
    CASE pattern = <<>> -> "error"
      [] pattern # <<>> /\ Last(pattern) = "*" ->
            IF IsPrefix(Front(pattern), image) /\ LastIndex(image) <= Len(pattern) - 1
            THEN "match" ELSE "no"
      [] OTHER -> IF image = pattern THEN "match" ELSE "no"

\* The loops end at the first entry that matches or that is an error.
firstIs(verdicts, v) ==
    \E i \in DOMAIN verdicts :
        verdicts[i] = v /\ \A j \in 1..i - 1 : verdicts[j] = "no"

imageInAllowlistByReference(image, allowList) ==
    firstIs([i \in DOMAIN allowList |-> imageRefMatch(image, allowList[i])], "match")

imageInAllowlistByPattern(image, allowList) ==
    firstIs([i \in DOMAIN allowList |-> imageNamePatternMatch(image, allowList[i])], "match")

=============================================================================
