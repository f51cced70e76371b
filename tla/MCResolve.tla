------------------------------ MODULE MCResolve ------------------------------
(***************************************************************************)
(* Manifests for TLC.  "web" is short for "library/web", so both names     *)
(* share a tag.                                                            *)
(***************************************************************************)
EXTENDS Resolve, TLC

Tagged(repo, ref) == [form |-> "tag", repo |-> repo, ref |-> ref]
Plain(s) == [form |-> "text", repo |-> "", ref |-> s]

map(kids) == [kind |-> "map", key |-> "", kids |-> kids]
list(kids) == [kind |-> "list", key |-> "", kids |-> kids]
item(key, n) == [kind |-> "item", key |-> key, kids |-> <<n>>]
string(v) == [kind |-> "string", key |-> "", kids |-> <<>>, value |-> v]
scalar == [kind |-> "other", key |-> "", kids |-> <<>>]

(* pod.yaml: two containers with the same image, which is mentioned once   *)
(* more as an argument, and a second document with the image's other name. *)
(* job.yaml: an image without a tag and one by digest.  date.yaml and      *)
(* surge.yaml have a percent sign, in a string and in a key.  The others   *)
(* fail: a document that does not parse behind a good one, an image that   *)
(* is a map, a key that is a number, an image that is no reference.        *)
MCNode ==
    [p0 |-> map(<<"p1", "p8">>), p1 |-> item("containers", "p2"), p2 |-> list(<<"p3", "p6">>),
     p3 |-> map(<<"p4", "p9">>), p4 |-> item("image", "p5"), p5 |-> string(Tagged("web", "v1")),
     p6 |-> map(<<"p7">>), p7 |-> item("image", "pa"), pa |-> string(Tagged("web", "v1")),
     p8 |-> item("args", "pb"), pb |-> list(<<"pc", "pd">>),
     pc |-> string(Tagged("web", "v1")), pd |-> string(Plain("--all")),
     p9 |-> item("port", "pe"), pe |-> scalar,
     q0 |-> map(<<"q1">>), q1 |-> item("image", "q2"), q2 |-> string(Tagged("library/web", "v1")),
     j0 |-> map(<<"j1", "j3">>), j1 |-> item("image", "j2"), j2 |-> string(Tagged("app", "")),
     j3 |-> item("spec", "j4"), j4 |-> map(<<"j5">>), j5 |-> item("image", "j6"),
     j6 |-> string(ByDigest("app", "d1")),
     d0 |-> map(<<"d1", "d3">>), d1 |-> item("args", "d2"), d2 |-> string(Plain("date +%d")),
     d3 |-> item("image", "d4"), d4 |-> string(Tagged("web", "v1")),
     s0 |-> map(<<"s1", "s3">>), s1 |-> item("50%", "s2"), s2 |-> scalar,
     s3 |-> item("image", "s4"), s4 |-> string(Tagged("app", "")),
     b0 |-> map(<<"b1">>), b1 |-> item("image", "b2"), b2 |-> string(Tagged("web", "v1")),
     b3 |-> [scalar EXCEPT !.kind = invalid],
     h0 |-> map(<<"h1">>), h1 |-> item("image", "h2"), h2 |-> map(<<>>),
     k0 |-> map(<<"k1">>), k1 |-> item(NonString, "k2"), k2 |-> string(Plain("eighty")),
     x0 |-> map(<<"x1">>), x1 |-> item("image", "x2"), x2 |-> string(Plain("no reference"))]

MCNodes == DOMAIN MCNode
MCDocuments ==
    [pod |-> <<"p0", "q0">>, job |-> <<"j0">>, date |-> <<"d0">>, surge |-> <<"s0">>, bad |-> <<"b0", "b3">>,
     helm |-> <<"h0">>, ports |-> <<"k0">>, noref |-> <<"x0">>]
MCFiles == DOMAIN MCDocuments
MCFullPath == [p \in {"/job", "/gone"} |-> IF p = "/job" THEN "job" ELSE p]

Line(fs, a) == [files |-> fs, apply |-> a, envFile |-> "", envApply |-> ""]
MCCommandLines ==
    {Line(<<"pod", "/job">>, TRUE), Line(<<"job", "pod", "job">>, FALSE), Line(<<>>, TRUE),
     Line(<<"job", "/gone">>, FALSE), Line(<<"job", "bad">>, TRUE), Line(<<"job", "helm">>, TRUE),
     Line(<<"surge", "job", "date">>, FALSE), Line(<<"date">>, TRUE),
     Line(<<"ports">>, FALSE), Line(<<"job", "noref">>, FALSE),
     [Line(<<"bad">>, FALSE) EXCEPT !.envFile = "pod", !.envApply = "false"]}

MCTags == {<<"library/web", "v1">>, <<"app", "latest">>}
MCContext == [r \in {"web", "library/web", "app"} |-> IF r = "web" THEN "library/web" ELSE r]
MCHasVerb == {Plain("date +%d")}
MCKeysWithVerb == {"50%"}

=============================================================================
