------------------------------- MODULE Resolve -------------------------------
(***************************************************************************)
(* resolve-tags, the kubectl plugin that replaces the tags of images in    *)
(* manifests by digests and prints or applies the result                   *)
(* (cmd/kritis/kubectl/plugins/resolve, pkg/kritis/kubectl/plugins/        *)
(* resolve).  The tool is sequential; the registry is not its own, and a   *)
(* tag may move between any two of its lookups.  Reading a file, asking    *)
(* the registry and running kubectl may fail.                              *)
(*                                                                         *)
(* A YAML document is a tree of nodes.  A node is [kind, key, kids, value]:*)
(* a "map" or a "list" has kids, an "item" of a map has a key and one kid, *)
(* a "string" has a value, "other" is any other scalar.  What the tool     *)
(* changes is the text, the values of the string nodes.  A value is        *)
(* [form, repo, ref]: an image by "tag" or by "digest", or another "text". *)
(***************************************************************************)
EXTENDS Naturals, Sequences, FiniteSets, SequencesExt

CONSTANTS
    Nodes, Node,       \* the nodes of all the documents
    Files, Documents,  \* the files there are, and the root of each document
    CommandLines,      \* [files, apply, envFile, envApply]
    FullPath,          \* a missing path looked up under the working directory
    Tags, Digests,     \* tags of the registry, digests they may point to
    Context,           \* the canonical name of a repository
    HasVerb, KeysWithVerb, \* texts and keys with a percent sign in them
    MaxMoves, MaxFaults   \* bounds on moves of tags and on failures

NonString == "nonString"  \* a key that is not a string
Absent == "absent"        \* the registry has no such tag
invalid == "invalid"      \* the kind of a document that does not parse

Roots == UNION {{Documents[f][i] : i \in DOMAIN Documents[f]} : f \in Files}
StringNodes == {n \in Nodes : Node[n].kind = "string"}
Source == [n \in StringNodes |-> Node[n].value]

ByDigest(repo, d) == [form |-> "digest", repo |-> repo, ref |-> d]
Values == {Source[n] : n \in StringNodes} \cup
          {ByDigest(Context[r], d) : r \in DOMAIN Context, d \in Digests}
Text == [StringNodes -> Values]

\* NewTag: the canonical repository, and "latest" when there is no tag.
NewTag(v) == <<Context[v.repo], IF v.ref = "" THEN "latest" ELSE v.ref>>

\* How deep a document is below a node.
Height[n \in Nodes] ==
    Max({0} \cup {Height[Node[n].kids[i]] + 1 : i \in DOMAIN Node[n].kids})

\* The parser returns finite trees.  A scalar has nothing below it.
ASSUME ResolveAssumption ==
    /\ MaxMoves \in Nat /\ MaxFaults \in Nat
    /\ \A c \in CommandLines : c.files \in Seq(STRING) /\ c.envFile \in STRING
    /\ Absent \notin Digests
    /\ \A n \in StringNodes :
          Node[n].value.form = "tag" =>
             Node[n].value.repo \in DOMAIN Context /\ NewTag(Node[n].value) \in Tags
    /\ \A v \in HasVerb : v.form # "digest"   \* no name has a percent sign

ASSUME TreeAssumption ==
    /\ IsFiniteSet(Nodes)
    /\ \A f \in Files : Documents[f] \in Seq(Nodes)
    /\ \A n \in Nodes :
          /\ Node[n].kids \in Seq(Nodes)
          /\ Node[n].kind = "item" => Len(Node[n].kids) = 1
          /\ Node[n].kind \notin {"map", "list", "item"} => Node[n].kids = <<>>
          /\ Height[n] \in 0..Cardinality(Nodes)
          /\ \A i \in DOMAIN Node[n].kids : Height[Node[n].kids[i]] < Height[n]

\* The documents of a file, and the nodes of each document.
DocumentsOf(f) == {Documents[f][i] : i \in DOMAIN Documents[f]}
Below(S) == UNION {{Node[m].kids[i] : i \in DOMAIN Node[m].kids} : m \in S}
NodesOf ==
    [root \in Roots |->
        LET reach[d \in 0..Cardinality(Nodes)] ==
                IF d = 0 THEN {root} ELSE LET S == reach[d - 1] IN S \cup Below(S)
        IN reach[Cardinality(Nodes)]]

VARIABLES
    registry,   \* the digest each tag points to
    args,       \* the command line and the environment
    pc, exit,   \* where the tool is, how it ended
    files,      \* the paths, once they are resolved
    file, doc,  \* the indices of the two loops
    todo,       \* images the current document still has to resolve
    resolved,   \* resolvedImages of the current document
    text,       \* the current file, as far as it is rewritten
    substitutes, \* new contents of the files that are done
    toApply,    \* files kubectl has not seen yet
    printed, applied, \* what reached STDOUT and the cluster
    pointed,    \* history: the digests of each tag since the tool began
    moves, faults

tool == <<args, files, file, doc, todo, resolved, text, substitutes, toApply>>
output == <<printed, applied>>
outside == <<registry, pointed, moves>>
vars == <<outside, pc, exit, tool, output, faults>>

empty == [x \in {} |-> x]
Put(f, x, y) == [z \in DOMAIN f \cup {x} |-> IF z = x THEN y ELSE f[z]]

-----------------------------------------------------------------------------
(* The walk over a document.                                               *)

\* With WeakValidation "repo@" counts as well.
FullyQualifiedImage(v) == v.form = "digest"

isImage(n) == Node[n].kind = "item" /\ Node[n].key = "image"
kid(n) == Node[n].kids[1]

\* A type assertion fails: a key that is not a string, or an image that is not.
panics[n \in Nodes] ==
    LET k == Node[n] IN
    \/ k.kind = "item" /\ k.key = NonString
    \/ isImage(n) /\ Node[kid(n)].kind # "string"
    \/ ~isImage(n) /\ \E i \in DOMAIN k.kids : panics[k.kids[i]]

\* A scalar has no kids, hence no images.
recursiveGetTaggedImages[n \in Nodes] ==
    IF isImage(n)
    THEN IF FullyQualifiedImage(Source[kid(n)]) THEN <<>> ELSE <<Source[kid(n)]>>
    ELSE FlattenSeq([i \in DOMAIN Node[n].kids |->
                        recursiveGetTaggedImages[Node[n].kids[i]]])

\* The string nodes the second walk takes for images.
imageNodes[n \in Nodes] ==
    IF isImage(n) THEN {kid(n)} \cap StringNodes
    ELSE UNION {imageNodes[Node[n].kids[i]] : i \in DOMAIN Node[n].kids}

\* Mutant: the key of an item is not looked at.
recursiveReplaceImage_anyKey(root, t, replacements) ==
    [n \in StringNodes |-> IF t[n] \in DOMAIN replacements THEN replacements[t[n]] ELSE t[n]]

recursiveReplaceImage(root, t, replacements) ==
    [n \in StringNodes |->
        IF n \in imageNodes[root] /\ t[n] \in DOMAIN replacements
        THEN replacements[t[n]] ELSE t[n]]

-----------------------------------------------------------------------------
Init ==
    /\ registry \in [Tags -> Digests \cup {Absent}]
    /\ args \in CommandLines
    /\ pc = "preRun" /\ exit = "running"
    /\ files = <<>> /\ file = 1 /\ doc = 1
    /\ todo = <<>> /\ resolved = empty /\ text = Source
    /\ substitutes = empty /\ toApply = {}
    /\ printed = empty /\ applied = empty
    /\ pointed = [t \in Tags |-> {registry[t]}]
    /\ moves = 0 /\ faults = 0

Ends(how) == pc' = "done" /\ exit' = how

Call(ok) ==
    /\ ok \/ faults < MaxFaults
    /\ faults' = IF ok THEN faults ELSE faults + 1

\* Any value of the environment variable asks for apply, "false" too.
resolveApply == args.apply \/ args.envApply # ""

\* PersistentPreRunE: the environment overrides the files of the command line.
resolveFilepaths ==
    /\ pc = "preRun"
    /\ LET given == IF args.envFile # "" THEN <<args.envFile>> ELSE args.files
           full == [i \in DOMAIN given |->
                       IF given[i] \in Files THEN given[i] ELSE FullPath[given[i]]]
       IN IF given = <<>> \/ \E i \in DOMAIN given : full[i] \notin Files
          THEN Ends("failed") /\ UNCHANGED tool
          ELSE /\ files' = full
               /\ args' = [args EXCEPT !.apply = resolveApply]
               /\ pc' = "read"
               /\ UNCHANGED <<exit, file, doc, todo, resolved, text, substitutes, toApply>>
    /\ UNCHANGED <<outside, output, faults>>

\* Mutant: a file that cannot be read is skipped.
Execute_skips ==
    /\ pc = "read"
    /\ IF file > Len(files)
       THEN pc' = "output" /\ UNCHANGED <<exit, tool, faults>>
       ELSE \E ok \in BOOLEAN :
               /\ Call(ok)
               /\ IF ok THEN /\ pc' = "document"
                             /\ text' = Source /\ doc' = 1
                             /\ UNCHANGED <<exit, args, files, file, todo, resolved,
                                            substitutes, toApply>>
                  ELSE /\ file' = file + 1
                       /\ UNCHANGED <<pc, exit, args, files, doc, todo, resolved, text,
                                      substitutes, toApply>>
    /\ UNCHANGED <<outside, output>>

\* The loop over the files.
Execute ==
    /\ pc = "read"
    /\ IF file > Len(files)
       THEN pc' = "output" /\ UNCHANGED <<exit, tool, faults>>
       ELSE \E ok \in BOOLEAN :
               /\ Call(ok)
               /\ IF ok THEN /\ pc' = "document"
                             /\ text' = Source /\ doc' = 1
                             /\ UNCHANGED <<exit, args, files, file, todo, resolved,
                                            substitutes, toApply>>
                  ELSE Ends("failed") /\ UNCHANGED tool
    /\ UNCHANGED <<outside, output>>

\* The loop over the documents of a file, up to the lookups.
executeSubstitution ==
    /\ pc = "document"
    /\ LET roots == Documents[files[file]] IN
       IF doc > Len(roots)
       THEN /\ substitutes' = Put(substitutes, files[file], text)
            /\ file' = file + 1
            /\ pc' = "read"
            /\ UNCHANGED <<exit, args, files, doc, todo, resolved, text, toApply>>
       ELSE IF Node[roots[doc]].kind = invalid \/ panics[roots[doc]]
       THEN /\ Ends(IF Node[roots[doc]].kind = invalid THEN "failed" ELSE "panic")
            /\ UNCHANGED tool
       ELSE /\ todo' = recursiveGetTaggedImages[roots[doc]]
            /\ resolved' = empty
            /\ pc' = "resolve"
            /\ UNCHANGED <<exit, args, files, file, doc, text, substitutes, toApply>>
    /\ UNCHANGED <<outside, output, faults>>

\* Mutant: a tag the registry does not have resolves to an empty digest.
resolver_ignoresAbsent(image, ok) ==
    /\ image.form = "tag" /\ ok
    /\ todo' = Tail(todo)
    /\ resolved' = Put(resolved, image,
                       ByDigest(Context[image.repo], registry[NewTag(image)]))
    /\ UNCHANGED <<pc, exit, faults>>

\* Mutant: an image that cannot be resolved is tried again, for ever.
resolver_retries(image, ok) ==
    /\ image.form = "tag" /\ ok /\ registry[NewTag(image)] # Absent
    /\ todo' = Tail(todo)
    /\ resolved' = Put(resolved, image,
                       ByDigest(Context[image.repo], registry[NewTag(image)]))
    /\ UNCHANGED <<pc, exit, faults>>

\* One lookup.  An image that is no tag either is refused without a call.
resolver(image, ok) ==
    IF image.form # "tag"
    THEN ok /\ Ends("failed") /\ UNCHANGED <<todo, resolved, faults>>
    ELSE LET tag == NewTag(image) IN
         /\ Call(ok)
         /\ IF ok /\ registry[tag] # Absent
            THEN /\ todo' = Tail(todo)
                 /\ resolved' = Put(resolved, image, ByDigest(tag[1], registry[tag]))
                 /\ UNCHANGED <<pc, exit>>
            ELSE Ends("failed") /\ UNCHANGED <<todo, resolved>>

\* The loop over the images: an image that occurs twice is looked up twice and
\* the later digest stands.  Then the document is rewritten.
resolveTagsToDigests ==
    /\ pc = "resolve"
    /\ IF todo = <<>>
       THEN /\ text' = recursiveReplaceImage(Documents[files[file]][doc], text, resolved)
            /\ doc' = doc + 1
            /\ pc' = "document"
            /\ UNCHANGED <<exit, todo, resolved, faults>>
       ELSE /\ \E ok \in BOOLEAN : resolver(Head(todo), ok)
            /\ UNCHANGED <<text, doc>>
    /\ UNCHANGED <<outside, output, args, files, file, substitutes, toApply>>

\* A text of the file that has a percent sign, in a key or in a string.
percent(f, t) ==
    \E r \in DocumentsOf(f) : \E n \in NodesOf[r] :
        \/ Node[n].kind = "item" /\ Node[n].key \in KeysWithVerb
        \/ n \in StringNodes /\ t[n] \in HasVerb

\* Fprintf takes the manifest for its format: a percent sign takes what follows it,
\* the end of the line included, for a verb, and what comes out is no longer a
\* manifest with these nodes.
Garbled == empty
Fprintf(f, t) == IF percent(f, t) THEN Garbled ELSE t

print == printed' = [f \in DOMAIN substitutes |-> Fprintf(f, substitutes[f])]

outputResults ==
    /\ pc = "output"
    /\ IF args.apply
       THEN pc' = "apply" /\ toApply' = DOMAIN substitutes /\ UNCHANGED <<exit, printed>>
       ELSE print /\ Ends("ok") /\ UNCHANGED toApply
    /\ UNCHANGED <<outside, args, files, file, doc, todo, resolved, text, substitutes,
                   applied, faults>>

\* The files go to kubectl in the order of a Go map, that is in any, and the
\* first error ends the loop; that file may have been applied all the same.
applyChanges ==
    /\ pc = "apply"
    /\ \/ toApply = {} /\ Ends("ok") /\ UNCHANGED <<toApply, applied, faults>>
       \/ \E f \in toApply, ok, done \in BOOLEAN :
             /\ Call(ok)
             /\ ok => done
             /\ applied' = IF done THEN Put(applied, f, substitutes[f]) ELSE applied
             /\ IF ok THEN toApply' = toApply \ {f} /\ UNCHANGED <<pc, exit>>
                ELSE Ends("failed") /\ UNCHANGED toApply
    /\ UNCHANGED <<outside, args, files, file, doc, todo, resolved, text, substitutes, printed>>

\* Somebody pushes an image and moves a tag, or deletes it.
MoveTag ==
    /\ pc # "done" /\ moves < MaxMoves
    /\ \E t \in Tags, d \in (Digests \cup {Absent}) :
          /\ registry[t] # d
          /\ registry' = [registry EXCEPT ![t] = d]
          /\ pointed' = [pointed EXCEPT ![t] = @ \cup {d}]
    /\ moves' = moves + 1
    /\ UNCHANGED <<pc, exit, tool, output, faults>>

RootCmd ==
    resolveFilepaths \/ Execute \/ executeSubstitution \/ resolveTagsToDigests
        \/ outputResults \/ applyChanges

Next == RootCmd \/ MoveTag

\* The tool runs, and each of its calls returns.
Spec == Init /\ [][Next]_vars /\ WF_vars(RootCmd)

-----------------------------------------------------------------------------
(* Properties.                                                             *)

TypeOK ==
    /\ registry \in [Tags -> Digests \cup {Absent}]
    /\ pc \in {"preRun", "read", "document", "resolve", "output", "apply", "done"}
    /\ exit \in {"running", "ok", "failed", "panic"}
    /\ \A i \in DOMAIN files : files[i] \in Files
    /\ file \in 1..Len(files) + 1 /\ doc \in Nat
    /\ \A i \in DOMAIN todo : todo[i] \in Values
    /\ DOMAIN resolved \subseteq Values /\ \A v \in DOMAIN resolved : resolved[v] \in Values
    /\ text \in Text
    /\ toApply \subseteq DOMAIN substitutes
    /\ \A m \in {substitutes, applied} :
          DOMAIN m \subseteq Files /\ \A f \in DOMAIN m : m[f] \in Text
    /\ DOMAIN printed \subseteq Files
    /\ \A f \in DOMAIN printed : printed[f] \in Text \cup {Garbled}
    /\ pointed \in [Tags -> SUBSET (Digests \cup {Absent})]
    /\ moves \in 0..MaxMoves /\ faults \in 0..MaxFaults

\* Reference: the images of each document.
ImagesOf == [root \in Roots |-> {kid(n) : n \in {m \in NodesOf[root] : isImage(m)}}]

\* Each document of a file is parsed on its own: they share no nodes.
ASSUME ApartAssumption ==
    \A f \in Files : \A i, j \in DOMAIN Documents[f] :
       i # j => NodesOf[Documents[f][i]] \cap NodesOf[Documents[f][j]] = {}

\* In t every image of the document is by digest: an image that had none has
\* one its tag pointed to while the tool ran, in its own repository, and two
\* mentions of the same image have the same one.
Pinned(root, t) ==
    /\ \A n \in ImagesOf[root] :
          /\ t[n].form = "digest"
          /\ Source[n].form = "tag" =>
                t[n] \in {ByDigest(Context[Source[n].repo], d) : d \in pointed[NewTag(Source[n])]}
    /\ \A n, m \in ImagesOf[root] : Source[n] = Source[m] => t[n] = t[m]

\* Every other string is what it was.
Rest(root, t) ==
    \A n \in (NodesOf[root] \cap StringNodes) \ ImagesOf[root] : t[n] = Source[n]

\* What reaches the cluster mentions images by digest only, wherever they stand in
\* the document; each digest is one the tag had during the run, the same for every
\* mention in a document although each mention is looked up on its own and the tag
\* may move in between; nothing else is rewritten.  The same holds of what is
\* printed, provided that the file has no percent sign: of a file that has one,
\* printing promises nothing (executeSubstitution, recursiveGetTaggedImages,
\* recursiveReplaceImage, resolveTagsToDigests, print).
OutputPinned ==
    /\ \A f \in DOMAIN applied : \A r \in DocumentsOf(f) :
          Pinned(r, applied[f]) /\ Rest(r, applied[f])
    /\ \A f \in DOMAIN printed : ~percent(f, Source) =>
          \A r \in DocumentsOf(f) : Pinned(r, printed[f]) /\ Rest(r, printed[f])

\* Nothing is printed or applied before all the files are resolved, and success
\* means that every file went out; a file that cannot be read, parsed or
\* resolved keeps all the others back (Execute, applyChanges).
AllResolvedFirst ==
    LET out == DOMAIN printed \cup DOMAIN applied
        named == {files[i] : i \in DOMAIN files}
    IN /\ out # {} => file > Len(files) /\ DOMAIN substitutes = named
       /\ exit = "ok" => named # {} /\ out = named

\* The tool ends: no tag that keeps moving or failing keeps it in a loop.
Finishes == <>(pc = "done")

=============================================================================
