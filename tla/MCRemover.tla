----------------------------- MODULE MCRemover -----------------------------
(* Small nodes for TLC: app and base have a name and a digest.  In one node  *)
(* base is excluded by a pattern that hits its name, in the other one by its *)
(* digest.                                                                   *)
EXTENDS NodeExclusion, TLC

CONSTANTS app, base, appTag, appDigest, baseTag, baseDigest

NodeNames == [i \in Image |-> Name \cap CASE i = app  -> {appTag, appDigest}
                                           [] i = base -> {baseTag, baseDigest}]

Registry == <<"localhost", Colon, "5000", Slash>>

NodeText == [r \in Ref |->
            CASE r = app        -> <<"sha256", Colon, "a">>
              [] r = base       -> <<"sha256", Colon, "b">>
              [] r = appTag     -> <<"ghcr.io", Slash, "app", Colon, "v1">>
              [] r = baseTag    -> Registry \o <<"base", Colon, "v1">>
              [] r = appDigest  -> <<"sha256", Colon, "da">>
              [] r = baseDigest -> <<"sha256", Colon, "db">>]

Pieces == UNION {{NodeText[r][n] : n \in 1 .. Len(NodeText[r])} : r \in Ref}
              \cup {"docker.io", "library", Slash, Colon, Asterisk}

\* Two lists, of which the second has a JSON file that does not count, and one
\* ConfigMap without the label.
File(json, excluded) == [json |-> json, excluded |-> excluded]
PatternLists ==
    {[labelled |-> TRUE,
      files |-> <<File(TRUE, {<<"docker.io", Slash, "library", Slash, Asterisk>>})>>],
     [labelled |-> TRUE,
      files |-> <<File(FALSE, {NodeText[appTag]}),
                  File(TRUE, {Registry \o <<"base", Colon, Asterisk>>}),
                  File(TRUE, {NodeText[appTag]})>>],
     [labelled |-> FALSE, files |-> <<File(TRUE, {NodeText[appTag]})>>]}

\* A list with a digest.
DigestList == {[labelled |-> TRUE, files |-> <<File(TRUE, {NodeText[baseDigest]})>>]}

\* TLC evaluates a definition that stands for a constant at each use; that of a
\* name of a value is cheap.
ExcludedByList == HitByEntries

\* The removers of a node are interchangeable.
RunSymmetry == Permutations(Run)

\* A target and a prune, for two removers at once.
OneList == {<<app, Star>>}

\* What an ImageList may hold: IDs, names and digests, with and without "*".
NamedLists == OneList \cup {<<appTag, baseTag>>, <<appTag, Star, appDigest>>}
=============================================================================
