----------------------------- MODULE Exclusion -----------------------------
(***************************************************************************)
(* The exclusion list (pkg/utils/utils.go, controllers/util/util.go): the  *)
(* ConfigMaps it comes from, and the strings that its entries hit.         *)
(*                                                                         *)
(* A string is a sequence of pieces; "/", ":" and "*" are pieces of their  *)
(* own, and what lies between them may be one piece or several.  An entry  *)
(* that ends in "/*" or ":*" is a pattern.                                 *)
(***************************************************************************)
EXTENDS Naturals, Sequences

CONSTANTS Slash, Colon, Asterisk

ASSUME SeparatorsDiffer == Slash # Colon /\ Colon # Asterisk /\ Slash # Asterisk

IsPrefix(p, s) ==
    Len(p) <= Len(s) /\ \A i \in 1 .. Len(p) : p[i] = s[i]

(***************************************************************************)
(* Patterns.                                                               *)
(***************************************************************************)
EndsIn(entry, piece) ==
    Len(entry) >= 2 /\ entry[Len(entry) - 1] = piece /\ entry[Len(entry)] = Asterisk

\* The place of the first such piece.
First(entry, piece) ==
    CHOOSE n \in 1 .. Len(entry) :
        entry[n] = piece /\ \A i \in 1 .. n - 1 : entry[i] # piece

\* What comes before the first such piece.
Before(entry, piece) == SubSeq(entry, 1, First(entry, piece) - 1)

\* Mutant: the pattern is compared as it is, with its "*".
MatchesUncut(entry, text) ==
    (EndsIn(entry, Slash) \/ EndsIn(entry, Colon)) /\ IsPrefix(entry, text)

\* A pattern ":*" is cut at its first colon, which may be that of a port.
Matches(entry, text) ==
    \/ EndsIn(entry, Slash) /\ IsPrefix(Before(entry, Asterisk), text)
    \/ EndsIn(entry, Colon) /\ IsPrefix(Before(entry, Colon), text)

Hits(entry, text) == text = entry \/ Matches(entry, text)

(***************************************************************************)
(* Sources.  A ConfigMap is [labelled, files]; its files, in the order of  *)
(* their names, are [json, excluded].                                      *)
(***************************************************************************)
\* Every ConfigMap with the label is mounted into the pods.
GetExclusionVolume(configMaps) == {c \in configMaps : c.labelled}

\* The first file that is JSON counts.  A ConfigMap without one is an error, at
\* which the container exits.
ReadConfigMap(c) ==
    UNION {c.files[i].excluded :
              i \in {n \in 1 .. Len(c.files) :
                        c.files[n].json /\ \A m \in 1 .. n - 1 : ~c.files[m].json}}

ParseExcluded(configMaps) ==
    UNION {ReadConfigMap(c) : c \in GetExclusionVolume(configMaps)}

-----------------------------------------------------------------------------
(* What a user means by an entry: itself, or all that begins like it.      *)

Covers(entry, text) ==
    \/ text = entry
    \/ /\ EndsIn(entry, Slash) \/ EndsIn(entry, Colon)
       /\ IsPrefix(SubSeq(entry, 1, Len(entry) - 1), text)
=============================================================================
