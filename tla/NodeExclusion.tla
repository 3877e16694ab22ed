--------------------------- MODULE NodeExclusion ---------------------------
(***************************************************************************)
(* The removers of a node under the exclusion lists of the cluster:        *)
(* Remover knows of an ID, name or digest only whether the exclusion list  *)
(* hits it, and Exclusion says which strings an entry hits.  Here the two  *)
(* are one system, of which a user sees the entries and the images left.   *)
(***************************************************************************)
EXTENDS Remover, Exclusion

CONSTANTS Piece,       \* what strings consist of
          Text,        \* Text[r]: the string of an ID, name or digest
          ConfigMaps   \* the ConfigMaps of the cluster

Entries == ParseExcluded(ConfigMaps)

HitByEntries == {r \in Ref : \E e \in Entries : Hits(e, Text[r])}

ASSUME NodeExclusionAssumption ==
    /\ Text \in [Ref -> Seq(Piece)]
    /\ Entries \subseteq Seq(Piece)
    /\ Excluded = HitByEntries

-----------------------------------------------------------------------------
Covered == {r \in Ref : \E e \in Entries : Covers(e, Text[r])}

\* No image that a user excludes by an entry of a list, or by all that begins
\* like it, under its ID, a name or a digest, is deleted by ID, though patterns
\* are cut at the first piece of a kind and lists come from several files.
CoveredIsKept ==
    \A r \in Run : ByID(run[r].targets) =>
        \A i \in run[r].erased : KnownAs(i) \cap Covered = {}
=============================================================================
