----------------------------- MODULE NodeImages -----------------------------
(***************************************************************************)
(* What the collector and the remover make of the images and containers    *)
(* that the container runtime of a node lists (pkg/utils/utils.go).        *)
(*                                                                         *)
(* An image is known by its ID, its names and its digests, and the runtime *)
(* gives each of them to one image only.  The strings are abstracted:      *)
(* Excluded holds those that equal an entry of the exclusion list or match *)
(* a pattern of it.                                                        *)
(***************************************************************************)
EXTENDS Naturals, FiniteSets

CONSTANTS Image,     \* the image IDs
          Name,      \* names (repo tags) and digests
          Names,     \* Names[i]: the names and digests of image i
          Excluded   \* the IDs, names and digests hit by the exclusion list

ASSUME NodeImagesAssumption ==
    /\ IsFiniteSet(Image) /\ IsFiniteSet(Name)
    /\ Image \cap Name = {}
    /\ Names \in [Image -> SUBSET Name]
    /\ \A i, j \in Image : i # j => Names[i] \cap Names[j] = {}
    /\ Excluded \subseteq Image \cup Name

Ref == Image \cup Name

KnownAs(i) == {i} \cup Names[i]

\* The images of the map nonRunningImages.  The runtime lists the containers
\* that have exited, too.
NonRunning(listed, containers) == listed \ containers

\* The keys of that map.
NonRunningRefs(listed, containers) ==
    UNION {KnownAs(i) : i \in NonRunning(listed, containers)}

\* Mutant: the names and digests of an ID are not looked up.
ExcludedByRefOnly(ref, listed) == ref \in Excluded

\* The names and digests are looked up when the reference is the ID of a
\* listed image; when it is itself a name, the image's other names are not.
IsExcluded(ref, listed) ==
    \/ ref \in Excluded
    \/ ref \in listed /\ Names[ref] \cap Excluded # {}

\* What the collector offers to the scanner, or to the remover.
Collected(listed, containers) ==
    {i \in NonRunning(listed, containers) : ~IsExcluded(i, listed)}
=============================================================================
