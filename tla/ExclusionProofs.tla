-------------------------- MODULE ExclusionProofs --------------------------
(***************************************************************************)
(* What the patterns of the exclusion list protect, for all strings, and   *)
(* with it the images of a node that a user means to keep.                 *)
(***************************************************************************)
EXTENDS NodeExclusion, RemoverProofs, WellFoundedInduction, NaturalsInduction

\* A set of natural numbers that is not empty has a least element.
LEMMA LeastNumber ==
    ASSUME NEW S, S \subseteq Nat, S # {}
    PROVE  \E n \in S : \A m \in S : n <= m
<1>1. IsWellFoundedOn(OpToRel(<, Nat), Nat)
  BY NatLessThanWellFounded
<1>2. PICK n \in S : \A m \in S : <<m, n>> \notin OpToRel(<, Nat)
  BY <1>1, WFMin
<1>3. \A m \in S : ~(m < n)
  BY <1>2 DEF OpToRel
<1> QED BY <1>3

\* A piece of a string has a first place in it.
LEMMA FirstExists ==
    ASSUME NEW Symbol, NEW entry \in Seq(Symbol), NEW piece,
           NEW k \in 1 .. Len(entry), entry[k] = piece
    PROVE  /\ First(entry, piece) \in 1 .. k
           /\ entry[First(entry, piece)] = piece
           /\ \A i \in 1 .. First(entry, piece) - 1 : entry[i] # piece
<1> DEFINE S == {n \in 1 .. Len(entry) : entry[n] = piece}
<1>a. S \subseteq Nat /\ S # {}
  OBVIOUS
<1>b. \E n \in S : \A m \in S : n <= m
  <2> HIDE DEF S
  <2> QED BY <1>a, LeastNumber
<1>1. PICK n \in S : \A m \in S : n <= m
  BY <1>b
<1>2. \A i \in 1 .. n - 1 : entry[i] # piece
  BY <1>1
<1>3. /\ First(entry, piece) \in 1 .. Len(entry)
      /\ entry[First(entry, piece)] = piece
      /\ \A i \in 1 .. First(entry, piece) - 1 : entry[i] # piece
  BY <1>1, <1>2 DEF First
<1>4. First(entry, piece) <= k
  BY <1>3
<1> QED BY <1>3, <1>4

\* What the code compares with is not longer than what the pattern says.
LEMMA BeforeIsPrefix ==
    ASSUME NEW Symbol, NEW entry \in Seq(Symbol), NEW text \in Seq(Symbol), NEW piece,
           NEW k \in 1 .. Len(entry), entry[k] = piece,
           NEW n \in Nat, k - 1 <= n, n <= Len(entry),
           IsPrefix(SubSeq(entry, 1, n), text)
    PROVE  IsPrefix(Before(entry, piece), text)
<1> DEFINE f == First(entry, piece)
<1>1. f \in 1 .. k
  BY FirstExists
<1> HIDE DEF f
<1>2. /\ Len(SubSeq(entry, 1, n)) = n
      /\ \A i \in 1 .. n : SubSeq(entry, 1, n)[i] = entry[i]
  OBVIOUS
<1>3. /\ Len(SubSeq(entry, 1, f - 1)) = f - 1
      /\ \A i \in 1 .. f - 1 : SubSeq(entry, 1, f - 1)[i] = entry[i]
  BY <1>1
<1>4. n <= Len(text) /\ \A i \in 1 .. n : entry[i] = text[i]
  BY <1>2 DEF IsPrefix
<1>5. f - 1 <= Len(text) /\ \A i \in 1 .. f - 1 : entry[i] = text[i]
  BY <1>1, <1>4
<1> QED BY <1>3, <1>5, <1>1 DEF IsPrefix, Before, f

\* Whatever the strings, an entry hits all that it covers: cutting a pattern at
\* its first "*" or ":" can only protect more.
THEOREM EntriesProtect ==
    ASSUME NEW Symbol, NEW entry \in Seq(Symbol), NEW text \in Seq(Symbol),
           Covers(entry, text)
    PROVE  Hits(entry, text)
<1>1. CASE text = entry
  BY <1>1 DEF Hits
<1>2. CASE EndsIn(entry, Slash) /\ IsPrefix(SubSeq(entry, 1, Len(entry) - 1), text)
  <2>1. Len(entry) \in 1 .. Len(entry) /\ entry[Len(entry)] = Asterisk
    BY <1>2 DEF EndsIn
  <2>2. IsPrefix(Before(entry, Asterisk), text)
    BY <1>2, <2>1, BeforeIsPrefix
  <2> QED BY <1>2, <2>2 DEF Hits, Matches
<1>3. CASE EndsIn(entry, Colon) /\ IsPrefix(SubSeq(entry, 1, Len(entry) - 1), text)
  <2>1. Len(entry) - 1 \in 1 .. Len(entry) /\ entry[Len(entry) - 1] = Colon
    BY <1>3 DEF EndsIn
  <2>2. IsPrefix(Before(entry, Colon), text)
    BY <1>3, <2>1, BeforeIsPrefix
  <2> QED BY <1>3, <2>2 DEF Hits, Matches
<1> QED BY <1>1, <1>2, <1>3 DEF Covers

\* A registry pattern, with one "*" at its end, hits nothing but what it covers.
\* (One that ends in ":*" may: it is cut at the first colon of its registry.)
THEOREM RegistryPatternsAreExact ==
    ASSUME NEW Symbol, NEW entry \in Seq(Symbol), NEW text \in Seq(Symbol),
           EndsIn(entry, Slash), \A i \in 1 .. Len(entry) - 1 : entry[i] # Asterisk,
           Hits(entry, text)
    PROVE  Covers(entry, text)
<1> SUFFICES ASSUME text # entry
             PROVE  IsPrefix(SubSeq(entry, 1, Len(entry) - 1), text)
  BY DEF Covers
<1>1. entry[Len(entry)] = Asterisk /\ Len(entry) \in 1 .. Len(entry)
  BY DEF EndsIn
<1>2. First(entry, Asterisk) = Len(entry)
  BY <1>1, FirstExists
<1>3. ~EndsIn(entry, Colon)
  BY SeparatorsDiffer DEF EndsIn
<1> QED BY <1>2, <1>3 DEF Hits, Matches, Before

\* An ID, name or digest that an entry covers is one that the removers of the
\* node take as excluded, wherever the entry comes from.
LEMMA CoveredIsExcluded == Covered \subseteq Excluded
<1> SUFFICES ASSUME NEW r \in Ref, NEW e \in Entries, Covers(e, Text[r])
             PROVE  r \in Excluded
  BY DEF Covered
<1>1. e \in Seq(Piece) /\ Text[r] \in Seq(Piece)
  BY NodeExclusionAssumption
<1>2. Hits(e, Text[r])
  BY <1>1, EntriesProtect
<1> QED BY <1>2, NodeExclusionAssumption DEF HitByEntries

\* What a user excludes stays: no remover that is given IDs deletes an image
\* that an entry of a list of the cluster covers under its ID, a name or a
\* digest, for any strings, lists, images and removers, in any interleaving.
THEOREM ListsProtect == Spec => []CoveredIsKept
<1>1. ExcludedIsKept => CoveredIsKept
  BY CoveredIsExcluded DEF ExcludedIsKept, CoveredIsKept
<1> QED BY <1>1, ExclusionHolds, PTL
=============================================================================
