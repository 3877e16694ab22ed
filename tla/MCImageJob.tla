----------------------------- MODULE MCImageJob -----------------------------
(* Small instances of ImageJob for TLC.                                    *)
EXTENDS ImageJob, TLC

\* Pod name suffixes are interchangeable.
SuffixSymmetry == Permutations(Suffix)

\* So are the nodes when the filter selects all of them.
NodeSymmetry == Permutations(Suffix) \cup Permutations(Node)
=============================================================================
