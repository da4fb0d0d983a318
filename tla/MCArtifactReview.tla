--------------------------- MODULE MCArtifactReview ---------------------------
(* Small instances of ArtifactReview for TLC. *)
EXTENDS ArtifactReview, TLC

\* Only versions are ordered.
Symmetry == Permutations(Comment) \cup Permutations(Upload) \cup Permutations(Request)
=============================================================================
