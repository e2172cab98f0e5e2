--------------------------- MODULE MCFindingCache ---------------------------
(* FindingCache for TLC.  Reviews and cases are interchangeable, and so are
   candidates; the models are not, because one of them is the stand-in. *)
EXTENDS FindingCache, TLC

Interchangeable == Permutations(Reviews) \cup Permutations(Candidates) \cup Permutations(Cases)
=============================================================================
