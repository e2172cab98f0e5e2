-------------------------- MODULE MCBranchReviews --------------------------
(***************************************************************************)
(* Two candidates of one signature, so that a re-keyed one can follow the  *)
(* other, each with two versions; two models and two corpora. No member of *)
(* these sets is told from another, so the four are symmetric.             *)
(***************************************************************************)
EXTENDS BranchReviews, TLC

MCSignature == [c \in Candidates |-> "same"]
Symmetry ==
    Permutations(Candidates) \cup Permutations(Versions) \cup
    Permutations(Models) \cup Permutations(Corpora)

\* Three reviews of a branch where none asked, two where one did: what asking adds to the
\* third is the first two's.
LongOrAsking ==
    (\E i \in DOMAIN store : store[i].status = "awaiting_answers")
        => changes < MaxChanges /\ \A r \in Reviews : run[r].pc # "idle" => r <= 2

=============================================================================
