-------------------------------- MODULE Lists --------------------------------
(***************************************************************************)
(* What Array.prototype.filter leaves of a list.  SelectSeq of Sequences   *)
(* is the same, and opaque to the prover.                                  *)
(***************************************************************************)
EXTENDS Integers, Sequences

\* The elements of s that are in S, in their order.
Within(s, S) ==
    LET upTo[n \in 0 .. Len(s)] ==
            IF n = 0 THEN <<>>
            ELSE IF s[n] \in S THEN Append(upTo[n - 1], s[n]) ELSE upTo[n - 1]
    IN  upTo[Len(s)]
=============================================================================
