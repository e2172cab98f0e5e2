--------------------------- MODULE MCReviewGraph ---------------------------
(***************************************************************************)
(* Two candidates, two facets: enough for two branches to race to the      *)
(* barrier, for a finding held again to be asked about under another       *)
(* facet, and for three rounds of questions. A review starts from a case   *)
(* nobody answered or from one whose second revision answers a question.   *)
(***************************************************************************)
EXTENDS ReviewGraph

MCPriorHistories ==
    LET none == [by |-> "another", answers |-> {}]
        one  == [by |-> "another",
                 answers |-> {[key |-> [candidate |-> 1, facet |-> "goal"],
                               status |-> "skipped"]}]
    IN  {<<none>>, <<none, one>>}

=============================================================================
