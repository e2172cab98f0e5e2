SPECIFICATION Spec
CONSTANTS
    NumCandidates = 2
    Facets = {"goal", "decision"}
    PriorHistories <- MCPriorHistories
    MaxRevisions = 3
INVARIANT EndedReviewsNameStoredRevisions
