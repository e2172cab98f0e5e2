SPECIFICATION Spec
CONSTANTS
    NumCandidates = 2
    Facets = {"goal", "decision"}
    PriorHistories <- MCPriorHistories
    MaxRevisions = 3
INVARIANTS
    TypeOK
    NeverAsksTwice
    ARoundIsNeverRefused
    AtMostTwoWaits
    SnapshotIdentitiesDiffer
    VerdictsFollowTheAnswers
    EveryQuestionHasAnOutcome
    UnstoppedReviewsNameStoredRevisions
    OneRevisionPerReview
PROPERTIES
    ImplementsRoundProtocol
