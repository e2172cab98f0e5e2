SPECIFICATION Spec
CONSTANTS
    Candidates = {c1, c2}
    Signature <- MCSignature
    Versions = {v1, v2}
    Models = {m1, m2}
    Corpora = {p1, p2}
    LastRound = 2
    MaxReviews = 3
    MaxUnfiled = 1
    MaxChanges = 3
CONSTRAINT LongOrAsking
SYMMETRY Symmetry
CHECK_DEADLOCK FALSE
INVARIANTS
    SoundVerdictsAreCurrent TypeOK OlderRowsAreSuperseded ReviewsKeepTheirNumber
    NothingIsJudgedForNothing
    GoneCandidatesAreAccountedFor
