SPECIFICATION Spec
CONSTANTS
    Candidates = {c1, c2}
    Signature <- MCSignature
    Versions = {v1, v2}
    Models = {m1, m2}
    Corpora = {p1, p2}
    LastRound = 2
    MaxReviews = 2
    MaxUnfiled = 1
    MaxChanges = 2
SYMMETRY Symmetry
CHECK_DEADLOCK FALSE
INVARIANT CarriedVerdictsAreCurrent
