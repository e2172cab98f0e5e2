CONSTANTS
    Reviews = {r1, r2, r3}
    Candidates = {c1}
    Cases = {k1, k2}
    Models = {standin, deep}
    StandIn = standin
    NoKey = NoKey
    None = None
    MaxSwitches = 1
    MaxRestarts = 1
SPECIFICATION Spec
SYMMETRY Interchangeable
CHECK_DEADLOCK FALSE
INVARIANTS
    TypeOK
    VerdictsAnswerTheirCase
    OneVerdictPerKey
    SourcesHoldTheirVerdict
    ToolVerdictsAreNotShared
