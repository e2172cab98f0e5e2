SPECIFICATION Spec
CONSTANTS
    Clients = {c1}
    LastRound = 3
    Operations = {"start", "start_background", "resume", "resume_background",
                  "cancel", "cancel_run", "delete"}
    MaxRequests = 4
    MaxRestarts = 1
CHECK_DEADLOCK FALSE
INVARIANTS
    TypeOK
    WaitingReviewsAreResumable
PROPERTIES
    StoppedReviewsStayStopped
    StalePagesStopNothing
    JudgingSettles
