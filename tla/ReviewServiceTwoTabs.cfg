SPECIFICATION Spec
CONSTANTS
    Clients = {c1, c2}
    LastRound = 3
    Operations = {"start_background", "resume_background",
                  "cancel", "cancel_run", "delete"}
    MaxRequests = 3
    MaxRestarts = 1
CHECK_DEADLOCK FALSE
INVARIANTS
    EndedReviewsKeepNoCheckpoint
PROPERTIES
    StoppedThreadsGoNoFurther
