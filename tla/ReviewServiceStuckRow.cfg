SPECIFICATION Spec
CONSTANTS
    Clients = {c1}
    LastRound = 3
    Operations = {"start_background", "resume_background", "cancel_run"}
    MaxRequests = 1
    MaxRestarts = 0
CHECK_DEADLOCK FALSE
INVARIANT RunningMeansUnfinished
