SPECIFICATION Spec
CONSTANTS
    Reviews = {1}
    MaxRecords = 3
    MaxActs = 2
    Nothing = Nothing
    Asked = Asked
CHECK_DEADLOCK FALSE
INVARIANT FollowTypeOK
PROPERTY WatchedWorkIsFollowed
