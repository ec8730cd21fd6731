\* The notification comes before the wait.
CONSTANTS
    RetryCount = 2
    MaxAttempts = 1
SPECIFICATION FairSpec
PROPERTY DestructorEnds
CHECK_DEADLOCK FALSE
