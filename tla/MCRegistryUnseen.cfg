\* The two cleaners.
CONSTANTS
    q1 = q1
    q2 = q2
    r1 = r1
    r2 = r2
    Requests <- TwoRequests
    PingRounds <- TwoRounds
    MaxFailureCount = 3
SPECIFICATION Spec
PROPERTY UnseenIsForgotten
