SPECIFICATION ClientFairSpec
CONSTANTS
    NoToken = NoToken
    NoTimer = NoTimer
    NoTask = NoTask
    NoReply = NoReply
    NoWindow = NoWindow
    TimerSlack = 1
    MaxTime = 4
    MaxAttempt = 9
INVARIANTS
    ExpiryRestoresLogin
CHECK_DEADLOCK FALSE
