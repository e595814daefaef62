SPECIFICATION FairSpec
CONSTANTS
    g1 = g1
    g2 = g2
    g3 = g3
    Game <- MCGame
    PidOf <- MCPidOf
    NoWorker = NoWorker
    NoGame = NoGame
    Expiry = 2
    MaxWaits = 2
    MaxTime = 2
PROPERTY
    ExitKeepsPanelOpen
CHECK_DEADLOCK FALSE
