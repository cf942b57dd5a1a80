CONSTANTS
    NoConn = NoConn
    MaxAttempts = 2
    MaxFaults = 3
SPECIFICATION Spec
CHECK_DEADLOCK FALSE
INVARIANTS NoConnectionLeaks PasswordIsProtected
PROPERTIES ConnectIsBounded GoroutinesEnd
