SPECIFICATION Spec
CONSTANTS
    s1 = s1
    s2 = s2
    r1 = r1
    r2 = r2
    pw = pw
    Sessions <- MCSessions
    Holders <- MCHolders
    Passwords <- MCPasswords
    PasswordsOf <- MCPasswordsOf
    NoSession = NoSession
    Nobody = Nobody
    Kinds <- MCSessionKinds
    Ttl = 1
    MaxTime = 1
    MaxLag = 1
SYMMETRY Symmetric
CHECK_DEADLOCK FALSE
INVARIANTS
    RunnerServesTask
    CancelHonoured
    ResultAgrees
    OwnConnectionClosed
PROPERTIES
    ImplementsTaskLife
