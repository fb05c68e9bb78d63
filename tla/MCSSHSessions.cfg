SPECIFICATION StoreSpec
CONSTANTS
    s1 = s1
    s2 = s2
    key = key
    h1 = h1
    h2 = h2
    pw = pw
    Sessions <- MCSessions
    Holders <- MCHolders
    Passwords <- MCPasswords
    PasswordsOf <- MCPasswordsOf
    NoSession = NoSession
    Ttl = 2
    MaxTime = 4
    MaxLag = 0
SYMMETRY Symmetric
CHECK_DEADLOCK FALSE
INVARIANTS
    RedactionBalanced
    LeaseKeepsConnection
PROPERTIES
    ImplementsConnections
