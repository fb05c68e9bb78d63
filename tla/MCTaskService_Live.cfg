SPECIFICATION FairSpec
CONSTANTS
    s1 = s1
    s2 = s2
    r1 = r1
    r2 = r2
    pw = pw
    Sessions <- MCOneSession
    Holders <- MCHolders
    Passwords <- MCPasswords
    PasswordsOf <- MCPasswordOfOne
    NoSession = NoSession
    Nobody = Nobody
    Kinds <- MCKinds
    Ttl = 1
    MaxTime = 1
    MaxLag = 0
CHECK_DEADLOCK FALSE
PROPERTIES
    RequestsEnd
    ConnectionsClose
