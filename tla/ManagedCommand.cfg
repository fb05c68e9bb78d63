SPECIFICATION FairCommandSpec
CONSTANTS
    CommandFaults = {"link", "silence", "flood", "error", "unkillable", "slow", "helpers", "setsid"}
INVARIANTS
    VerifiedStopClearsGroup
PROPERTIES
    ImplementsContract
    CallReturns
