SPECIFICATION Spec
CONSTANTS
    Clients <- MCClients
    MaxOff = 2
    MaxCalls = 3
    Kept <- MCKept
    Unguarded <- MCUnguarded
    Needed <- MCNeeded
    Refusing <- MCRefusing
INVARIANTS
    PlacedOnce
    CarriesArguments
    PathIsWhole
    DocumentedUseIsSent
PROPERTY ImplementsCall
CHECK_DEADLOCK FALSE
