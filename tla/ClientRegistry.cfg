SPECIFICATION RegistryFairSpec
CONSTANTS
    Clients = {c1, c2, c3, c4}
    Null = Null
INVARIANTS DeathNoticed
PROPERTIES NobodyDisplaced DeadLeave
CHECK_DEADLOCK FALSE
