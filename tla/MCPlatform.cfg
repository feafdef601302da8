CONSTANTS
    Codes <- MCCodes
    LegacyCodes <- MCLegacyCodes
    Package <- MCPackage
    VoidCode <- MCVoidCode
    Names <- MCNames
    Addresses <- MCAddresses
    InitialCodes <- MCInitialCodes
    InitialProtocols <- MCInitialProtocols
    PlatformAddresses <- MCPlatformAddresses
    Registrations <- MCRegistrations
    InstantiateAddress <- MCInstantiateAddress
    InstantiateCodes <- MCInstantiateCodes
    MigrationSpecs <- MCMigrationSpecs
    ExecuteSpecs <- MCExecuteSpecs
    VoidSpecs <- MCVoidSpecs
    Softwares = {"s2"}
    Accounts = {"dex admin"}
    SCALE_FACTOR = 20
    YEAR = 2
    Cadences = {1, 2}
    RewardScales <- MCRewardScales
    IBC_FEE_RESERVE = 1
    ACK_TIP = 1
    TIMEOUT_TIP = 1
    ProfitCadences = {1}
    Pools <- MCPools
    Earnings <- MCEarnings
    Yields = {1}
    MaxTime = 3
    MaxTransactions = 3
    MaxEarned = 5
SPECIFICATION Spec
INVARIANTS
    MigratedBeforeTold
    LeavesAsAWhole
    NlsAccountedFor
    EachMomentRewardedOnce
CHECK_DEADLOCK FALSE
