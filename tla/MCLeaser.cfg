SPECIFICATION FairSpec
CONSTANTS
    Codes <- MCCodes
    LegacyCodes = {"old"}
    Package <- MCPackage
    VoidCode = "void"
    Customers = {1, 2, 3}
    SmartContracts = {3}
    Leases = {"l1", "l2", "l3"}
    InitialCode = "old"
    NewCodes = {"new", "other"}
    ReleaseIds <- MCReleaseIds
    MaxLeasesSet = {1, 3}
    Senders = {"owner", "anyone"}
    Terms = {"t1", "t2"}
INVARIANTS
    DoneMeansServed
PROPERTIES
    RefusedIsServedAgain
CHECK_DEADLOCK FALSE
