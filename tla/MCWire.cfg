SPECIFICATION Spec
CONSTANTS
    BaseC = 2
    StableC = 2
    Builds <- MCBuilds
    Payments <- MCPayments
    NotCurrency <- MCNotCurrency
    Principal = 2
    Rates = {1, 3}
INVARIANTS
    SymbolsAgree
    BuddiesArePoolPartners
    HeldWhereExpected
    NothingLeftBehind
CHECK_DEADLOCK FALSE
