\* Two leases borrow from one lender while the protocol reconfigures the pool;
\* the interest is 50% a year.
SPECIFICATION Spec
CHECK_DEADLOCK FALSE
CONSTANTS
    Lenders = {l1}
    Leases = {b1, b2}
    Codes = {1, 2}
    YEAR = 2
    AmountBits = 10
    FACTOR = 100
    MaxUnits = 9000
    BorrowRates <- OnlyFlatRate
    MinUtilizations = {0, 600}
    DepositAmounts = {1, 7}
    WithdrawAmounts = {3}
    LoanAmounts = {6}
    RepayAmounts = {2, 8}
    RewardAmounts = {}
    DonationAmounts = {2}
    MaxBalance = 10
    MaxRewards = 0
    MaxTime = 1
SYMMETRY Symmetry
INVARIANTS
    PriceNotBelowInitial
    PrincipalsAddUp
PROPERTIES
    ReceiptsNeverDiluted
