\* Rewards are distributed to two lenders that come and go while a lease borrows.
CONSTANTS
    Lenders = {l1, l2}
    Leases = {b1}
    Codes = {1}
    YEAR = 2
    AmountBits = 3
    FACTOR = 5
    MaxUnits = 9000
    BorrowRates <- BothRates
    MinUtilizations = {0}
    DepositAmounts = {2}
    WithdrawAmounts = {1, 2}
    LoanAmounts = {2}
    RepayAmounts = {2}
    RewardAmounts = {1, 2}
    DonationAmounts = {1}
    MaxBalance = 6
    MaxRewards = 2
    MaxTime = 0
SYMMETRY Symmetry
SPECIFICATION Spec
INVARIANTS
    ReceiptsAddUp
    RewardsAlwaysComputable
PROPERTIES
    RewardsOnlyFromDistribution
CHECK_DEADLOCK FALSE
