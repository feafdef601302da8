SPECIFICATION FairSpec
CONSTANTS
    YEAR = 7
    due_period = 1
    margin_interest = 100
    liability <- MCLiability
    min_asset = 10
    min_transaction = 3
    LoanRate = 200
    Downpayments = {40}
    MaxLtds = {0}
    Payments = {40}
    SwapPayments = {70}
    CloseAmounts = {45}
    Policies <- MCTakeProfit
    Donations = {30}
    Yields = {950}
    Prices <- MCFewPrices
    ReserveFunds = 40
    MaxTime = 2
INVARIANTS
    SettledMeansRepaid
    NothingStranded
    PartialLiquidationHeals
    TroubleRaisesAlarm
    SharesAgree
PROPERTIES
    DebtNeverForgiven
    TroubleHandled
CHECK_DEADLOCK FALSE
