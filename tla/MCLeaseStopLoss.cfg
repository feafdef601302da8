SPECIFICATION Spec
CONSTANTS
    YEAR = 10
    due_period = 2
    margin_interest = 100
    liability <- MCLiability
    min_asset = 10
    min_transaction = 3
    LoanRate = 200
    Downpayments = {40}
    MaxLtds = {0}
    Payments = {12}
    SwapPayments = {}
    CloseAmounts = {}
    Policies <- MCStopLoss
    Donations = {}
    Yields = {950}
    Prices <- MCPrices
    ReserveFunds = 40
    MaxTime = 3
PROPERTIES
    DebtNeverForgiven
CHECK_DEADLOCK FALSE
