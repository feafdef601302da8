SPECIFICATION FairSpec
CONSTANTS
    Subscribers = {1, 2}
    SECOND = 2
    Currencies = {1, 2}
    NORM_SCALE = 10
    AlarmTimes = {3, 4}
    PriceAlarmsSet <- MCPriceAlarms
    PricesSet <- MCPrices
    MaxCounts = {1, 2}
    MaxTime = 7
INVARIANTS
    RepliesMeetAlarms
    CrossedIsSelected
PROPERTIES
    TimeAlarmsServe
    PriceAlarmsServe
    NoTimeAlarmStarves
