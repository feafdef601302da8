SPECIFICATION FairSpec
CONSTANTS
    Currencies = {"a", "b", "out"}
    Out = "out"
    Tasks <- AllTasks
    Held <- HeldSome
    SwapOuts = {3}
    Gifts = {0, 2}
    IBC_TIMEOUT = 2
    MaxPackets = 3
    MaxGiven = 4
INVARIANTS
    AnswersMeetTheirSender
    SwappedOnce
    CoinsReachTheDex
    FinishedWithProceeds
CHECK_DEADLOCK FALSE
PROPERTIES
    EventuallyFinished
