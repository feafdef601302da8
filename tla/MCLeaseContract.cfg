CONSTANTS
    Customer = Customer
    TimeAlarms = TimeAlarms
    Oracle = Oracle
    Strangers = {Stranger}
    Network = Network
    MaxPackets = 3
SPECIFICATION Spec
INVARIANTS
    QueryAnswers
    LeaserNotifiedOnce
PROPERTIES
    LifecycleKept
