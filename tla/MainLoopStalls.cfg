CONSTANTS
    TickModulus = 16
    TCP_PERIOD = 5
    ARP_TMR_INTERVAL = 7
    WatchdogTicks = 4
    Timely = FALSE
    Inputs <- ValidOnly
    MaxPps = 9
SPECIFICATION FairSpec
INVARIANTS NeverAhead BacklogBounded QuietBounded
PROPERTIES PendingServed
