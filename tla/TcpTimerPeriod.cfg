CONSTANTS
    TickModulus = 4096
    TCP_PERIOD = 250
    ARP_TMR_INTERVAL = 1000
    WatchdogTicks = 4
    Timely = TRUE
    Inputs <- ValidOnly
    MaxPps = 3
SPECIFICATION Spec
INVARIANT TcpTimerEvery250ms
