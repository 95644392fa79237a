CONSTANTS
    TickModulus = 16
    TCP_PERIOD = 5
    ARP_TMR_INTERVAL = 7
    WatchdogTicks = 4
    Timely = TRUE
    Inputs <- AllInputs
    MaxPps = 260
SPECIFICATION Spec
INVARIANTS TypeOK LocalOneHourBehind NoSecondLost DatagramOnTime WireConsistent PeriodicTimersRun
