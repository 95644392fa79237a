CONSTANTS
    ARP_TABLE_SIZE = 2
    ARP_MAXAGE = 4
    ARP_MAXPENDING = 2
    ARP_AGE_REREQUEST_USED_UNICAST = 2
    ARP_AGE_REREQUEST_USED_BROADCAST = 3
    Lan = {"gw", "a", "b"}
    Remote = {"r"}
    Gateway = "gw"
    Broadcast = "bc"
    Macs = {"m1", "m2"}
    Peers = {"a", "r"}
    MacsOf <- SomeMacsOf
    ethbroadcast = "ff"
    ethzero = "00"
    Pkts = {"p1", "p2"}
    NoPbuf = "NULL"
SPECIFICATION Spec
INVARIANTS TypeOK OneEntryPerHost RefsExact RightHost
PROPERTIES RequestsSpaced NoneWaitsForEver
