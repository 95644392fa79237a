------------------------------- MODULE Etharp -------------------------------
(***************************************************************************)
(* lwIP's ARP table (core/ipv4/etharp.c) as this firmware is built: no     *)
(* queues but one packet per entry, no static entries, one interface.      *)
(* etharp_output is called for every IP packet; etharp_input for every ARP *)
(* packet the MAC receives, and it receives all; etharp_tmr by             *)
(* LwIP_Periodic_Handle.  All run on the super-loop, one at a time.        *)
(*                                                                         *)
(* A packet is a pbuf with a reference counter.  UDP and ICMP send it and  *)
(* free it; TCP keeps its segments and may send them again.                *)
(***************************************************************************)
EXTENDS Integers, FiniteSets, FiniteSetsExt

CONSTANTS
    ARP_TABLE_SIZE, ARP_MAXAGE, ARP_MAXPENDING,
    ARP_AGE_REREQUEST_USED_UNICAST, ARP_AGE_REREQUEST_USED_BROADCAST,
    Lan,        \* addresses that hosts on the wire may announce
    Remote,     \* addresses behind the gateway
    Gateway,    \* the gateway's address, on the local network
    Broadcast,  \* the broadcast address, which nobody may own
    Peers,      \* the addresses among these that packets are sent to
    Macs,       \* hardware addresses of other hosts
    MacsOf,     \* the ones each host on the network may announce
    ethbroadcast, ethzero,
    Pkts,       \* pbufs that can be in use at the same time
    NoPbuf      \* NULL

ASSUME TableAssumption == ARP_TABLE_SIZE \in Nat \ {0}
\* "Keep this number at least 2" (etharp.c:73)
ASSUME AgesAssumption ==
    /\ ARP_MAXAGE \in Nat /\ ARP_MAXPENDING \in Nat
    /\ 2 <= ARP_MAXPENDING /\ ARP_MAXPENDING < ARP_MAXAGE
    /\ ARP_AGE_REREQUEST_USED_UNICAST \in 2..ARP_AGE_REREQUEST_USED_BROADCAST
    /\ ARP_AGE_REREQUEST_USED_BROADCAST \in 2..ARP_MAXAGE
ASSUME NamesAssumption ==
    /\ Gateway \in Lan /\ Broadcast \notin Lan \cup Remote /\ Lan \cap Remote = {}
    /\ Peers \subseteq Lan \cup Remote /\ MacsOf \in [Lan -> SUBSET Macs]
    /\ ethbroadcast \notin Macs /\ ethzero \notin Macs /\ ethbroadcast # ethzero
    /\ NoPbuf \notin Pkts

VARIABLES
    arp_table,            \* the entries
    etharp_cached_entry,  \* index of the entry used last
    ref,                  \* the reference counter of each pbuf, 0 if free
    kept,                 \* pbufs TCP still holds
    dest,                 \* the IP address in each pbuf's header
    last,                 \* the hardware address each host announced last
    requested,            \* ticks since a stable entry was re-requested, cut at 2
    out                   \* what the last step gave to the driver: IP packets,
                          \* and requests for entries that are still good

vars == <<arp_table, etharp_cached_entry, ref, kept, dest, last, requested, out>>

Entries == 0..(ARP_TABLE_SIZE - 1)
Addresses == Peers \cup {Broadcast}
Stable == {"STABLE", "REREQUESTING_1", "REREQUESTING_2"}
States == {"EMPTY", "PENDING"} \cup Stable

\* An entry as etharp_free_entry leaves it (LWIP_DEBUG is defined).
Empty == [state |-> "EMPTY", ipaddr |-> Broadcast, ethaddr |-> ethzero, ctime |-> 0, q |-> NoPbuf]

Init ==
    /\ arp_table = [i \in Entries |-> Empty]
    /\ etharp_cached_entry = 0
    /\ ref = [p \in Pkts |-> 0] /\ kept = {}
    /\ dest = [p \in Pkts |-> Broadcast]
    /\ last = [ip \in Lan |-> ethzero]
    /\ requested = [ip \in Lan |-> 2]
    /\ out = {}

-----------------------------------------------------------------------------
(* Helpers.                                                                *)

IpFrame(mac, ip) == [kind |-> "IP", mac |-> mac, ip |-> ip]
Request(mac, ip) == [kind |-> "REQUEST", mac |-> mac, ip |-> ip]

\* pbuf_free, for a pbuf that may be NULL.
pbuf_free(r, q) == IF q = NoPbuf THEN r ELSE [r EXCEPT ![q] = @ - 1]

\* The headers, of the pbufs that are not free after the step.
Contents(d) == [p \in Pkts |-> IF ref'[p] = 0 THEN Broadcast ELSE d[p]]

\* The address a packet is really handed to: off the network, the gateway.
NextHop(ip) == IF ip \in Remote THEN Gateway ELSE ip

In(S) == {i \in Entries : arp_table[i].state \in S}
Of(ip) == {i \in Entries : arp_table[i].state # "EMPTY" /\ arp_table[i].ipaddr = ip}

\* Of the entries in S the oldest one; ">=" takes the last of equals.
Oldest(S) ==
    CHOOSE i \in S : \A j \in S :
        \/ arp_table[j].ctime < arp_table[i].ctime
        \/ arp_table[j].ctime = arp_table[i].ctime /\ j <= i

\* The entry to give up when none is empty: stable, then pending without a
\* packet, then pending with one.
Recycled ==
    LET idle == {i \in In({"PENDING"}) : arp_table[i].q = NoPbuf}
    IN  IF In(Stable) # {} THEN Oldest(In(Stable))
        ELSE IF idle # {} THEN Oldest(idle) ELSE Oldest(In({"PENDING"}))

\* Mutant: an empty entry is taken before the whole table is searched.
find_entry_early(ip) ==
    IF In({"EMPTY"}) # {} THEN Min(In({"EMPTY"}))
    ELSE IF Of(ip) # {} THEN Min(Of(ip)) ELSE Recycled

\* etharp_find_entry with ETHARP_FLAG_TRY_HARD.
etharp_find_entry(ip) ==
    IF Of(ip) # {} THEN Min(Of(ip))
    ELSE IF In({"EMPTY"}) # {} THEN Min(In({"EMPTY"})) ELSE Recycled

\* The entry it returns: as it was, or emptied and renamed.
Claimed(i, ip) ==
    IF arp_table[i].state # "EMPTY" /\ arp_table[i].ipaddr = ip THEN arp_table[i]
    ELSE [Empty EXCEPT !.ipaddr = ip]

\* Mutant: the packet on a recycled entry is forgotten, not freed.
released_never(i, ip, r) == r

\* The counters after etharp_free_entry on what the entry held.
Released(i, ip, r) == pbuf_free(r, IF Claimed(i, ip).q = NoPbuf THEN arp_table[i].q ELSE NoPbuf)

-----------------------------------------------------------------------------
(* etharp_output for the pbuf p, whose counter is r[p] on entry and whose  *)
(* caller frees it afterwards unless keep.                                 *)

\* The caller's own reference.
Returned(r, p, keep) == IF keep THEN r ELSE pbuf_free(r, p)

\* "255.255.255.255": no table needed.
OutputBroadcast(p, ip, r, keep) ==
    /\ ip = Broadcast
    /\ out' = {IpFrame(ethbroadcast, ip)}
    /\ ref' = Returned(r, p, keep)
    /\ UNCHANGED <<arp_table, etharp_cached_entry, requested>>

\* Stable entries for an address.
StableFor(ip) == {i \in In(Stable) : arp_table[i].ipaddr = ip}

\* Mutant: an entry that is being requested again is requested once more.
due_always(e) == e.ctime >= ARP_AGE_REREQUEST_USED_UNICAST

\* A stable entry near its end is requested again when it is used.
Due(e) == e.state = "STABLE" /\ e.ctime >= ARP_AGE_REREQUEST_USED_UNICAST

\* Mutant: the hint is used without comparing its address.
index_by_hint(hop) ==
    IF arp_table[etharp_cached_entry].state \in Stable
    THEN etharp_cached_entry ELSE Min(StableFor(hop))

\* The hint if it is for this address, else the first one found.
Index(hop) ==
    IF etharp_cached_entry \in StableFor(hop)
    THEN etharp_cached_entry ELSE Min(StableFor(hop))

\* etharp_output_to_arp_index; the request may fail for want of memory.
OutputStable(p, ip, r, keep) ==
    LET hop == NextHop(ip)
        i == Index(hop)
        e == arp_table[i]
        mac == IF e.ctime >= ARP_AGE_REREQUEST_USED_BROADCAST THEN ethbroadcast ELSE e.ethaddr
    IN  /\ hop \in Lan /\ StableFor(hop) # {}
        /\ etharp_cached_entry' = i
        /\ \/ /\ Due(e)
              /\ arp_table' = [arp_table EXCEPT ![i].state = "REREQUESTING_1"]
              /\ requested' = [requested EXCEPT ![e.ipaddr] = 0]
              /\ out' = {Request(mac, e.ipaddr), IpFrame(e.ethaddr, ip)}
           \/ /\ out' = {IpFrame(e.ethaddr, ip)}
              /\ UNCHANGED <<arp_table, requested>>
        /\ ref' = Returned(r, p, keep)

\* etharp_query: the packet waits on a pending entry, in the place of the one
\* that waited there before.  For a new entry a request goes out, if there is
\* memory for it; the table is the same if not.
OutputQuery(p, ip, r, keep) ==
    LET hop == NextHop(ip)
        i == etharp_find_entry(hop)
        e == Claimed(i, hop)
    IN  /\ hop \in Lan /\ StableFor(hop) = {}
        /\ arp_table' = [arp_table EXCEPT ![i] = [e EXCEPT !.state = "PENDING", !.q = p]]
        /\ out' = {}
        /\ LET held == [Released(i, hop, r) EXCEPT ![p] = @ + 1]
           IN  ref' = Returned(pbuf_free(held, e.q), p, keep)
        /\ UNCHANGED <<etharp_cached_entry, requested>>

etharp_output(p, ip, r, keep) ==
    \/ OutputBroadcast(p, ip, r, keep)
    \/ OutputStable(p, ip, r, keep)
    \/ OutputQuery(p, ip, r, keep)

-----------------------------------------------------------------------------
(* The callers (external to etharp.c).                                     *)

\* UDP, ICMP: a new pbuf, sent, freed.
SendDatagram(p, ip) ==
    /\ ref[p] = 0
    /\ etharp_output(p, ip, [ref EXCEPT ![p] = 1], FALSE)
    /\ dest' = Contents([dest EXCEPT ![p] = ip])
    /\ UNCHANGED <<kept, last>>

\* TCP: a new segment, sent, kept until it is acknowledged.
SendSegment(p, ip) ==
    /\ ref[p] = 0 /\ ip # Broadcast
    /\ etharp_output(p, ip, [ref EXCEPT ![p] = 1], TRUE)
    /\ dest' = Contents([dest EXCEPT ![p] = ip])
    /\ kept' = kept \cup {p}
    /\ UNCHANGED last

\* tcp_rexmit: a segment that still waits in the table is "busy".
Resend(p) ==
    /\ p \in kept /\ ref[p] = 1
    /\ etharp_output(p, dest[p], ref, TRUE)
    /\ dest' = Contents(dest)
    /\ UNCHANGED <<kept, last>>

\* The segment is acknowledged, or its connection goes away.
Acknowledged(p) ==
    /\ p \in kept
    /\ kept' = kept \ {p}
    /\ ref' = pbuf_free(ref, p)
    /\ out' = {}
    /\ dest' = Contents(dest)
    /\ UNCHANGED <<arp_table, etharp_cached_entry, last, requested>>

-----------------------------------------------------------------------------
(* etharp_input and etharp_tmr.                                            *)

\* etharp_update_arp_entry finds an entry, or for packets to us makes one, whatever
\* unicast address the sender claims: one outside the netmask is a member of Lan
\* that nobody sends to.
Updates(sip, for_us) == sip \in Lan /\ (for_us \/ Of(sip) # {})

\* The entry it makes of e.
Updated(e, mac) ==
    [e EXCEPT !.state = "STABLE", !.ethaddr = mac, !.ctime = 0, !.q = NoPbuf]

\* An ARP packet from sip with the hardware address mac; the packet that waited
\* for it goes out and is freed.  The answer to a request for our address
\* changes nothing here.
etharp_input(sip, mac, for_us) ==
    LET i == etharp_find_entry(sip)
        e == Claimed(i, sip)
    IN  /\ IF Updates(sip, for_us)
           THEN /\ arp_table' = [arp_table EXCEPT ![i] = Updated(e, mac)]
                /\ ref' = pbuf_free(Released(i, sip, ref), e.q)
                /\ last' = [last EXCEPT ![sip] = mac]
                /\ out' = IF e.q = NoPbuf THEN {} ELSE {IpFrame(mac, dest[e.q])}
           ELSE out' = {} /\ UNCHANGED <<arp_table, ref, last>>
        /\ dest' = Contents(dest)
        /\ UNCHANGED <<etharp_cached_entry, kept, requested>>

\* Mutant: an entry lives one tick too long.
expired_late(e) == e.ctime >= ARP_MAXAGE \/ (e.state = "PENDING" /\ e.ctime >= ARP_MAXPENDING)

\* Is this entry too old, at its next age?
Expired(e) ==
    LET age == e.ctime + 1
    IN  age >= ARP_MAXAGE \/ (e.state = "PENDING" /\ age >= ARP_MAXPENDING)

\* Mutant: asking once more makes a pending entry young.
aged_retry(e) ==
    IF e.state = "EMPTY" THEN e
    ELSE IF Expired(e) THEN Empty
    ELSE [e EXCEPT !.ctime = IF e.state = "PENDING" THEN 0 ELSE @ + 1,
                   !.state = CASE @ = "REREQUESTING_1" -> "REREQUESTING_2"
                               [] @ = "REREQUESTING_2" -> "STABLE"
                               [] OTHER -> @]

\* What etharp_tmr makes of an entry.
Aged(e) ==
    IF e.state = "EMPTY" THEN e
    ELSE IF Expired(e) THEN Empty
    ELSE [e EXCEPT !.ctime = @ + 1,
                   !.state = CASE @ = "REREQUESTING_1" -> "REREQUESTING_2"
                               [] @ = "REREQUESTING_2" -> "STABLE"
                               [] OTHER -> @]

\* Entries age and old ones are freed with their packets.  The requests sent
\* again for the pending ones change nothing here.
etharp_tmr ==
    /\ arp_table' = [i \in Entries |-> Aged(arp_table[i])]
    /\ ref' = [p \in Pkts |-> ref[p] - Cardinality(
                  {i \in Entries : arp_table[i].q = p /\ arp_table'[i].q = NoPbuf})]
    /\ out' = {}
    /\ dest' = Contents(dest)
    /\ requested' = [ip \in Lan |-> Min({2, requested[ip] + 1})]
    /\ UNCHANGED <<etharp_cached_entry, kept, last>>

-----------------------------------------------------------------------------

Next ==
    \/ \E p \in Pkts, ip \in Addresses : SendDatagram(p, ip) \/ SendSegment(p, ip)
    \/ \E p \in Pkts : Resend(p) \/ Acknowledged(p)
    \/ \E sip \in Lan, for_us \in BOOLEAN : \E mac \in MacsOf[sip] :
          etharp_input(sip, mac, for_us)
    \/ \E mac \in Macs : etharp_input(Broadcast, mac, TRUE)
    \/ etharp_tmr

\* LwIP_Periodic_Handle calls etharp_tmr again and again; nothing else must come.
Spec == Init /\ [][Next]_vars /\ WF_vars(etharp_tmr)

-----------------------------------------------------------------------------
(* Properties.                                                             *)

\* Every entry is in a state and at an age that etharp_tmr lets it have, and
\* no pbuf has more than two references: its owner's and the table's.
TypeOK ==
    /\ arp_table \in [Entries -> [state : States, ipaddr : Lan \cup {Broadcast},
                                  ethaddr : Macs \cup {ethzero}, ctime : 0..(ARP_MAXAGE - 1),
                                  q : Pkts \cup {NoPbuf}]]
    /\ etharp_cached_entry \in Entries
    /\ ref \in [Pkts -> 0..2]
    /\ kept \subseteq Pkts
    /\ dest \in [Pkts -> Addresses]
    /\ last \in [Lan -> Macs \cup {ethzero}]
    /\ requested \in [Lan -> 0..2]

\* No host has two entries, so an update cannot miss the one that is used
\* (etharp.c:284-303).
OneEntryPerHost == \A i, j \in In(States \ {"EMPTY"}) :
    arp_table[i].ipaddr = arp_table[j].ipaddr => i = j

\* Every reference is accounted for: a pbuf's counter is what its owner and the
\* table hold, so no path leaks a packet or frees it twice; and only pending
\* entries hold one, as the assertion that is compiled out says (etharp.c:366).
RefsExact ==
    /\ \A p \in Pkts : ref[p] =
         Cardinality(kept \cap {p}) + Cardinality({i \in Entries : arp_table[i].q = p})
    /\ \A i \in Entries : arp_table[i].q # NoPbuf => arp_table[i].state = "PENDING"

\* A packet leaves to the hardware address that its own next hop announced
\* last, whether it waited for it, met a hint that is out of date, or shared
\* the table with hosts that took each other's entries (etharp.c:482-489,
\* 862-887).
RightHost == \A f \in out : f.kind = "IP" =>
    f.mac = IF f.ip = Broadcast THEN ethbroadcast ELSE last[NextHop(f.ip)]

\* "Don't send more than one request every 2 seconds" (etharp.c:221): between
\* two requests for a stable entry at least two ticks pass, however many
\* packets use it.
RequestsSpaced ==
    [][\A ip \in Lan :
         StableFor(ip) # {} /\ (\E f \in out' : f.kind = "REQUEST" /\ f.ip = ip)
         => requested[ip] = 2]_vars

\* No packet waits for ever for a host that does not answer (etharp.c:212-219).
NoneWaitsForEver == \A p \in Pkts :
    (\E i \in Entries : arp_table[i].q = p) ~> (\A i \in Entries : arp_table[i].q # p)
=============================================================================
