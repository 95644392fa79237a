---------------------------- MODULE EtharpProofs ----------------------------
(***************************************************************************)
(* The safety properties of the ARP table for every table size, ages, set  *)
(* of hosts and set of packets, proved from one inductive invariant. The   *)
(* counting in RefsExact and the choice of the entry to recycle are the    *)
(* two places where an induction is needed; both are reduced to the        *)
(* library's facts about finite sets and about the order of the naturals.  *)
(***************************************************************************)
EXTENDS Etharp, FiniteSetTheorems, WellFoundedInduction, TLAPS

-----------------------------------------------------------------------------
(* Least and greatest, and the search of the table.                        *)

\* A non-empty set of naturals has a least member: the order of the naturals
\* is well founded.
LEMMA LeastExists ==
    ASSUME NEW S, S \subseteq Nat, S # {}
    PROVE  \E x \in S : \A y \in S : x <= y
<1> DEFINE R == OpToRel(<, Nat)
<1>1. IsWellFoundedOn(R, Nat)
    BY NatLessThanWellFounded
<1>2. \E x \in S : \A y \in S : ~(<<y, x>> \in R)
    <2> HIDE DEF R
    <2> QED BY <1>1, WFMin
<1>3. PICK x \in S : \A y \in S : ~(<<y, x>> \in R)
    BY <1>2
<1>4. \A y \in S : ~(y < x)
    BY <1>3 DEF OpToRel
<1> QED BY <1>4

\* A non-empty set of bounded naturals has a greatest member.
LEMMA GreatestExists ==
    ASSUME NEW S, NEW n \in Nat, S \subseteq 0..n, S # {}
    PROVE  \E x \in S : \A y \in S : y <= x
<1> DEFINE T == {n - x : x \in S}
<1>1. T \subseteq Nat /\ T # {}
    <2>1. PICK s \in S : TRUE
        OBVIOUS
    <2>2. n - s \in T
        BY <2>1
    <2>3. T \subseteq Nat
        OBVIOUS
    <2> QED BY <2>2, <2>3
<1>2. PICK t \in T : \A u \in T : t <= u
    <2> HIDE DEF T
    <2> QED BY <1>1, LeastExists
<1>3. PICK x \in S : t = n - x
    BY <1>2
<1>4. \A y \in S : n - x <= n - y
    BY <1>2, <1>3
<1> QED BY <1>4

\* The first entry that matches, as the loop of etharp_find_entry finds it,
\* is one that matches.
LEMMA MinIn ==
    ASSUME NEW S, S \subseteq Nat, S # {}
    PROVE  Min(S) \in S /\ \A y \in S : Min(S) <= y
BY LeastExists DEF Min

\* The indices of arp_table are finitely many naturals, and there is one.
LEMMA EntriesNat == Entries \subseteq Nat /\ 0 \in Entries /\ IsFiniteSet(Entries)
<1>1. ARP_TABLE_SIZE - 1 \in Int /\ 0 <= ARP_TABLE_SIZE - 1
    BY TableAssumption
<1>2. IsFiniteSet(0..(ARP_TABLE_SIZE - 1))
    BY <1>1, FS_Interval
<1> QED BY <1>1, <1>2 DEF Entries

\* The oldest of some entries, the last of them when several have that age,
\* is one of them: etharp_find_entry's "age >= old" comparisons never come
\* out of the table.
LEMMA OldestIn ==
    ASSUME TypeOK, NEW S, S \subseteq Entries, S # {}
    PROVE  Oldest(S) \in S
<1> DEFINE c(i) == arp_table[i].ctime
           C == {c(i) : i \in S}
<1>1. ARP_MAXAGE - 1 \in Nat
    BY AgesAssumption
<1>2. \A i \in S : c(i) \in 0..(ARP_MAXAGE - 1)
    BY DEF TypeOK
<1>3. C \subseteq 0..(ARP_MAXAGE - 1) /\ C # {}
    <2>1. PICK s \in S : TRUE
        OBVIOUS
    <2>2. c(s) \in C
        BY <2>1
    <2> QED BY <1>2, <2>2
<1>4. PICK m \in C : \A d \in C : d <= m
    <2> HIDE DEF C
    <2> QED BY <1>1, <1>3, GreatestExists
<1> DEFINE M == {i \in S : c(i) = m}
<1>5. M \subseteq 0..(ARP_TABLE_SIZE - 1) /\ M # {} /\ ARP_TABLE_SIZE - 1 \in Nat
    <2>1. PICK s \in S : m = c(s)
        BY <1>4
    <2>2. s \in M
        BY <2>1
    <2>3. M \subseteq 0..(ARP_TABLE_SIZE - 1)
        BY DEF Entries
    <2> QED BY <2>2, <2>3, TableAssumption
<1>6. PICK k \in M : \A j \in M : j <= k
    <2> HIDE DEF M
    <2> QED BY <1>5, GreatestExists
<1>7. k \in S /\ c(k) = m
    BY <1>6
<1>8. ASSUME NEW j \in S
      PROVE  c(j) < c(k) \/ (c(j) = c(k) /\ j <= k)
    <2>1. c(j) <= m /\ c(j) \in Nat /\ m \in Nat
        BY <1>2, <1>4, <1>7
    <2>2. CASE c(j) = m
        BY <2>2, <1>6, <1>7
    <2>3. CASE c(j) # m
        BY <2>1, <2>3, <1>7
    <2> QED BY <2>2, <2>3
<1> QED BY <1>7, <1>8 DEF Oldest

\* etharp_find_entry with ETHARP_TRY_HARD always gives an entry, and the
\* host's own one when it has one (etharp.c:284-303).
LEMMA FindEntry ==
    ASSUME TypeOK, NEW ip
    PROVE  /\ etharp_find_entry(ip) \in Entries
           /\ Of(ip) # {} => etharp_find_entry(ip) \in Of(ip)
<1>1. Of(ip) \subseteq Entries /\ In({"EMPTY"}) \subseteq Entries /\ In(Stable) \subseteq Entries
      /\ In({"PENDING"}) \subseteq Entries
    BY DEF Of, In
<1>2. CASE Of(ip) # {}
    <2>1. Min(Of(ip)) \in Of(ip)
        BY <1>1, <1>2, EntriesNat, MinIn
    <2> QED BY <2>1, <1>1, <1>2 DEF etharp_find_entry
<1>3. CASE Of(ip) = {} /\ In({"EMPTY"}) # {}
    <2>1. Min(In({"EMPTY"})) \in In({"EMPTY"})
        BY <1>1, <1>3, EntriesNat, MinIn
    <2> QED BY <2>1, <1>1, <1>3 DEF etharp_find_entry
<1>4. CASE Of(ip) = {} /\ In({"EMPTY"}) = {}
    <2> DEFINE idle == {i \in In({"PENDING"}) : arp_table[i].q = NoPbuf}
    <2>1. arp_table[0].state \in States /\ arp_table[0].state # "EMPTY"
        BY <1>4, EntriesNat DEF TypeOK, In
    <2>2. In(Stable) # {} \/ In({"PENDING"}) # {}
        BY <2>1, EntriesNat DEF In, States
    <2>3. Recycled = IF In(Stable) # {} THEN Oldest(In(Stable))
                     ELSE IF idle # {} THEN Oldest(idle) ELSE Oldest(In({"PENDING"}))
        BY DEF Recycled
    <2>4. idle \subseteq Entries
        BY <1>1
    <2>5. Recycled \in Entries
        <3> HIDE DEF idle
        <3> QED BY <1>1, <2>2, <2>3, <2>4, OldestIn
    <2> QED BY <2>5, <1>4 DEF etharp_find_entry
<1> QED BY <1>2, <1>3, <1>4

-----------------------------------------------------------------------------
(* The inductive invariant.                                                *)

\* The type of an entry.
Entry == [state : States, ipaddr : Lan \cup {Broadcast}, ethaddr : Macs \cup {ethzero},
          ctime : 0..(ARP_MAXAGE - 1), q : Pkts \cup {NoPbuf}]

\* Does the table hold the pbuf p?
Held(p) == \E i \in Entries : arp_table[i].q = p

\* At most one entry holds a pbuf, and it is pending.
OneHolder == \A i, j \in Entries :
    arp_table[i].q # NoPbuf /\ arp_table[i].q = arp_table[j].q => i = j
HolderPends == \A i \in Entries : arp_table[i].q # NoPbuf => arp_table[i].state = "PENDING"

\* The reference counter, without the count of a set.
RefsCounted == \A p \in Pkts :
    ref[p] = (IF p \in kept THEN 1 ELSE 0) + (IF Held(p) THEN 1 ELSE 0)

\* Entries in use belong to hosts on the network.
OnLan == \A i \in Entries : arp_table[i].state # "EMPTY" => arp_table[i].ipaddr \in Lan

\* A packet waits on the entry of its next hop.
RightQueue == \A i \in Entries : arp_table[i].q # NoPbuf =>
    NextHop(dest[arp_table[i].q]) = arp_table[i].ipaddr

\* A stable entry has the address its host announced last.
Fresh == \A i \in Entries : arp_table[i].state \in Stable =>
    arp_table[i].ethaddr = last[arp_table[i].ipaddr]

\* How long ago an entry was requested again follows from its state and age.
Spaced == \A i \in Entries : LET e == arp_table[i] IN
    /\ e.state = "REREQUESTING_2" => requested[e.ipaddr] >= 1
    /\ e.state = "STABLE" => requested[e.ipaddr] >= 2 \/ requested[e.ipaddr] >= e.ctime

Inv == /\ TypeOK /\ OneEntryPerHost /\ OneHolder /\ HolderPends /\ RefsCounted
       /\ OnLan /\ RightQueue /\ Fresh /\ Spaced

-----------------------------------------------------------------------------
(* Counting references.                                                    *)

\* At most one entry of a kind makes a count of zero or one.
LEMMA CountOne ==
    ASSUME NEW T, T \subseteq Entries, \A i, j \in T : i = j
    PROVE  Cardinality(T) = IF T = {} THEN 0 ELSE 1
<1>1. CASE T = {}
    BY <1>1, FS_EmptySet
<1>2. CASE T # {}
    <2>1. PICK t \in T : T = {t}
        BY <1>2
    <2> QED BY <2>1, <1>2, FS_Singleton
<1> QED BY <1>1, <1>2

\* The invariant, which says who holds a pbuf, gives the counts of
\* RefsExact.
LEMMA InvRefs == Inv => RefsExact
<1> SUFFICES ASSUME Inv PROVE RefsExact
    OBVIOUS
<1>1. ASSUME NEW p \in Pkts
      PROVE  ref[p] = Cardinality(kept \cap {p}) + Cardinality({i \in Entries : arp_table[i].q = p})
    <2> DEFINE T == {i \in Entries : arp_table[i].q = p}
    <2>1. T \subseteq Entries /\ \A i, j \in T : i = j
        BY NamesAssumption DEF Inv, OneHolder
    <2>2. T = {} <=> ~Held(p)
        BY DEF Held
    <2>3. Cardinality(T) = IF Held(p) THEN 1 ELSE 0
        <3> HIDE DEF T
        <3>1. Cardinality(T) = IF T = {} THEN 0 ELSE 1
            BY <2>1, CountOne
        <3> QED BY <3>1, <2>2
    <2>4. Cardinality(kept \cap {p}) = IF p \in kept THEN 1 ELSE 0
        <3>1. CASE p \in kept
            <4>1. kept \cap {p} = {p}
                BY <3>1
            <4> QED BY <4>1, <3>1, FS_Singleton
        <3>2. CASE p \notin kept
            <4>1. kept \cap {p} = {}
                BY <3>2
            <4> QED BY <4>1, <3>2, FS_EmptySet
        <3> QED BY <3>1, <3>2
    <2>5. ref[p] = (IF p \in kept THEN 1 ELSE 0) + (IF Held(p) THEN 1 ELSE 0)
        BY DEF Inv, RefsCounted
    <2> QED BY <2>3, <2>4, <2>5
<1> QED BY <1>1 DEF RefsExact, Inv, HolderPends

-----------------------------------------------------------------------------
(* What the pieces of an action do to the invariant.                       *)

\* The entry that etharp_find_entry leaves for a host: it was the host's
\* before or is made empty for it, and no other entry is the host's.
LEMMA ClaimFacts ==
    ASSUME Inv, NEW ip \in Lan,
           NEW i, i = etharp_find_entry(ip), NEW e, e = Claimed(i, ip)
    PROVE  /\ i \in Entries /\ e \in Entry /\ e.ipaddr = ip
           /\ \A j \in Entries \ {i} : arp_table[j].state # "EMPTY" => arp_table[j].ipaddr # ip
           /\ \/ e = arp_table[i] /\ e.state # "EMPTY"
              \/ e = [Empty EXCEPT !.ipaddr = ip]
<1>1. i \in Entries /\ (Of(ip) # {} => i \in Of(ip))
    BY FindEntry DEF Inv
<1>2. Empty \in Entry
    BY AgesAssumption DEF Empty, Entry, States
<1>3. arp_table[i] \in Entry
    BY <1>1 DEF Inv, TypeOK, Entry
<1>4. \/ e = arp_table[i] /\ e.state # "EMPTY" /\ e.ipaddr = ip
      \/ e = [Empty EXCEPT !.ipaddr = ip]
    BY DEF Claimed
<1>5. e \in Entry /\ e.ipaddr = ip
    BY <1>2, <1>3, <1>4 DEF Entry
<1>6. ASSUME NEW j \in Entries \ {i}, arp_table[j].state # "EMPTY", arp_table[j].ipaddr = ip
      PROVE  FALSE
    <2>1. j \in Of(ip)
        BY <1>6 DEF Of
    <2>2. i \in Entries /\ arp_table[i].state # "EMPTY" /\ arp_table[i].ipaddr = ip
        BY <1>1, <2>1 DEF Of
    <2>3. i \in In(States \ {"EMPTY"}) /\ j \in In(States \ {"EMPTY"})
        BY <2>2, <1>6 DEF Inv, TypeOK, In
    <2> QED BY <2>2, <2>3, <1>6 DEF Inv, OneEntryPerHost
<1> QED BY <1>1, <1>4, <1>5, <1>6

\* One entry is overwritten with one of the same host: hosts keep one entry
\* each, pbufs one holder, and the only pbuf the table lost is the one that
\* the entry held.
LEMMA Replaced ==
    ASSUME Inv, NEW i \in Entries, NEW n \in Entry,
           n.ipaddr \in Lan, n.state # "EMPTY",
           \A j \in Entries \ {i} : arp_table[j].state # "EMPTY" => arp_table[j].ipaddr # n.ipaddr,
           n.q # NoPbuf => n.state = "PENDING" /\ (n.q = arp_table[i].q \/ ~Held(n.q)),
           arp_table' = [arp_table EXCEPT ![i] = n]
    PROVE  /\ arp_table' \in [Entries -> Entry] /\ arp_table'[i] = n
           /\ \A j \in Entries \ {i} : arp_table'[j] = arp_table[j]
           /\ OneEntryPerHost' /\ OneHolder' /\ HolderPends' /\ OnLan'
           /\ \A p \in Pkts : Held(p)' <=> p = n.q \/ (Held(p) /\ p # arp_table[i].q)
<1>1. arp_table \in [Entries -> Entry]
    BY DEF Inv, TypeOK, Entry
<1>2. arp_table' \in [Entries -> Entry] /\ arp_table'[i] = n
    BY <1>1
<1>3. \A j \in Entries \ {i} : arp_table'[j] = arp_table[j]
    BY <1>1
<1>4. OneEntryPerHost'
    <2> SUFFICES ASSUME NEW j \in Entries, NEW k \in Entries, arp_table'[j].state # "EMPTY",
                        arp_table'[k].state # "EMPTY", arp_table'[j].ipaddr = arp_table'[k].ipaddr
                 PROVE  j = k
        BY DEF OneEntryPerHost, In
    <2>1. CASE j # i /\ k # i
        <3>1. j \in In(States \ {"EMPTY"}) /\ k \in In(States \ {"EMPTY"})
            BY <1>1, <1>3, <2>1 DEF Entry, In
        <3> QED BY <1>3, <2>1, <3>1 DEF Inv, OneEntryPerHost
    <2>2. CASE j = i \/ k = i
        BY <1>2, <1>3, <2>2
    <2> QED BY <2>1, <2>2
<1>5. OneHolder'
    <2> SUFFICES ASSUME NEW j \in Entries, NEW k \in Entries, arp_table'[j].q # NoPbuf,
                        arp_table'[j].q = arp_table'[k].q
                 PROVE  j = k
        BY DEF OneHolder
    <2> QED BY <1>2, <1>3 DEF Inv, OneHolder, Held
<1>6. HolderPends' /\ OnLan'
    BY <1>2, <1>3 DEF Inv, HolderPends, OnLan
<1>7. ASSUME NEW p \in Pkts
      PROVE  Held(p)' <=> p = n.q \/ (Held(p) /\ p # arp_table[i].q)
    <2>1. Held(p)' <=> \E j \in Entries : arp_table'[j].q = p
        BY DEF Held
    <2>2. Held(p)' => p = n.q \/ (Held(p) /\ p # arp_table[i].q)
        <3> SUFFICES ASSUME NEW j \in Entries, arp_table'[j].q = p, j # i
                     PROVE  Held(p) /\ p # arp_table[i].q
            BY <1>2, <2>1
        <3> QED BY <1>3, NamesAssumption DEF Inv, OneHolder, Held
    <2>3. p = n.q => Held(p)'
        BY <1>2, <2>1
    <2>4. Held(p) /\ p # arp_table[i].q => Held(p)'
        BY <1>3, <2>1 DEF Held
    <2> QED BY <2>2, <2>3, <2>4
<1> QED BY <1>2, <1>3, <1>4, <1>5, <1>6, <1>7

\* pbuf_free takes one reference, and none from no pbuf.
LEMMA Freed ==
    ASSUME NEW r \in [Pkts -> Int], NEW q \in Pkts \cup {NoPbuf}
    PROVE  /\ pbuf_free(r, q) \in [Pkts -> Int]
           /\ \A p \in Pkts : pbuf_free(r, q)[p] = IF p = q THEN r[p] - 1 ELSE r[p]
BY NamesAssumption DEF pbuf_free

\* A counter that counts its owner and the table is at most two.
LEMMA RefsTyped ==
    ASSUME ref' \in [Pkts -> Int], RefsCounted'
    PROVE  ref' \in [Pkts -> 0..2]
<1>1. \A p \in Pkts : ref'[p] \in 0..2
    BY DEF RefsCounted
<1> QED BY <1>1

\* A pbuf in the table has references, so its contents are still the packet
\* that was queued and not that of a later owner of the memory.
LEMMA Headers ==
    ASSUME NEW d \in [Pkts -> Addresses], RefsCounted', dest' = Contents(d)
    PROVE  /\ dest' \in [Pkts -> Addresses]
           /\ \A p \in Pkts : Held(p)' => dest'[p] = d[p]
<1>1. dest' \in [Pkts -> Addresses]
    BY DEF Contents, Addresses
<1>2. ASSUME NEW p \in Pkts, Held(p)'
      PROVE  dest'[p] = d[p]
    <2>1. ref'[p] # 0
        BY <1>2 DEF RefsCounted
    <2> QED BY <2>1 DEF Contents
<1> QED BY <1>1, <1>2

\* If every queued packet belongs to its entry as the packets were before
\* the step, it does as they are after it.
LEMMA SameQueues ==
    ASSUME Inv, RefsCounted', NEW d \in [Pkts -> Addresses], dest' = Contents(d),
           arp_table' \in [Entries -> Entry],
           \A j \in Entries : arp_table'[j].q # NoPbuf =>
               NextHop(d[arp_table'[j].q]) = arp_table'[j].ipaddr
    PROVE  RightQueue'
<1> SUFFICES ASSUME NEW j \in Entries, arp_table'[j].q # NoPbuf
             PROVE  NextHop(dest'[arp_table'[j].q]) = arp_table'[j].ipaddr
    BY DEF RightQueue, NextHop
<1>1. PICK p \in Pkts : p = arp_table'[j].q
    BY DEF Entry
<1>2. Held(p)'
    BY <1>1 DEF Held
<1>3. dest'[p] = d[p]
    BY <1>2, Headers
<1> QED BY <1>1, <1>3

\* What is sent to a host of the network by ARP is not the broadcast.
LEMMA NotBroadcast ==
    ASSUME NEW ip, NextHop(ip) \in Lan
    PROVE  ip # Broadcast
BY NamesAssumption DEF NextHop

\* RequestsSpaced, of one step.
SpacedStep == \A ip \in Lan :
    StableFor(ip) # {} /\ (\E f \in out' : f.kind = "REQUEST" /\ f.ip = ip) => requested[ip] = 2

\* etharp_update_arp_entry makes an entry stable, young and without a packet
\* (etharp.c:454-490).
LEMMA UpdatedEntry ==
    ASSUME NEW e \in Entry, NEW mac \in Macs
    PROVE  LET n == Updated(e, mac) IN
           /\ n \in Entry /\ n.state = "STABLE" /\ n.ethaddr = mac /\ n.ctime = 0
           /\ n.q = NoPbuf /\ n.ipaddr = e.ipaddr
<1>1. 0 \in 0..(ARP_MAXAGE - 1)
    BY AgesAssumption
<1> QED BY <1>1 DEF Updated, Entry, States, Stable

-----------------------------------------------------------------------------
(* ARP packets that come in.                                               *)

\* An ARP packet that came in, whether it updates the table or not, keeps
\* the invariant; the packet that waited goes to the address that has just
\* been announced.
LEMMA InputStep ==
    ASSUME Inv, NEW sip, NEW mac \in Macs, NEW for_us \in BOOLEAN,
           etharp_input(sip, mac, for_us)
    PROVE  Inv' /\ RightHost' /\ SpacedStep
<1> DEFINE i == etharp_find_entry(sip)
           e == Claimed(i, sip)
           n == Updated(e, mac)
<1>a. dest \in [Pkts -> Addresses] /\ dest' = Contents(dest) /\ ref \in [Pkts -> Int]
      /\ arp_table \in [Entries -> Entry] /\ requested \in [Lan -> 0..2]
    BY DEF Inv, TypeOK, Entry, etharp_input
<1>b. UNCHANGED <<etharp_cached_entry, kept, requested>>
    BY DEF etharp_input
<1>1. CASE Updates(sip, for_us)
    <2>1. /\ arp_table' = [arp_table EXCEPT ![i] = n]
          /\ ref' = pbuf_free(Released(i, sip, ref), e.q)
          /\ last' = [last EXCEPT ![sip] = mac]
          /\ out' = IF e.q = NoPbuf THEN {} ELSE {IpFrame(mac, dest[e.q])}
          /\ sip \in Lan
        BY <1>1 DEF etharp_input, Updates
    <2>2. /\ i \in Entries /\ e \in Entry /\ e.ipaddr = sip
          /\ \A j \in Entries \ {i} : arp_table[j].state # "EMPTY" => arp_table[j].ipaddr # sip
          /\ \/ e = arp_table[i] /\ e.state # "EMPTY"
             \/ e = [Empty EXCEPT !.ipaddr = sip]
        <3> HIDE DEF i, e
        <3>1. i = etharp_find_entry(sip) /\ e = Claimed(i, sip)
            BY DEF i, e
        <3> QED BY <3>1, <2>1, ClaimFacts
    <2>3. Released(i, sip, ref) = pbuf_free(ref, IF e.q = NoPbuf THEN arp_table[i].q ELSE NoPbuf)
        BY DEF Released
    <2>4. n = Updated(e, mac)
        OBVIOUS
    <2> HIDE DEF i, e, n
    <2>5. n \in Entry /\ n.state = "STABLE" /\ n.ethaddr = mac /\ n.ctime = 0 /\ n.q = NoPbuf
          /\ n.ipaddr = sip
        BY <2>2, <2>4, UpdatedEntry
    <2>6. /\ arp_table' \in [Entries -> Entry] /\ arp_table'[i] = n
          /\ \A j \in Entries \ {i} : arp_table'[j] = arp_table[j]
          /\ OneEntryPerHost' /\ OneHolder' /\ HolderPends' /\ OnLan'
          /\ \A p \in Pkts : Held(p)' <=> p = n.q \/ (Held(p) /\ p # arp_table[i].q)
        <3>1. /\ n.ipaddr \in Lan /\ n.state # "EMPTY"
              /\ \A j \in Entries \ {i} : arp_table[j].state # "EMPTY" => arp_table[j].ipaddr # n.ipaddr
              /\ ~(n.q # NoPbuf)
            BY <2>1, <2>2, <2>5
        <3> QED BY <2>1, <2>2, <2>5, <3>1, Replaced
    <2>7. ref' \in [Pkts -> Int]
          /\ \A p \in Pkts : ref'[p] = IF p = arp_table[i].q THEN ref[p] - 1 ELSE ref[p]
        <3>1. arp_table[i].q \in Pkts \cup {NoPbuf} /\ e.q \in Pkts \cup {NoPbuf}
            BY <1>a, <2>2 DEF Entry
        <3>2. e.q # NoPbuf => e.q = arp_table[i].q
            BY <2>2 DEF Empty
        <3>3. CASE e.q = NoPbuf
            <4>1. ref' = pbuf_free(ref, arp_table[i].q)
                BY <2>1, <2>3, <3>3 DEF pbuf_free
            <4> QED BY <4>1, <3>1, <1>a, Freed
        <3>4. CASE e.q # NoPbuf
            <4>1. ref' = pbuf_free(ref, arp_table[i].q)
                BY <2>1, <2>3, <3>2, <3>4 DEF pbuf_free
            <4> QED BY <4>1, <3>1, <1>a, Freed
        <3> QED BY <3>3, <3>4
    <2>8. RefsCounted'
        <3> SUFFICES ASSUME NEW p \in Pkts
                     PROVE  ref'[p] = (IF p \in kept THEN 1 ELSE 0) + (IF Held(p)' THEN 1 ELSE 0)
            BY <1>b DEF RefsCounted
        <3>1. ref[p] = (IF p \in kept THEN 1 ELSE 0) + (IF Held(p) THEN 1 ELSE 0)
            BY DEF Inv, RefsCounted
        <3>2. Held(p)' <=> Held(p) /\ p # arp_table[i].q
            BY <2>5, <2>6, NamesAssumption
        <3>3. p = arp_table[i].q => Held(p)
            BY <2>2 DEF Held
        <3>4. ref'[p] = IF p = arp_table[i].q THEN ref[p] - 1 ELSE ref[p]
            BY <2>7
        <3> QED BY <3>1, <3>2, <3>3, <3>4
    <2>9. RightQueue'
        <3>1. ASSUME NEW j \in Entries, arp_table'[j].q # NoPbuf
              PROVE  NextHop(dest[arp_table'[j].q]) = arp_table'[j].ipaddr
            BY <3>1, <2>5, <2>6 DEF Inv, RightQueue
        <3> QED BY <3>1, <2>6, <2>8, <1>a, SameQueues
    <2>10. last' \in [Lan -> Macs \cup {ethzero}] /\ last'[sip] = mac
           /\ \A x \in Lan \ {sip} : last'[x] = last[x]
        BY <2>1 DEF Inv, TypeOK
    <2>11. Fresh'
        <3> SUFFICES ASSUME NEW j \in Entries, arp_table'[j].state \in Stable
                     PROVE  arp_table'[j].ethaddr = last'[arp_table'[j].ipaddr]
            BY DEF Fresh
        <3>1. CASE j = i
            BY <3>1, <2>5, <2>6, <2>10
        <3>2. CASE j # i
            <4>1. arp_table'[j] = arp_table[j] /\ arp_table[j].state # "EMPTY"
                BY <3>2, <2>6 DEF Stable
            <4>2. arp_table[j].ipaddr \in Lan \ {sip}
                BY <4>1, <3>2, <2>2 DEF Inv, OnLan
            <4> QED BY <4>1, <4>2, <2>10 DEF Inv, Fresh
        <3> QED BY <3>1, <3>2
    <2>12. Spaced'
        <3> SUFFICES ASSUME NEW j \in Entries
                     PROVE  LET x == arp_table'[j] IN
                        /\ x.state = "REREQUESTING_2" => requested[x.ipaddr] >= 1
                        /\ x.state = "STABLE" =>
                              requested[x.ipaddr] >= 2 \/ requested[x.ipaddr] >= x.ctime
            BY <1>b DEF Spaced
        <3>1. CASE j = i
            BY <3>1, <2>1, <2>5, <2>6, <1>a
        <3>2. CASE j # i
            BY <3>2, <2>6 DEF Inv, Spaced
        <3> QED BY <3>1, <3>2
    <2>13. TypeOK'
        <3>1. ref' \in [Pkts -> 0..2]
            BY <2>7, <2>8, RefsTyped
        <3>2. dest' \in [Pkts -> Addresses]
            BY <2>8, <1>a, Headers
        <3> QED BY <3>1, <3>2, <2>6, <2>10, <1>b DEF Inv, TypeOK, Entry
    <2>14. RightHost'
        <3> SUFFICES ASSUME NEW f \in out'
                     PROVE  f.mac = IF f.ip = Broadcast THEN ethbroadcast ELSE last'[NextHop(f.ip)]
            BY DEF RightHost, NextHop
        <3>1. e.q # NoPbuf /\ f = IpFrame(mac, dest[e.q])
            BY <2>1
        <3>2. e = arp_table[i]
            BY <3>1, <2>2 DEF Empty
        <3>3. NextHop(dest[e.q]) = sip
            BY <3>1, <3>2, <2>2 DEF Inv, RightQueue
        <3>4. dest[e.q] # Broadcast
            BY <3>3, <2>1, NotBroadcast
        <3> QED BY <3>1, <3>3, <3>4, <2>10 DEF IpFrame
    <2>15. SpacedStep
        BY <2>1 DEF SpacedStep, IpFrame
    <2> QED BY <2>6, <2>8, <2>9, <2>11, <2>12, <2>13, <2>14, <2>15 DEF Inv
<1>2. CASE ~Updates(sip, for_us)
    <2>1. out' = {} /\ UNCHANGED <<arp_table, ref, last>>
        BY <1>2 DEF etharp_input
    <2>2. RefsCounted'
        BY <2>1, <1>b DEF Inv, RefsCounted, Held
    <2>3. dest' \in [Pkts -> Addresses] /\ RightQueue'
        BY <2>1, <2>2, <1>a, Headers, SameQueues DEF Inv, RightQueue
    <2>4. TypeOK' /\ OneEntryPerHost' /\ OneHolder' /\ HolderPends' /\ OnLan' /\ Fresh' /\ Spaced'
        BY <2>1, <2>3, <1>b
        DEF Inv, TypeOK, OneEntryPerHost, In, OneHolder, HolderPends, OnLan, Fresh, Spaced
    <2> QED BY <2>1, <2>2, <2>3, <2>4 DEF Inv, RightHost, SpacedStep
<1> QED BY <1>1, <1>2

\* What SendDatagram, SendSegment and Resend have in common.
Sending(p, ip, keep) ==
    /\ ~Held(p) /\ (keep \/ p \notin kept)
    /\ etharp_output(p, ip, [ref EXCEPT ![p] = 1], keep)
    /\ dest' = Contents([dest EXCEPT ![p] = ip])
    /\ kept' = (IF keep THEN kept \cup {p} ELSE kept)
    /\ UNCHANGED last

-----------------------------------------------------------------------------
(* Packets that go out at once.                                            *)

\* A packet sent at once leaves as many references as its owner keeps.
LEMMA RefsSent ==
    ASSUME Inv, NEW p \in Pkts, NEW keep \in BOOLEAN, ~Held(p), keep \/ p \notin kept,
           ref' = Returned([ref EXCEPT ![p] = 1], p, keep),
           kept' = (IF keep THEN kept \cup {p} ELSE kept),
           \A x \in Pkts : Held(x)' <=> Held(x)
    PROVE  ref' \in [Pkts -> Int] /\ RefsCounted'
<1> DEFINE r == [ref EXCEPT ![p] = 1]
<1>1. ref \in [Pkts -> Int] /\ r \in [Pkts -> Int]
    BY DEF Inv, TypeOK
<1>2. /\ ref' \in [Pkts -> Int]
      /\ ref'[p] = IF keep THEN 1 ELSE 0
      /\ \A x \in Pkts \ {p} : ref'[x] = ref[x]
    <2>1. CASE keep
        BY <1>1, <2>1 DEF Returned
    <2>2. CASE ~keep
        <3>1. ref' = pbuf_free(r, p)
            BY <2>2 DEF Returned
        <3>2. r[p] = 1 /\ \A x \in Pkts \ {p} : r[x] = ref[x]
            BY <1>1
        <3> HIDE DEF r
        <3>3. ref' \in [Pkts -> Int] /\ \A x \in Pkts : ref'[x] = IF x = p THEN r[x] - 1 ELSE r[x]
            <4>1. /\ pbuf_free(r, p) \in [Pkts -> Int]
                  /\ \A x \in Pkts : pbuf_free(r, p)[x] = IF x = p THEN r[x] - 1 ELSE r[x]
                BY <1>1, Freed
            <4> QED BY <3>1, <4>1, Zenon
        <3>4. ref'[p] = 0
            <4>1. ref'[p] = r[p] - 1 /\ r[p] = 1
                BY <3>2, <3>3, Zenon
            <4>2. 1 - 1 = 0
                OBVIOUS
            <4> QED BY <4>1, <4>2, Zenon
        <3>5. \A x \in Pkts \ {p} : ref'[x] = ref[x]
            BY <3>2, <3>3
        <3> QED BY <2>2, <3>3, <3>4, <3>5, Zenon
    <2> QED BY <2>1, <2>2
<1>3. ASSUME NEW x \in Pkts
      PROVE  ref'[x] = (IF x \in kept' THEN 1 ELSE 0) + (IF Held(x)' THEN 1 ELSE 0)
    <2>1. ref[x] = (IF x \in kept THEN 1 ELSE 0) + (IF Held(x) THEN 1 ELSE 0)
        BY DEF Inv, RefsCounted
    <2>2. CASE x = p
        <3>1. ~Held(x)' /\ (x \in kept' <=> keep)
            BY <2>2
        <3> QED BY <3>1, <2>2, <1>2
    <2>3. CASE x # p
        <3>1. (x \in kept' <=> x \in kept) /\ (Held(x)' <=> Held(x)) /\ ref'[x] = ref[x]
            BY <2>3, <1>2
        <3> QED BY <3>1, <2>1
    <2> QED BY <2>2, <2>3
<1> QED BY <1>2, <1>3 DEF RefsCounted

\* A step that sends a packet and leaves every entry's host, queue and
\* address alone keeps the invariant.
LEMMA Sent ==
    ASSUME Inv, NEW p \in Pkts, NEW ip \in Addresses
    PROVE  /\ [dest EXCEPT ![p] = ip] \in [Pkts -> Addresses]
           /\ [dest EXCEPT ![p] = ip][p] = ip
           /\ \A x \in Pkts \ {p} : [dest EXCEPT ![p] = ip][x] = dest[x]
BY DEF Inv, TypeOK

\* etharp_output when the packet goes out at once and no request is made.
\* etharp_output_to_arp_index moves only the state of its entry, from stable
\* to re-requesting, and notes the time of the request.
LEMMA SentAtOnce ==
    ASSUME Inv, NEW p \in Pkts, NEW ip \in Addresses, NEW keep \in BOOLEAN,
           Sending(p, ip, keep),
           ref' = Returned([ref EXCEPT ![p] = 1], p, keep),
           UNCHANGED <<arp_table, requested>>, etharp_cached_entry' \in Entries
    PROVE  Inv'
<1>1. ref' \in [Pkts -> Int] /\ RefsCounted'
    <2>1. \A x \in Pkts : Held(x)' <=> Held(x)
        BY DEF Held
    <2> QED BY <2>1, RefsSent DEF Sending
<1>2. ref' \in [Pkts -> 0..2]
    BY <1>1, RefsTyped
<1> DEFINE d == [dest EXCEPT ![p] = ip]
<1>3. d \in [Pkts -> Addresses] /\ dest' = Contents(d) /\ \A x \in Pkts \ {p} : d[x] = dest[x]
    BY Sent DEF Sending
<1>4. arp_table' \in [Entries -> Entry]
    BY DEF Inv, TypeOK, Entry
<1>5. dest' \in [Pkts -> Addresses] /\ RightQueue'
    <2> HIDE DEF d
    <2>1. ASSUME NEW j \in Entries, arp_table'[j].q # NoPbuf
          PROVE  NextHop(d[arp_table'[j].q]) = arp_table'[j].ipaddr
        <3>1. arp_table[j].q \in Pkts \ {p}
            BY <2>1, <1>4 DEF Entry, Held, Sending
        <3> QED BY <3>1, <2>1, <1>3 DEF Inv, RightQueue
    <2> QED BY <2>1, <1>1, <1>3, <1>4, Headers, SameQueues
<1>6. kept' \subseteq Pkts /\ UNCHANGED last
    BY DEF Sending, Inv, TypeOK
<1>7. TypeOK' /\ OneEntryPerHost' /\ OneHolder' /\ HolderPends' /\ OnLan' /\ Fresh' /\ Spaced'
    BY <1>2, <1>5, <1>6
    DEF Inv, TypeOK, OneEntryPerHost, In, OneHolder, HolderPends, OnLan, Fresh, Spaced
<1> QED BY <1>1, <1>5, <1>7 DEF Inv

\* A packet to the broadcast address is sent at once and leaves the table
\* alone.
LEMMA BroadcastStep ==
    ASSUME Inv, NEW p \in Pkts, NEW ip \in Addresses, NEW keep \in BOOLEAN,
           Sending(p, ip, keep), OutputBroadcast(p, ip, [ref EXCEPT ![p] = 1], keep)
    PROVE  Inv' /\ RightHost' /\ SpacedStep
<1>1. Inv'
    <2>1. ref' = Returned([ref EXCEPT ![p] = 1], p, keep) /\ UNCHANGED <<arp_table, requested>>
          /\ etharp_cached_entry' \in Entries
        BY DEF OutputBroadcast, Inv, TypeOK
    <2> QED BY <2>1, SentAtOnce
<1>2. out' = {IpFrame(ethbroadcast, Broadcast)}
    BY DEF OutputBroadcast
<1> QED BY <1>1, <1>2 DEF RightHost, SpacedStep, IpFrame

\* A packet to a host with a stable entry goes to the address in that entry,
\* by the cached hint or by the search, and asks again only when the last
\* request is two ticks old.
LEMMA StableStep ==
    ASSUME Inv, NEW p \in Pkts, NEW ip \in Addresses, NEW keep \in BOOLEAN,
           Sending(p, ip, keep), OutputStable(p, ip, [ref EXCEPT ![p] = 1], keep)
    PROVE  Inv' /\ RightHost' /\ SpacedStep
<1> DEFINE hop == NextHop(ip)
           i == Index(hop)
           e == arp_table[i]
           mac == IF e.ctime >= ARP_AGE_REREQUEST_USED_BROADCAST THEN ethbroadcast ELSE e.ethaddr
           n == [e EXCEPT !.state = "REREQUESTING_1"]
<1>1. /\ hop \in Lan /\ StableFor(hop) # {} /\ etharp_cached_entry' = i
      /\ ref' = Returned([ref EXCEPT ![p] = 1], p, keep)
      /\ \/ /\ Due(e)
            /\ arp_table' = [arp_table EXCEPT ![i].state = "REREQUESTING_1"]
            /\ requested' = [requested EXCEPT ![e.ipaddr] = 0]
            /\ out' = {Request(mac, e.ipaddr), IpFrame(e.ethaddr, ip)}
         \/ /\ out' = {IpFrame(e.ethaddr, ip)}
            /\ UNCHANGED <<arp_table, requested>>
    BY DEF OutputStable
<1>2. i \in Entries /\ e.state \in Stable /\ e.ipaddr = hop
    <2>1. StableFor(hop) \subseteq Entries
        BY DEF StableFor, In
    <2>2. Min(StableFor(hop)) \in StableFor(hop)
        BY <1>1, <2>1, EntriesNat, MinIn
    <2>3. Index(hop) \in StableFor(hop)
        BY <2>2 DEF Index
    <2> QED BY <2>3 DEF StableFor, In
<1>3. arp_table \in [Entries -> Entry] /\ requested \in [Lan -> 0..2] /\ e \in Entry
    BY <1>2 DEF Inv, TypeOK, Entry
<1>4. [arp_table EXCEPT ![i].state = "REREQUESTING_1"] = [arp_table EXCEPT ![i] = n]
    BY <1>2, <1>3
<1>5. n \in Entry /\ n.state = "REREQUESTING_1" /\ n.ipaddr = hop /\ n.q = e.q /\ n.ethaddr = e.ethaddr
    BY <1>2, <1>3 DEF Entry, States, Stable
<1> HIDE DEF hop, i, mac, n
<1>6. e.ethaddr = last[hop] /\ ip # Broadcast /\ last' = last /\ hop = NextHop(ip)
    BY <1>1, <1>2, NotBroadcast DEF Inv, Fresh, Sending, hop
<1>7. RightHost'
    <2> SUFFICES ASSUME NEW f \in out', f.kind = "IP"
                 PROVE  f.mac = IF f.ip = Broadcast THEN ethbroadcast ELSE last'[NextHop(f.ip)]
        BY DEF RightHost, NextHop
    <2>1. f = IpFrame(e.ethaddr, ip)
        BY <1>1 DEF Request
    <2> QED BY <2>1, <1>6 DEF IpFrame
<1>8. CASE ~(\E f \in out' : f.kind = "REQUEST") /\ UNCHANGED <<arp_table, requested>>
    <2>1. Inv'
        BY <1>1, <1>2, <1>8, SentAtOnce
    <2> QED BY <2>1, <1>7, <1>8 DEF SpacedStep
<1>9. CASE /\ Due(e)
           /\ arp_table' = [arp_table EXCEPT ![i] = n]
           /\ requested' = [requested EXCEPT ![hop] = 0]
           /\ out' = {Request(mac, hop), IpFrame(e.ethaddr, ip)}
    <2>1. e.q = NoPbuf
        BY <1>2 DEF Inv, HolderPends, Stable
    <2>2. \A j \in Entries \ {i} : arp_table[j].state # "EMPTY" => arp_table[j].ipaddr # hop
        <3> SUFFICES ASSUME NEW j \in Entries \ {i}, arp_table[j].state # "EMPTY",
                            arp_table[j].ipaddr = hop
                     PROVE  FALSE
            OBVIOUS
        <3>1. i \in In(States \ {"EMPTY"}) /\ j \in In(States \ {"EMPTY"})
            BY <1>2, <1>3 DEF In, Entry, States, Stable
        <3> QED BY <1>2, <3>1 DEF Inv, OneEntryPerHost
    <2>3. /\ arp_table' \in [Entries -> Entry] /\ arp_table'[i] = n
          /\ \A j \in Entries \ {i} : arp_table'[j] = arp_table[j]
          /\ OneEntryPerHost' /\ OneHolder' /\ HolderPends' /\ OnLan'
          /\ \A x \in Pkts : Held(x)' <=> x = n.q \/ (Held(x) /\ x # arp_table[i].q)
        <3>1. n.ipaddr \in Lan /\ n.state # "EMPTY" /\ ~(n.q # NoPbuf)
            BY <1>1, <1>5, <2>1
        <3>2. \A j \in Entries \ {i} : arp_table[j].state # "EMPTY" => arp_table[j].ipaddr # n.ipaddr
            BY <1>5, <2>2
        <3> QED BY <1>2, <1>5, <1>9, <3>1, <3>2, Replaced
    <2>4. ref' \in [Pkts -> Int] /\ RefsCounted'
        <3>1. \A x \in Pkts : Held(x)' <=> Held(x)
            BY <2>1, <2>3, <1>5, NamesAssumption
        <3> QED BY <3>1, <1>1, RefsSent DEF Sending
    <2>5. ref' \in [Pkts -> 0..2]
        BY <2>4, RefsTyped
    <2> DEFINE d == [dest EXCEPT ![p] = ip]
    <2>6. d \in [Pkts -> Addresses] /\ dest' = Contents(d) /\ \A x \in Pkts \ {p} : d[x] = dest[x]
        BY Sent DEF Sending
    <2>7. dest' \in [Pkts -> Addresses] /\ RightQueue'
        <3> HIDE DEF d
        <3>1. ASSUME NEW j \in Entries, arp_table'[j].q # NoPbuf
              PROVE  NextHop(d[arp_table'[j].q]) = arp_table'[j].ipaddr
            <4>1. j # i /\ arp_table'[j] = arp_table[j]
                BY <3>1, <1>5, <2>1, <2>3
            <4>2. arp_table[j].q \in Pkts \ {p}
                BY <3>1, <4>1, <1>3 DEF Entry, Held, Sending
            <4> QED BY <4>1, <4>2, <3>1, <2>6 DEF Inv, RightQueue
        <3> QED BY <3>1, <2>3, <2>4, <2>6, Headers, SameQueues
    <2>8. Fresh'
        <3> SUFFICES ASSUME NEW j \in Entries, arp_table'[j].state \in Stable
                     PROVE  arp_table'[j].ethaddr = last[arp_table'[j].ipaddr]
            BY <1>6 DEF Fresh
        <3> QED BY <1>5, <1>6, <2>3 DEF Inv, Fresh
    <2>9. Spaced'
        <3> SUFFICES ASSUME NEW j \in Entries
                     PROVE  LET x == arp_table'[j] IN
                        /\ x.state = "REREQUESTING_2" => requested'[x.ipaddr] >= 1
                        /\ x.state = "STABLE" =>
                              requested'[x.ipaddr] >= 2 \/ requested'[x.ipaddr] >= x.ctime
            BY DEF Spaced
        <3>1. CASE j = i
            BY <3>1, <1>5, <2>3
        <3>2. CASE j # i
            <4>1. arp_table'[j] = arp_table[j]
                BY <3>2, <2>3
            <4>2. CASE arp_table[j].state = "EMPTY"
                BY <4>1, <4>2
            <4>3. CASE arp_table[j].state # "EMPTY"
                <5>1. arp_table[j].ipaddr \in Lan \ {hop}
                    BY <4>3, <3>2, <2>2 DEF Inv, OnLan
                <5>2. requested'[arp_table[j].ipaddr] = requested[arp_table[j].ipaddr]
                    BY <5>1, <1>3, <1>9
                <5> QED BY <4>1, <5>2 DEF Inv, Spaced
            <4> QED BY <4>2, <4>3
        <3> QED BY <3>1, <3>2
    <2>10. TypeOK'
        <3>1. requested' \in [Lan -> 0..2]
            BY <1>1, <1>3, <1>9
        <3>2. kept' \subseteq Pkts
            BY DEF Sending, Inv, TypeOK
        <3> QED BY <3>1, <3>2, <2>3, <2>5, <2>7, <1>1, <1>2, <1>6 DEF Inv, TypeOK, Entry
    <2>11. SpacedStep
        <3>1. requested[hop] = 2
            <4>1. e.state = "STABLE" /\ e.ctime >= 2 /\ e.ctime \in Nat
                BY <1>3, <1>9, AgesAssumption DEF Due, Entry
            <4>2. requested[hop] >= 2 \/ requested[hop] >= e.ctime
                BY <4>1, <1>2 DEF Inv, Spaced
            <4>3. requested[hop] \in 0..2
                BY <1>1, <1>3
            <4> QED BY <4>1, <4>2, <4>3
        <3>2. \A f \in out' : f.kind = "REQUEST" => f.ip = hop
            BY <1>9 DEF Request, IpFrame
        <3> QED BY <3>1, <3>2 DEF SpacedStep
    <2> QED BY <2>3, <2>4, <2>7, <2>8, <2>9, <2>10, <2>11, <1>7 DEF Inv
<1>10. \/ ~(\E f \in out' : f.kind = "REQUEST") /\ UNCHANGED <<arp_table, requested>>
       \/ /\ Due(e)
          /\ arp_table' = [arp_table EXCEPT ![i] = n]
          /\ requested' = [requested EXCEPT ![hop] = 0]
          /\ out' = {Request(mac, hop), IpFrame(e.ethaddr, ip)}
    BY <1>1, <1>2, <1>4 DEF IpFrame
<1> QED BY <1>8, <1>9, <1>10

\* The counters after etharp_query gave the entry i to the pbuf p.
QueriedRefs(i, hop, p, keep) ==
    Returned(pbuf_free([Released(i, hop, [ref EXCEPT ![p] = 1]) EXCEPT ![p] = @ + 1],
                       Claimed(i, hop).q), p, keep)

-----------------------------------------------------------------------------
(* Packets that wait.                                                      *)

\* The references after etharp_query: the queue gets one of the new packet,
\* the old packet of the entry loses one, whichever of the recycling and the
\* replacement frees it.
LEMMA QueryRefs ==
    ASSUME Inv, NEW p \in Pkts, NEW keep \in BOOLEAN, ~Held(p),
           NEW i \in Entries, NEW hop, NEW e, e = Claimed(i, hop),
           e.q = NoPbuf \/ e.q = arp_table[i].q,
           ref' = QueriedRefs(i, hop, p, keep)
    PROVE  /\ ref' \in [Pkts -> Int]
           /\ ref'[p] = IF keep THEN 2 ELSE 1
           /\ \A x \in Pkts \ {p} : ref'[x] = IF x = arp_table[i].q THEN ref[x] - 1 ELSE ref[x]
<1> DEFINE o == arp_table[i].q
           r == [ref EXCEPT ![p] = 1]
           a == IF e.q = NoPbuf THEN o ELSE NoPbuf
           s == pbuf_free(r, a)
           h == [s EXCEPT ![p] = @ + 1]
           g == pbuf_free(h, e.q)
<1>1. ref \in [Pkts -> Int] /\ o \in Pkts \cup {NoPbuf} /\ o # p
    BY DEF Inv, TypeOK, Held
<1>2. r \in [Pkts -> Int] /\ r[p] = 1 /\ \A x \in Pkts \ {p} : r[x] = ref[x]
    BY <1>1
<1>3. a \in Pkts \cup {NoPbuf} /\ a # p /\ e.q # p /\ e.q \in Pkts \cup {NoPbuf}
      /\ \A x \in Pkts : x = o <=> x = a \/ x = e.q
    BY <1>1, NamesAssumption
<1>4. \A x \in Pkts : ~(x = a /\ x = e.q)
    BY <1>1, NamesAssumption
<1>5. ref' = Returned(g, p, keep)
    BY DEF Released, QueriedRefs
<1> HIDE DEF o, r, a
<1>6. s \in [Pkts -> Int] /\ \A x \in Pkts : s[x] = IF x = a THEN r[x] - 1 ELSE r[x]
    BY <1>2, <1>3, Freed
<1> HIDE DEF s
<1>7. h \in [Pkts -> Int] /\ h[p] = 2 /\ \A x \in Pkts \ {p} : h[x] = s[x]
    BY <1>2, <1>3, <1>6
<1> HIDE DEF h
<1>8. g \in [Pkts -> Int] /\ \A x \in Pkts : g[x] = IF x = e.q THEN h[x] - 1 ELSE h[x]
    BY <1>3, <1>7, Freed
<1> HIDE DEF g
<1>9. g[p] = 2
    BY <1>3, <1>7, <1>8
<1>10. \A x \in Pkts \ {p} : g[x] = IF x = o THEN ref[x] - 1 ELSE ref[x]
    BY <1>2, <1>3, <1>4, <1>6, <1>7, <1>8
<1>11. \A x \in Pkts \ {p} : ref'[x] = g[x]
    <2>1. CASE keep
        BY <1>5, <2>1, Zenon DEF Returned
    <2>2. CASE ~keep
        <3>1. ref' = pbuf_free(g, p)
            BY <1>5, <2>2, Zenon DEF Returned
        <3> QED BY <3>1, <1>8, Freed
    <2> QED BY <2>1, <2>2
<1>12. ref' \in [Pkts -> Int] /\ ref'[p] = IF keep THEN 2 ELSE 1
    <2>1. CASE keep
        BY <1>5, <1>8, <1>9, <2>1, Zenon DEF Returned
    <2>2. CASE ~keep
        <3>1. ref' = pbuf_free(g, p)
            BY <1>5, <2>2, Zenon DEF Returned
        <3>2. ref' \in [Pkts -> Int] /\ ref'[p] = g[p] - 1
            <4>1. pbuf_free(g, p) \in [Pkts -> Int] /\ pbuf_free(g, p)[p] = g[p] - 1
                BY <1>8, Freed
            <4> QED BY <3>1, <4>1, Zenon
        <3>3. 2 - 1 = 1
            OBVIOUS
        <3> QED BY <3>2, <3>3, <1>9, <2>2, Zenon
    <2> QED BY <2>1, <2>2
<1> QED BY <1>10, <1>11, <1>12 DEF o

\* A packet to a host without a stable entry is queued: the invariant holds
\* after etharp_query, and no packet goes out.
LEMMA QueryStep ==
    ASSUME Inv, NEW p \in Pkts, NEW ip \in Addresses, NEW keep \in BOOLEAN,
           Sending(p, ip, keep), OutputQuery(p, ip, [ref EXCEPT ![p] = 1], keep)
    PROVE  Inv' /\ RightHost' /\ SpacedStep
<1> DEFINE hop == NextHop(ip)
           i == etharp_find_entry(hop)
           e == Claimed(i, hop)
           n == [e EXCEPT !.state = "PENDING", !.q = p]
<1>1. /\ hop \in Lan /\ arp_table' = [arp_table EXCEPT ![i] = n] /\ out' = {}
      /\ ref' = QueriedRefs(i, hop, p, keep)
      /\ UNCHANGED <<etharp_cached_entry, requested>>
    BY DEF OutputQuery, QueriedRefs
<1>2. hop = NextHop(ip) /\ i = etharp_find_entry(hop) /\ e = Claimed(i, hop)
    OBVIOUS
<1>3. n = [e EXCEPT !.state = "PENDING", !.q = p]
    OBVIOUS
<1> HIDE DEF hop, i, e, n
<1>4. /\ i \in Entries /\ e \in Entry /\ e.ipaddr = hop
      /\ \A j \in Entries \ {i} : arp_table[j].state # "EMPTY" => arp_table[j].ipaddr # hop
      /\ \/ e = arp_table[i] /\ e.state # "EMPTY"
         \/ e = [Empty EXCEPT !.ipaddr = hop]
    BY <1>1, <1>2, ClaimFacts
<1>5. n \in Entry /\ n.state = "PENDING" /\ n.q = p /\ n.ipaddr = hop
    BY <1>3, <1>4 DEF Entry, States
<1>6. ~Held(p) /\ p # NoPbuf /\ UNCHANGED last /\ arp_table \in [Entries -> Entry]
    BY NamesAssumption DEF Sending, Inv, TypeOK, Entry
<1>7. /\ arp_table' \in [Entries -> Entry] /\ arp_table'[i] = n
      /\ \A j \in Entries \ {i} : arp_table'[j] = arp_table[j]
      /\ OneEntryPerHost' /\ OneHolder' /\ HolderPends' /\ OnLan'
      /\ \A x \in Pkts : Held(x)' <=> x = n.q \/ (Held(x) /\ x # arp_table[i].q)
    <2>1. /\ n.ipaddr \in Lan /\ n.state # "EMPTY"
          /\ \A j \in Entries \ {i} : arp_table[j].state # "EMPTY" => arp_table[j].ipaddr # n.ipaddr
        BY <1>1, <1>4, <1>5
    <2>2. n.q # NoPbuf => n.state = "PENDING" /\ (n.q = arp_table[i].q \/ ~Held(n.q))
        BY <1>5, <1>6
    <2> QED BY <2>1, <2>2, <1>1, <1>4, <1>5, Replaced
<1>8. /\ ref' \in [Pkts -> Int]
      /\ ref'[p] = IF keep THEN 2 ELSE 1
      /\ \A x \in Pkts \ {p} : ref'[x] = IF x = arp_table[i].q THEN ref[x] - 1 ELSE ref[x]
    <2>1. e.q = NoPbuf \/ e.q = arp_table[i].q
        BY <1>4 DEF Empty
    <2>2. i \in Entries /\ e = Claimed(i, hop) /\ ~Held(p)
        BY <1>2, <1>4, <1>6
    <2> QED BY <2>1, <2>2, <1>1, QueryRefs
<1>9. RefsCounted'
    <2> SUFFICES ASSUME NEW x \in Pkts
                 PROVE  ref'[x] = (IF x \in kept' THEN 1 ELSE 0) + (IF Held(x)' THEN 1 ELSE 0)
        BY DEF RefsCounted
    <2>1. CASE x = p
        <3>1. Held(x)' /\ (x \in kept' <=> keep)
            BY <2>1, <1>5, <1>7 DEF Sending
        <3> QED BY <3>1, <2>1, <1>8
    <2>2. CASE x # p
        <3>1. x \in kept' <=> x \in kept
            BY <2>2 DEF Sending
        <3>2. Held(x)' <=> Held(x) /\ x # arp_table[i].q
            BY <2>2, <1>5, <1>7
        <3>3. x = arp_table[i].q => Held(x)
            BY <1>4 DEF Held
        <3>4. ref[x] = (IF x \in kept THEN 1 ELSE 0) + (IF Held(x) THEN 1 ELSE 0)
            BY DEF Inv, RefsCounted
        <3>5. ref'[x] = IF x = arp_table[i].q THEN ref[x] - 1 ELSE ref[x]
            BY <2>2, <1>8
        <3> QED BY <3>1, <3>2, <3>3, <3>4, <3>5
    <2> QED BY <2>1, <2>2
<1>10. ref' \in [Pkts -> 0..2]
    BY <1>8, <1>9, RefsTyped
<1> DEFINE d == [dest EXCEPT ![p] = ip]
<1>11. d \in [Pkts -> Addresses] /\ dest' = Contents(d) /\ d[p] = ip
       /\ \A x \in Pkts \ {p} : d[x] = dest[x]
    BY Sent DEF Sending
<1>12. dest' \in [Pkts -> Addresses] /\ RightQueue'
    <2> HIDE DEF d
    <2>1. ASSUME NEW j \in Entries, arp_table'[j].q # NoPbuf
          PROVE  NextHop(d[arp_table'[j].q]) = arp_table'[j].ipaddr
        <3>1. CASE j = i
            BY <3>1, <1>2, <1>5, <1>7, <1>11
        <3>2. CASE j # i
            <4>1. arp_table'[j] = arp_table[j]
                BY <3>2, <1>7
            <4>2. arp_table[j].q \in Pkts \ {p}
                BY <2>1, <4>1, <1>6 DEF Entry, Held
            <4> QED BY <4>1, <4>2, <2>1, <1>11 DEF Inv, RightQueue
        <3> QED BY <3>1, <3>2
    <2> QED BY <2>1, <1>7, <1>9, <1>11, Headers, SameQueues
<1>13. Fresh'
    <2> SUFFICES ASSUME NEW j \in Entries, arp_table'[j].state \in Stable
                 PROVE  arp_table'[j].ethaddr = last[arp_table'[j].ipaddr]
        BY <1>6 DEF Fresh
    <2>1. j # i
        BY <1>5, <1>7 DEF Stable
    <2> QED BY <2>1, <1>7 DEF Inv, Fresh
<1>14. Spaced'
    <2> SUFFICES ASSUME NEW j \in Entries
                 PROVE  LET x == arp_table'[j] IN
                    /\ x.state = "REREQUESTING_2" => requested[x.ipaddr] >= 1
                    /\ x.state = "STABLE" =>
                          requested[x.ipaddr] >= 2 \/ requested[x.ipaddr] >= x.ctime
        BY <1>1 DEF Spaced
    <2> QED BY <1>5, <1>7 DEF Inv, Spaced
<1>15. TypeOK'
    <2>1. kept' \subseteq Pkts
        BY DEF Sending, Inv, TypeOK
    <2> QED BY <2>1, <1>1, <1>6, <1>7, <1>10, <1>12 DEF Inv, TypeOK, Entry
<1>16. RightHost' /\ SpacedStep
    BY <1>1 DEF RightHost, SpacedStep
<1> QED BY <1>7, <1>9, <1>12, <1>13, <1>14, <1>15, <1>16 DEF Inv

\* Both ways to send a new packet, udp_sendto and tcp_output, keep the
\* invariant.
LEMMA SendStep ==
    ASSUME Inv, NEW p \in Pkts, NEW ip \in Addresses,
           SendDatagram(p, ip) \/ SendSegment(p, ip)
    PROVE  Inv' /\ RightHost' /\ SpacedStep
<1>1. ref[p] = 0 /\ ~Held(p) /\ p \notin kept
    <2>1. ref[p] = 0
        BY DEF SendDatagram, SendSegment
    <2> QED BY <2>1 DEF Inv, RefsCounted
<1>2. CASE SendDatagram(p, ip)
    <2>1. Sending(p, ip, FALSE)
        BY <1>1, <1>2 DEF SendDatagram, Sending
    <2> QED BY <2>1, BroadcastStep, StableStep, QueryStep DEF Sending, etharp_output
<1>3. CASE SendSegment(p, ip)
    <2>1. Sending(p, ip, TRUE)
        BY <1>1, <1>3 DEF SendSegment, Sending
    <2> QED BY <2>1, BroadcastStep, StableStep, QueryStep DEF Sending, etharp_output
<1> QED BY <1>2, <1>3

\* A segment sent again keeps the invariant: its pbuf has left the table
\* before.
LEMMA ResendStep ==
    ASSUME Inv, NEW p \in Pkts, Resend(p)
    PROVE  Inv' /\ RightHost' /\ SpacedStep
<1>1. p \in kept /\ ref[p] = 1 /\ ~Held(p)
    BY DEF Inv, RefsCounted, Resend
<1>2. ref = [ref EXCEPT ![p] = 1] /\ dest = [dest EXCEPT ![p] = dest[p]] /\ kept = kept \cup {p}
      /\ dest[p] \in Addresses
    BY <1>1 DEF Inv, TypeOK
<1>3. Sending(p, dest[p], TRUE)
    BY <1>1, <1>2 DEF Resend, Sending
<1> QED BY <1>2, <1>3, BroadcastStep, StableStep, QueryStep DEF Sending, etharp_output

\* TCP frees an acknowledged segment: if the table holds it, it stays.
LEMMA AcknowledgedStep ==
    ASSUME Inv, NEW p \in Pkts, Acknowledged(p)
    PROVE  Inv' /\ RightHost' /\ SpacedStep
<1>1. /\ p \in kept /\ kept' = kept \ {p} /\ ref' = pbuf_free(ref, p) /\ out' = {}
      /\ dest' = Contents(dest)
      /\ UNCHANGED <<arp_table, etharp_cached_entry, last, requested>>
    BY DEF Acknowledged
<1>2. /\ ref \in [Pkts -> Int] /\ dest \in [Pkts -> Addresses]
      /\ arp_table' \in [Entries -> Entry] /\ kept' \subseteq Pkts
    BY <1>1 DEF Inv, TypeOK, Entry
<1>3. ref' \in [Pkts -> Int] /\ \A x \in Pkts : ref'[x] = IF x = p THEN ref[x] - 1 ELSE ref[x]
    BY <1>1, <1>2, Freed
<1>4. RefsCounted'
    <2> SUFFICES ASSUME NEW x \in Pkts
                 PROVE  ref'[x] = (IF x \in kept' THEN 1 ELSE 0) + (IF Held(x)' THEN 1 ELSE 0)
        BY DEF RefsCounted
    <2>1. ref[x] = (IF x \in kept THEN 1 ELSE 0) + (IF Held(x) THEN 1 ELSE 0)
        BY DEF Inv, RefsCounted
    <2>2. Held(x)' <=> Held(x)
        BY <1>1 DEF Held
    <2> QED BY <2>1, <2>2, <1>1, <1>3
<1>5. ref' \in [Pkts -> 0..2]
    BY <1>3, <1>4, RefsTyped
<1>6. dest' \in [Pkts -> Addresses] /\ RightQueue'
    BY <1>1, <1>2, <1>4, Headers, SameQueues DEF Inv, RightQueue
<1>7. TypeOK' /\ OneEntryPerHost' /\ OneHolder' /\ HolderPends' /\ OnLan' /\ Fresh' /\ Spaced'
    BY <1>1, <1>2, <1>5, <1>6
    DEF Inv, TypeOK, OneEntryPerHost, In, OneHolder, HolderPends, OnLan, Fresh, Spaced
<1> QED BY <1>1, <1>4, <1>6, <1>7 DEF Inv, RightHost, SpacedStep

-----------------------------------------------------------------------------
(* The timer.                                                              *)

\* What an entry e may have become when etharp_tmr has seen it.
AgedTo(e, n) ==
    \/ n = Empty
    \/ e.state = "EMPTY" /\ n = e
    \/ /\ e.state # "EMPTY" /\ n.state # "EMPTY"
       /\ n.ipaddr = e.ipaddr /\ n.ethaddr = e.ethaddr /\ n.q = e.q
       /\ n.ctime = e.ctime + 1
       /\ n.state = (CASE e.state = "REREQUESTING_1" -> "REREQUESTING_2"
                        [] e.state = "REREQUESTING_2" -> "STABLE"
                        [] OTHER -> e.state)

\* An entry that etharp_tmr meets is freed, or unused, or one tick older in
\* a state nearer to stable.
LEMMA AgedEntry ==
    ASSUME NEW e \in Entry
    PROVE  Aged(e) \in Entry /\ AgedTo(e, Aged(e))
<1>1. CASE e.state = "EMPTY"
    BY <1>1 DEF Aged, AgedTo
<1>2. CASE e.state # "EMPTY" /\ Expired(e)
    <2>1. Aged(e) = Empty
        BY <1>2 DEF Aged
    <2>2. Empty \in Entry
        BY AgesAssumption DEF Empty, Entry, States
    <2> QED BY <2>1, <2>2 DEF AgedTo
<1>3. CASE e.state # "EMPTY" /\ ~Expired(e)
    <2> DEFINE t == CASE e.state = "REREQUESTING_1" -> "REREQUESTING_2"
                      [] e.state = "REREQUESTING_2" -> "STABLE"
                      [] OTHER -> e.state
    <2>1. Aged(e) = [e EXCEPT !.ctime = e.ctime + 1, !.state = t]
        BY <1>3 DEF Aged
    <2>2. t \in States \ {"EMPTY"}
        BY <1>3 DEF Entry, States, Stable
    <2>3. e.ctime + 1 \in 0..(ARP_MAXAGE - 1)
        BY <1>3, AgesAssumption DEF Expired, Entry
    <2> HIDE DEF t
    <2>4. Aged(e) \in Entry /\ Aged(e).state = t /\ Aged(e).ctime = e.ctime + 1
          /\ Aged(e).ipaddr = e.ipaddr /\ Aged(e).ethaddr = e.ethaddr /\ Aged(e).q = e.q
        BY <2>1, <2>2, <2>3 DEF Entry
    <2> QED BY <2>2, <2>4, <1>3 DEF t, AgedTo
<1> QED BY <1>1, <1>2, <1>3

\* etharp_tmr keeps the invariant: each pbuf of a freed entry loses exactly
\* one reference, and each entry that is stable again was asked for two
\* ticks before.
LEMMA TimerStep ==
    ASSUME Inv, etharp_tmr
    PROVE  Inv' /\ RightHost' /\ SpacedStep
<1> DEFINE a(i) == arp_table'[i]
           b(i) == arp_table[i]
<1>1. /\ arp_table' = [i \in Entries |-> Aged(arp_table[i])] /\ out' = {}
      /\ ref' = [p \in Pkts |-> ref[p] - Cardinality(
                  {i \in Entries : arp_table[i].q = p /\ arp_table'[i].q = NoPbuf})]
      /\ dest' = Contents(dest)
      /\ requested' = [ip \in Lan |-> Min({2, requested[ip] + 1})]
      /\ UNCHANGED <<etharp_cached_entry, kept, last>>
    BY DEF etharp_tmr
<1>2. /\ ref \in [Pkts -> Int] /\ dest \in [Pkts -> Addresses]
      /\ arp_table \in [Entries -> Entry] /\ requested \in [Lan -> 0..2]
    BY DEF Inv, TypeOK, Entry
<1>3. \A i \in Entries : a(i) \in Entry /\ AgedTo(b(i), a(i))
    <2> SUFFICES ASSUME NEW i \in Entries
                 PROVE  a(i) \in Entry /\ AgedTo(b(i), a(i))
        OBVIOUS
    <2>1. arp_table'[i] = Aged(arp_table[i]) /\ arp_table[i] \in Entry
        BY <1>1, <1>2
    <2> QED BY <2>1, AgedEntry
<1>4. arp_table' \in [Entries -> Entry]
    BY <1>1, <1>3
<1>5. \A i \in Entries : /\ a(i).q = b(i).q \/ a(i).q = NoPbuf
                         /\ a(i).state # "EMPTY" => b(i).state # "EMPTY" /\ a(i).ipaddr = b(i).ipaddr
    BY <1>3 DEF Empty, AgedTo
<1> HIDE DEF a, b
<1>6. OneEntryPerHost'
    <2> SUFFICES ASSUME NEW i \in Entries, NEW j \in Entries, a(i).state # "EMPTY",
                        a(j).state # "EMPTY", a(i).ipaddr = a(j).ipaddr
                 PROVE  i = j
        BY DEF OneEntryPerHost, In, a
    <2>1. i \in In(States \ {"EMPTY"}) /\ j \in In(States \ {"EMPTY"})
        BY <1>2, <1>5 DEF In, Entry, b
    <2> QED BY <2>1, <1>5 DEF Inv, OneEntryPerHost, b
<1>7. OneHolder'
    BY <1>5 DEF Inv, OneHolder, a, b
<1>8. HolderPends'
    <2> SUFFICES ASSUME NEW i \in Entries, a(i).q # NoPbuf
                 PROVE  a(i).state = "PENDING"
        BY DEF HolderPends, a
    <2>1. b(i).q # NoPbuf /\ b(i).state = "PENDING"
        BY <1>5 DEF Inv, HolderPends, b
    <2> QED BY <2>1, <1>3 DEF Empty, AgedTo
<1>9. OnLan'
    BY <1>5 DEF Inv, OnLan, a, b
<1>10. ASSUME NEW p \in Pkts
       PROVE  /\ ref'[p] = (IF p \in kept THEN 1 ELSE 0) + (IF Held(p)' THEN 1 ELSE 0)
              /\ ref'[p] \in Int
    <2> DEFINE T == {i \in Entries : arp_table[i].q = p /\ arp_table'[i].q = NoPbuf}
    <2>1. T \subseteq Entries /\ \A i, j \in T : i = j
        BY NamesAssumption DEF Inv, OneHolder
    <2>2. Held(p)' <=> Held(p) /\ T = {}
        <3>1. Held(p)' <=> \E i \in Entries : arp_table'[i].q = p
            BY DEF Held
        <3>2. ASSUME Held(p)' PROVE Held(p) /\ T = {}
            <4>1. PICK i \in Entries : arp_table'[i].q = p
                BY <3>1, <3>2
            <4>2. arp_table[i].q = p
                BY <4>1, <1>5, NamesAssumption DEF a, b
            <4>3. \A j \in Entries : arp_table[j].q = p => j = i
                BY <4>2, NamesAssumption DEF Inv, OneHolder
            <4> QED BY <4>1, <4>2, <4>3, NamesAssumption DEF Held
        <3>3. ASSUME Held(p), T = {} PROVE Held(p)'
            <4>1. PICK i \in Entries : arp_table[i].q = p
                BY <3>3 DEF Held
            <4>2. arp_table'[i].q = p
                BY <4>1, <3>3, <1>5 DEF a, b
            <4> QED BY <3>1, <4>2
        <3> QED BY <3>2, <3>3
    <2>3. T # {} => Held(p)
        BY DEF Held
    <2>4. ref'[p] = ref[p] - Cardinality(T)
        BY <1>1
    <2> HIDE DEF T
    <2>5. Cardinality(T) = IF T = {} THEN 0 ELSE 1
        BY <2>1, CountOne
    <2>6. ref[p] = (IF p \in kept THEN 1 ELSE 0) + (IF Held(p) THEN 1 ELSE 0)
        BY DEF Inv, RefsCounted
    <2> QED BY <2>2, <2>3, <2>4, <2>5, <2>6
<1>11. RefsCounted'
    BY <1>1, <1>10 DEF RefsCounted
<1>12. ref' \in [Pkts -> 0..2]
    <2>1. ref' \in [Pkts -> Int]
        BY <1>1, <1>10
    <2> QED BY <2>1, <1>11, RefsTyped
<1>13. dest' \in [Pkts -> Addresses] /\ RightQueue'
    <2>1. ASSUME NEW j \in Entries, arp_table'[j].q # NoPbuf
          PROVE  NextHop(dest[arp_table'[j].q]) = arp_table'[j].ipaddr
        <3>1. b(j).q = a(j).q /\ a(j).q # NoPbuf
            BY <2>1, <1>5 DEF a
        <3>2. a(j).state # "EMPTY"
            BY <3>1, <1>3 DEF Empty, AgedTo, Inv, HolderPends, b
        <3> QED BY <3>1, <3>2, <1>5 DEF Inv, RightQueue, a, b
    <2> QED BY <2>1, <1>1, <1>2, <1>4, <1>11, Headers, SameQueues
<1>14. Fresh'
    <2> SUFFICES ASSUME NEW j \in Entries, a(j).state \in Stable
                 PROVE  a(j).ethaddr = last[a(j).ipaddr]
        BY <1>1 DEF Fresh, a
    <2>1. b(j).state \in Stable /\ a(j).ethaddr = b(j).ethaddr /\ a(j).ipaddr = b(j).ipaddr
        BY <1>3 DEF Stable, Empty, AgedTo
    <2> QED BY <2>1 DEF Inv, Fresh, b
<1>15. \A ip \in Lan : requested'[ip] = IF requested[ip] = 2 THEN 2 ELSE requested[ip] + 1
    <2> SUFFICES ASSUME NEW ip \in Lan
                 PROVE  requested'[ip] = IF requested[ip] = 2 THEN 2 ELSE requested[ip] + 1
        OBVIOUS
    <2>1. requested'[ip] = Min({2, requested[ip] + 1}) /\ requested[ip] \in 0..2
        BY <1>1, <1>2
    <2>2. {2, requested[ip] + 1} \subseteq Nat /\ {2, requested[ip] + 1} # {}
        BY <2>1
    <2>3. /\ Min({2, requested[ip] + 1}) \in {2, requested[ip] + 1}
          /\ \A y \in {2, requested[ip] + 1} : Min({2, requested[ip] + 1}) <= y
        BY <2>2, MinIn
    <2> QED BY <2>1, <2>3
<1>16. Spaced'
    <2> SUFFICES ASSUME NEW j \in Entries
                 PROVE  /\ a(j).state = "REREQUESTING_2" => requested'[a(j).ipaddr] >= 1
                        /\ a(j).state = "STABLE" => requested'[a(j).ipaddr] >= 2
                                                    \/ requested'[a(j).ipaddr] >= a(j).ctime
        BY DEF Spaced, a
    <2>1. CASE a(j).state \notin Stable
        BY <2>1 DEF Stable
    <2>2. CASE a(j).state \in Stable
        <3>1. /\ b(j).state \in Stable /\ a(j).ipaddr = b(j).ipaddr /\ a(j).ctime = b(j).ctime + 1
              /\ a(j).state = "REREQUESTING_2" => b(j).state = "REREQUESTING_1"
              /\ a(j).state = "STABLE" => b(j).state \in {"STABLE", "REREQUESTING_2"}
            BY <2>2, <1>3 DEF Stable, Empty, AgedTo
        <3>2. b(j).ipaddr \in Lan /\ b(j).ctime \in Nat
            BY <3>1, <1>2 DEF Inv, OnLan, b, Entry, Stable
        <3>3. /\ b(j).state = "REREQUESTING_2" => requested[b(j).ipaddr] >= 1
              /\ b(j).state = "STABLE" => requested[b(j).ipaddr] >= 2
                                          \/ requested[b(j).ipaddr] >= b(j).ctime
            BY DEF Inv, Spaced, b
        <3>4. requested[b(j).ipaddr] \in 0..2
              /\ requested'[b(j).ipaddr] = IF requested[b(j).ipaddr] = 2 THEN 2
                                           ELSE requested[b(j).ipaddr] + 1
            BY <3>2, <1>2, <1>15
        <3> QED BY <3>1, <3>2, <3>3, <3>4
    <2> QED BY <2>1, <2>2
<1>17. TypeOK'
    <2>1. requested' \in [Lan -> 0..2]
        <3>1. \A ip \in Lan : requested'[ip] \in 0..2
            BY <1>2, <1>15
        <3> QED BY <1>1, <3>1
    <2> QED BY <2>1, <1>1, <1>4, <1>12, <1>13 DEF Inv, TypeOK, Entry
<1>18. RightHost' /\ SpacedStep
    BY <1>1 DEF RightHost, SpacedStep
<1> QED BY <1>6, <1>7, <1>8, <1>9, <1>11, <1>13, <1>14, <1>16, <1>17, <1>18 DEF Inv

-----------------------------------------------------------------------------
(* The theorems.                                                           *)

-----------------------------------------------------------------------------
(* The theorems.                                                           *)

\* The empty table has the invariant.
LEMMA InitInv == Init => Inv /\ RightHost
<1> SUFFICES ASSUME Init PROVE Inv /\ RightHost
    OBVIOUS
<1>1. \A i \in Entries : arp_table[i] = Empty
    BY DEF Init
<1>2. Empty \in Entry /\ Empty.state = "EMPTY" /\ Empty.q = NoPbuf
    BY AgesAssumption DEF Empty, Entry, States
<1>3. TypeOK
    <2>1. arp_table \in [Entries -> Entry]
        BY <1>2 DEF Init
    <2> QED BY <2>1, EntriesNat DEF Init, TypeOK, Entry, Addresses
<1>4. OneEntryPerHost /\ OneHolder /\ HolderPends /\ OnLan /\ RightQueue /\ Fresh /\ Spaced
    BY <1>1, <1>2 DEF OneEntryPerHost, In, OneHolder, HolderPends, OnLan, RightQueue, Fresh,
                      Spaced, Stable
<1>5. RefsCounted
    <2>1. \A p \in Pkts : ~Held(p)
        BY <1>1, <1>2, NamesAssumption DEF Held
    <2> QED BY <2>1 DEF Init, RefsCounted
<1> QED BY <1>3, <1>4, <1>5 DEF Inv, Init, RightHost

\* Every step keeps the invariant, sends packets to the right host and
\* spaces requests.
LEMMA NextInv == Inv /\ Next => Inv' /\ RightHost' /\ SpacedStep
<1> SUFFICES ASSUME Inv, Next PROVE Inv' /\ RightHost' /\ SpacedStep
    OBVIOUS
<1>1. CASE \E p \in Pkts, ip \in Addresses : SendDatagram(p, ip) \/ SendSegment(p, ip)
    BY <1>1, SendStep
<1>2. CASE \E p \in Pkts : Resend(p) \/ Acknowledged(p)
    BY <1>2, ResendStep, AcknowledgedStep
<1>3. CASE \E sip \in Lan, for_us \in BOOLEAN : \E mac \in MacsOf[sip] :
              etharp_input(sip, mac, for_us)
    <2>1. PICK sip \in Lan, for_us \in BOOLEAN : \E mac \in MacsOf[sip] : etharp_input(sip, mac, for_us)
        BY <1>3
    <2>2. PICK mac \in MacsOf[sip] : etharp_input(sip, mac, for_us)
        BY <2>1
    <2>3. mac \in Macs
        BY NamesAssumption
    <2> QED BY <2>2, <2>3, InputStep
<1>4. CASE \E mac \in Macs : etharp_input(Broadcast, mac, TRUE)
    BY <1>4, InputStep
<1>5. CASE etharp_tmr
    BY <1>5, TimerStep
<1> QED BY <1>1, <1>2, <1>3, <1>4, <1>5 DEF Next

\* Nor does a step of something else disturb it.
LEMMA StutterInv == (Inv /\ RightHost) /\ UNCHANGED vars => (Inv /\ RightHost)'
BY DEF Inv, RightHost, vars, TypeOK, OneEntryPerHost, In, OneHolder, HolderPends, RefsCounted,
       Held, OnLan, RightQueue, Fresh, Spaced

\* The invariant holds for every table and every set of hosts and packets.
THEOREM InvHolds == Spec => [](Inv /\ RightHost)
<1>1. (Inv /\ RightHost) /\ [Next]_vars => (Inv /\ RightHost)'
    BY NextInv, StutterInv
<1> QED BY InitInv, <1>1, PTL DEF Spec

\* Every entry is in a state and at an age that etharp_tmr lets it have, and
\* no pbuf ever has more than two references (etharp.c:196-240).
THEOREM TableTyped == Spec => []TypeOK
<1>1. Inv => TypeOK
    BY DEF Inv
<1> QED BY <1>1, InvHolds, PTL

\* No host ever has two entries, so etharp_find_entry's first match is the
\* one that is used and updated (etharp.c:284-303).
THEOREM HostsHaveOneEntry == Spec => []OneEntryPerHost
<1>1. Inv => OneEntryPerHost
    BY DEF Inv
<1> QED BY <1>1, InvHolds, PTL

\* No path of etharp_query, etharp_update_arp_entry and etharp_tmr leaks a
\* queued packet or frees it twice, for any number of hosts and packets
\* (etharp.c:366, 933-1084).
THEOREM ReferencesExact == Spec => []RefsExact
BY InvRefs, InvHolds, PTL

\* Every frame goes to the hardware address that its next hop announced
\* last, whatever entries were recycled while it waited (etharp.c:482-489,
\* 862-887).
THEOREM PacketsReachTheirHost == Spec => []RightHost
BY InvHolds, PTL

\* Two requests for a stable entry are at least two ticks apart, for every
\* traffic (etharp.c:221).
THEOREM RequestsAreSpaced == Spec => RequestsSpaced
<1>1. Inv /\ [Next]_vars => [SpacedStep]_vars
    BY NextInv
<1>2. Spec => [][SpacedStep]_vars
    BY InvHolds, <1>1, PTL DEF Spec
<1> QED BY <1>2 DEF RequestsSpaced, SpacedStep
=============================================================================
