----------------------------- MODULE HttpdProofs -----------------------------
(***************************************************************************)
(* The invariants of Httpd and PbufsReturned, for every size of the send   *)
(* buffer, of the pool and of the files, and for every limit of the        *)
(* timers.                                                                 *)
(*                                                                         *)
(* The inductive invariant Inv says, of the pcb, the http_state, the pool, *)
(* the wire and the reasons taken together, who owns what (Own), how the   *)
(* queues lie (Order, Buffer), what was written of the file (Whole), why a *)
(* connection was closed or reset (Reasons), and between steps that all    *)
(* data was taken (Steady).  A function of the server takes and returns    *)
(* these five parts, so each one has a lemma on the shape of what it       *)
(* returns and one that Mid, the invariant inside a step, is kept; the     *)
(* lemmas on the actions put them together.                                *)
(***************************************************************************)
EXTENDS Httpd, FiniteSetTheorems, TLAPS

-----------------------------------------------------------------------------
(* Types.                                                                  *)

TcpStates == Active \cup {"CLOSED", "TIME_WAIT"}
Pcbs == [state : TcpStates, lastack : Nat, unsent : Nat, snd_lbb : Nat, fin : BOOLEAN,
         rcv_nxt : Nat, unread : Nat, rxclosed : BOOLEAN, closepend : BOOLEAN, cb : BOOLEAN,
         rtime : BOOLEAN, nrtx : Nat, idle : Nat, polltmr : Nat,
         wnd : BOOLEAN, persist : BOOLEAN, probe : Nat]
HttpStates == [used : BOOLEAN, handle : BOOLEAN, left : Nat, retries : Nat, req : Nat]
Wires == [top : Nat, fin : BOOLEAN, rst : BOOLEAN]

\* The server as its five parts.
Srv(p, h, k, w, y) == [pcb |-> p, hs |-> h, pool |-> k, wire |-> w, why |-> y]

Open == {"ESTABLISHED", "CLOSE_WAIT"}

\* What http_close_conn does to the pcb, then what a FIN does.
Unhooked(p) == [p EXCEPT !.cb = FALSE, !.polltmr = 0, !.rxclosed = TRUE]
Finned(p) == [p EXCEPT !.state = IF @ = "ESTABLISHED" THEN "FIN_WAIT_1" ELSE "LAST_ACK",
                       !.snd_lbb = @ + 1, !.fin = TRUE]

-----------------------------------------------------------------------------
(* What the server's functions return.                                     *)

\* Nothing allocated has its type.
LEMMA NoTypes == NoPcb \in Pcbs /\ NoState \in HttpStates /\ Silent \in Wires
PROOF BY DEF NoPcb, NoState, Silent, Pcbs, HttpStates, Wires, TcpStates

\* The parts of the server, and the server from its parts.
LEMMA Parts ==
    ASSUME NEW p, NEW h, NEW k, NEW w, NEW y
    PROVE  /\ Srv(p, h, k, w, y).pcb = p /\ Srv(p, h, k, w, y).hs = h
           /\ Srv(p, h, k, w, y).pool = k /\ Srv(p, h, k, w, y).wire = w
           /\ Srv(p, h, k, w, y).why = y
PROOF BY DEF Srv

PartNames == {"pcb", "hs", "pool", "wire", "why"}
IsSrv(s) == s = [x \in PartNames |-> s[x]]

\* A record with the five parts is the server they make.
LEMMA Rebuilt ==
    ASSUME NEW s, IsSrv(s)
    PROVE  s = Srv(s.pcb, s.hs, s.pool, s.wire, s.why)
PROOF BY DEF Srv, IsSrv, PartNames

\* The server is such a record.
LEMMA SrvDomain ==
    ASSUME NEW p, NEW h, NEW k, NEW w, NEW y
    PROVE  IsSrv(Srv(p, h, k, w, y)) /\ DOMAIN Srv(p, h, k, w, y) = PartNames
PROOF BY DEF Srv, IsSrv, PartNames

\* Fields of the two records.
LEMMA PcbFields ==
    ASSUME NEW p \in Pcbs
    PROVE  /\ p.state \in TcpStates /\ p.lastack \in Nat /\ p.unsent \in Nat /\ p.snd_lbb \in Nat
           /\ p.fin \in BOOLEAN /\ p.rcv_nxt \in Nat /\ p.unread \in Nat /\ p.rxclosed \in BOOLEAN
           /\ p.closepend \in BOOLEAN /\ p.cb \in BOOLEAN /\ p.rtime \in BOOLEAN /\ p.nrtx \in Nat
           /\ p.idle \in Nat /\ p.polltmr \in Nat /\ p.persist \in BOOLEAN /\ p.probe \in Nat
           /\ p.wnd \in BOOLEAN
PROOF BY DEF Pcbs

\* http_close_conn takes the callbacks away and leaves the queues alone.
LEMMA UnhookedFields ==
    ASSUME NEW p \in Pcbs
    PROVE  /\ Unhooked(p) \in Pcbs /\ Unhooked(p).state = p.state /\ Unhooked(p).lastack = p.lastack
           /\ Unhooked(p).unsent = p.unsent /\ Unhooked(p).snd_lbb = p.snd_lbb /\ Unhooked(p).fin = p.fin
           /\ Unhooked(p).rcv_nxt = p.rcv_nxt /\ Unhooked(p).unread = p.unread
           /\ Unhooked(p).rxclosed = TRUE /\ Unhooked(p).closepend = p.closepend
           /\ Unhooked(p).cb = FALSE /\ Unhooked(p).nrtx = p.nrtx /\ Unhooked(p).idle = p.idle
           /\ Unhooked(p).probe = p.probe
PROOF BY DEF Unhooked, Pcbs

\* A FIN adds one unit to what is written and moves the state on.
LEMMA FinnedFields ==
    ASSUME NEW p \in Pcbs, p.state \in Open
    PROVE  /\ Finned(p) \in Pcbs /\ Finned(p).lastack = p.lastack
           /\ Finned(p).state = (IF p.state = "ESTABLISHED" THEN "FIN_WAIT_1" ELSE "LAST_ACK")
           /\ Finned(p).unsent = p.unsent /\ Finned(p).snd_lbb = p.snd_lbb + 1 /\ Finned(p).fin = TRUE
           /\ Finned(p).rcv_nxt = p.rcv_nxt /\ Finned(p).unread = p.unread
           /\ Finned(p).rxclosed = p.rxclosed /\ Finned(p).closepend = p.closepend
           /\ Finned(p).cb = p.cb /\ Finned(p).nrtx = p.nrtx /\ Finned(p).idle = p.idle
           /\ Finned(p).probe = p.probe
PROOF
  <1>1. PICK x \in TcpStates : x = IF p.state = "ESTABLISHED" THEN "FIN_WAIT_1" ELSE "LAST_ACK"
    BY DEF TcpStates, Active
  <1>2. PICK n \in Nat : n = p.snd_lbb + 1  BY PcbFields
  <1>3. [p EXCEPT !.state = x, !.snd_lbb = n, !.fin = TRUE] \in Pcbs  BY Zenon DEF Pcbs
  <1>4. Finned(p) = [p EXCEPT !.state = x, !.snd_lbb = n, !.fin = TRUE]  BY <1>1, <1>2, Zenon DEF Finned
  <1>5. Finned(p) \in Pcbs  BY <1>3, <1>4, Zenon
  <1> QED  BY <1>5 DEF Finned, Pcbs

\* tcp_close_shutdown_fin: nothing, a close that waits, or a FIN.
Shut(p, h, k, w, y, mem) ==
    IF p.state \notin Open THEN Srv(p, h, k, w, y)
    ELSE IF mem = 0 /\ ~Pending(p) THEN Srv([p EXCEPT !.closepend = TRUE], h, k, w, y)
    ELSE Srv(Finned(p), h, k, w, y)

\* tcp_close_shutdown_fin: nothing, a close that waits, or a FIN.
LEMMA ShutdownShape ==
    ASSUME NEW p \in Pcbs, NEW h, NEW k, NEW w, NEW y, NEW mem
    PROVE  tcp_close_shutdown_fin(Srv(p, h, k, w, y), mem) = Shut(p, h, k, w, y, mem)
PROOF
  <1> DEFINE s == Srv(p, h, k, w, y)
             r == [s EXCEPT !.pcb.closepend = TRUE]
             f == [s EXCEPT !.pcb.state = IF @ = "ESTABLISHED" THEN "FIN_WAIT_1" ELSE "LAST_ACK",
                            !.pcb.snd_lbb = @ + 1, !.pcb.fin = TRUE]
  <1>1. r = Srv([p EXCEPT !.closepend = TRUE], h, k, w, y)
    <2>1. IsSrv(r)  BY SrvDomain, Zenon DEF IsSrv
    <2>2. r.pcb = [p EXCEPT !.closepend = TRUE] /\ r.hs = h /\ r.pool = k /\ r.wire = w /\ r.why = y
      BY SMT DEF Srv
    <2> HIDE DEF r
    <2> QED  BY <2>1, <2>2, Rebuilt, Zenon
  <1>2. f = Srv(Finned(p), h, k, w, y)
    <2>1. IsSrv(f)  BY SrvDomain, Zenon DEF IsSrv
    <2>2. f.pcb = Finned(p)  BY SMT DEF Srv, Finned
    <2>3. f.hs = h /\ f.pool = k /\ f.wire = w /\ f.why = y  BY SMT DEF Srv
    <2> HIDE DEF f
    <2> QED  BY <2>1, <2>2, <2>3, Rebuilt, Zenon
  <1>3. s.pcb = p  BY Parts
  <1>4. tcp_close_shutdown_fin(s, mem) =
          IF s.pcb.state \notin Open THEN s ELSE IF mem = 0 /\ ~Pending(s.pcb) THEN r ELSE f
    BY Zenon DEF tcp_close_shutdown_fin, Open
  <1> HIDE DEF s, r, f
  <1> QED  BY <1>1, <1>2, <1>3, <1>4, Zenon DEF s, Shut

\* http_close_conn, for a connection that is open: a RST, or a close that
\* waits for memory, or a FIN.
Resets(h, k, w, y, cause) == Srv(NoPcb, NoState, k - h.req, [w EXCEPT !.rst = TRUE], y \cup {cause})
Waits(p, h, k, w, y, cause) ==
    Srv([Unhooked(p) EXCEPT !.closepend = TRUE], NoState, k - h.req, w, y \cup {cause})
Ends(p, h, k, w, y, cause) == Srv(Finned(Unhooked(p)), NoState, k - h.req, w, y \cup {cause})

CloseForm(r, p, h, k, w, y, cause) ==
    \/ p.unread # 0 /\ r = Resets(h, k, w, y, cause)
    \/ p.unread = 0 /\ r = Waits(p, h, k, w, y, cause)
    \/ p.unread = 0 /\ r = Ends(p, h, k, w, y, cause)

\* http_close_conn: a reset when data was not taken, else a close that waits or a FIN.
LEMMA CloseShape ==
    ASSUME NEW p \in Pcbs, NEW h \in HttpStates, NEW k, NEW w, NEW y, NEW mem, NEW cause,
           p.state \in Open
    PROVE  CloseForm(http_close_conn(Srv(p, h, k, w, y), mem, cause), p, h, k, w, y, cause)
PROOF
  <1> DEFINE s == Srv(p, h, k, w, y)
             m == k - h.req
             s1 == Srv(p, NoState, m, w, y)
             z == y \cup {cause}
             s2 == Srv([p EXCEPT !.cb = FALSE, !.polltmr = 0], NoState, m, w, z)
             s3 == Srv(Unhooked(p), NoState, m, w, z)
  <1>1. http_state_free(s) = s1
    <2> DEFINE r == [s EXCEPT !.hs = NoState, !.pool = @ - s.hs.req]
    <2>1. IsSrv(r)  BY SrvDomain, Zenon DEF IsSrv
    <2>2. r.hs = NoState /\ r.pcb = p /\ r.wire = w /\ r.why = y  BY SMT DEF Srv
    <2>3. r.pool = m
      <3>1. r.pool = s.pool - s.hs.req  BY SMT DEF Srv
      <3>2. s.pool = k /\ s.hs = h  BY SMT DEF Srv
      <3> QED  BY <3>1, <3>2, Zenon
    <2>4. r = http_state_free(s)  BY Zenon DEF http_state_free
    <2> HIDE DEF r
    <2> QED  BY <2>1, <2>2, <2>3, <2>4, Rebuilt, Zenon
  <1>2. [s1 EXCEPT !.pcb.cb = FALSE, !.pcb.polltmr = 0, !.why = @ \cup {cause}] = s2
    <2> DEFINE r == [s1 EXCEPT !.pcb.cb = FALSE, !.pcb.polltmr = 0, !.why = @ \cup {cause}]
    <2>1. IsSrv(r)  BY SrvDomain, Zenon DEF IsSrv
    <2>2. r.pcb = [p EXCEPT !.cb = FALSE, !.polltmr = 0]  BY SMT DEF Srv
    <2>3. r.hs = NoState /\ r.pool = m /\ r.wire = w  BY SMT DEF Srv
    <2>4. r.why = z  BY SMT DEF Srv
    <2> HIDE DEF r, m, z
    <2>5. r = s2  BY <2>1, <2>2, <2>3, <2>4, Rebuilt, Zenon
    <2> QED  BY <2>5, Zenon DEF r
  <1>3. http_close_conn(s, mem, cause) = tcp_close(s2, mem)
    BY <1>1, <1>2, Zenon DEF http_close_conn
  <1>4. [s2 EXCEPT !.pcb.rxclosed = TRUE] = s3
    <2> DEFINE r == [s2 EXCEPT !.pcb.rxclosed = TRUE]
    <2>1. IsSrv(r)  BY SrvDomain, Zenon DEF IsSrv
    <2>2. r.pcb = Unhooked(p)  BY SMT DEF Srv, Unhooked
    <2>3. r.hs = NoState /\ r.pool = m /\ r.wire = w /\ r.why = z  BY SMT DEF Srv
    <2> HIDE DEF r, m, z
    <2>4. r = s3  BY <2>1, <2>2, <2>3, Rebuilt, Zenon
    <2> QED  BY <2>4, Zenon DEF r
  <1>5. [s3 EXCEPT !.pcb = NoPcb, !.wire.rst = TRUE] = Resets(h, k, w, y, cause)
    <2> DEFINE r == [s3 EXCEPT !.pcb = NoPcb, !.wire.rst = TRUE]
    <2>1. IsSrv(r)  BY SrvDomain, Zenon DEF IsSrv
    <2>2. r.pcb = NoPcb /\ r.hs = NoState /\ r.pool = m /\ r.why = z  BY SMT DEF Srv
    <2>3. r.wire = [w EXCEPT !.rst = TRUE]  BY SMT DEF Srv
    <2> HIDE DEF r
    <2>4. r = Resets(h, k, w, y, cause)  BY <2>1, <2>2, <2>3, Rebuilt, Zenon DEF Resets
    <2> QED  BY <2>4, Zenon DEF r
  <1> HIDE DEF m, z
  <1>6. /\ s3.pcb = Unhooked(p)
        /\ Unhooked(p).state = p.state /\ Unhooked(p).unread = p.unread /\ Unhooked(p) \in Pcbs
    <2>1. s3.pcb = Unhooked(p)  BY SMT DEF Srv
    <2> QED  BY <2>1, UnhookedFields, Zenon
  <1>7. tcp_close(s2, mem) = IF s3.pcb.state \in Open /\ s3.pcb.unread # 0
                            THEN [s3 EXCEPT !.pcb = NoPcb, !.wire.rst = TRUE]
                            ELSE tcp_close_shutdown_fin(s3, mem)
    BY <1>4, Zenon DEF tcp_close, Open
  <1>8. \/ tcp_close_shutdown_fin(s3, mem) = Waits(p, h, k, w, y, cause)
        \/ tcp_close_shutdown_fin(s3, mem) = Ends(p, h, k, w, y, cause)
    <2>1. PICK q \in Pcbs : q = Unhooked(p)  BY <1>6
    <2>2. tcp_close_shutdown_fin(Srv(q, NoState, m, w, z), mem) = Shut(q, NoState, m, w, z, mem)
      BY ShutdownShape, Zenon
    <2>3. q.state \in Open  BY <1>6, <2>1, Zenon
    <2> QED  BY <2>1, <2>2, <2>3, Zenon DEF Waits, Ends, Shut, m, z
  <1> HIDE DEF s, s2, s3
  <1>9. CASE p.unread # 0  BY <1>3, <1>5, <1>6, <1>7, <1>9, Zenon DEF s, CloseForm
  <1>10. CASE p.unread = 0  BY <1>3, <1>6, <1>7, <1>8, <1>10, Zenon DEF s, CloseForm
  <1> QED  BY <1>9, <1>10, Zenon

-----------------------------------------------------------------------------
(* The invariant, of the five parts.                                       *)

Early == {"gave up", "refused", "client closed"}
Told == {"refused", "no memory", "gave up", "lost", "client reset"}
Fins == {"FIN_WAIT_1", "FIN_WAIT_2", "CLOSING", "LAST_ACK", "TIME_WAIT"}

\* What ResetExplained allows for.
Excused(y) == client.fin \/ client.snd > ReqLen + 1 \/ y \cap Told # {}

\* The callbacks and the http_state go together.
Own(p, h) ==
    /\ h.used = p.cb
    /\ p.cb => p.state \in Open /\ ~p.rxclosed /\ ~p.closepend
    /\ ~p.cb => h = NoState

\* The queues, and what was sent of them.
Order(p, w) ==
    /\ p.lastack <= p.unsent /\ p.unsent <= p.snd_lbb /\ client.rcv <= w.top
    /\ p.state = "CLOSED" => p = NoPcb
    /\ p.state # "CLOSED" => p.unsent <= w.top /\ w.top <= p.snd_lbb /\ 1 <= p.snd_lbb
    /\ p.state # "CLOSED" /\ w.fin => p.fin /\ w.top = p.snd_lbb
    /\ p.state \in {"FIN_WAIT_2", "TIME_WAIT"} => w.top = p.snd_lbb
    /\ p.fin <=> p.state \in Fins

Buffer(p) == p.state \in Active => Queued(p) <= TCP_SND_BUF

Bounds(p, h) ==
    /\ p.nrtx <= TCP_MAXRTX /\ p.idle <= TCP_TIMEOUT + 1 /\ p.probe <= TCP_MAXRTX
    /\ h.retries < HTTPD_MAX_RETRIES /\ h.req <= LWIP_HTTPD_REQ_QUEUELEN

\* What is written: the SYN, the file as far as it is written, and a FIN only
\* after all of it.
Whole(p, h, w, y) ==
    /\ p.cb /\ h.handle => client.ask \in Nat /\ h.left + p.snd_lbb = client.ask + 1
    /\ p.cb /\ ~h.handle => p.snd_lbb = 1
    /\ p.state = "SYN_RCVD" => p.snd_lbb = 1 /\ ~p.rxclosed /\ ~p.closepend /\ p.unread = 0
    /\ ~p.cb /\ p.state \notin {"CLOSED", "SYN_RCVD"} /\ y \cap Early = {} =>
          client.ask \in Nat /\ p.snd_lbb = client.ask + (IF p.fin THEN 2 ELSE 1)
    /\ w.fin /\ y \cap Early = {} => client.ask \in Nat /\ w.top = client.ask + 2

\* Why the server stopped taking data, or forgot the connection.
Reasons(p, h, w, y) ==
    /\ p.cb /\ h.handle => p.rcv_nxt > ReqLen
    /\ ~p.cb /\ p.state \notin {"CLOSED", "SYN_RCVD"} =>
          p.rxclosed /\ (p.rcv_nxt > ReqLen \/ Excused(y))
    /\ p.state \in {"CLOSE_WAIT", "LAST_ACK", "CLOSING", "TIME_WAIT"} => client.fin
    /\ p.state = "CLOSED" => Excused(y) \/ "listening" \in y
    /\ w.rst => Excused(y)
    /\ "listening" \in y => y = {"listening"} /\ p = NoPcb /\ w = Silent
    /\ p.cb \/ p.state = "SYN_RCVD" => y = {}

Mid(p, h, k, w, y) ==
    /\ Own(p, h) /\ Order(p, w) /\ Buffer(p) /\ Bounds(p, h)
    /\ Whole(p, h, w, y) /\ Reasons(p, h, w, y) /\ k >= h.req

\* Between steps the callbacks are those of an established connection that has
\* taken all it received.
Steady(p) == p.cb => p.state = "ESTABLISHED" /\ p.unread = 0

Typed ==
    /\ pcb \in Pcbs /\ hs \in HttpStates /\ pool \in Int /\ wire \in Wires /\ why \subseteq Causes
    /\ client \in [snd : Nat, fin : BOOLEAN, rcv : Nat, ask : Answers]

Inv == Typed /\ Mid(pcb, hs, pool, wire, why) /\ Steady(pcb)

\* Fields of the empty records.
LEMMA NoFields ==
    /\ NoPcb.state = "CLOSED" /\ NoPcb.lastack = 0 /\ NoPcb.unsent = 0 /\ NoPcb.snd_lbb = 0
    /\ NoPcb.fin = FALSE /\ NoPcb.cb = FALSE /\ NoPcb.nrtx = 0 /\ NoPcb.idle = 0 /\ NoPcb.closepend = FALSE
    /\ NoPcb.probe = 0
    /\ NoState.used = FALSE /\ NoState.retries = 0 /\ NoState.req = 0 /\ NoState.left = 0
PROOF BY DEF NoPcb, NoState

\* Fields of an http_state.
LEMMA HsFields ==
    ASSUME NEW h \in HttpStates
    PROVE  /\ h.used \in BOOLEAN /\ h.handle \in BOOLEAN /\ h.left \in Nat
           /\ h.retries \in Nat /\ h.req \in Nat
PROOF BY DEF HttpStates

\* Fields of what was sent.
LEMMA WireFields ==
    ASSUME NEW w \in Wires
    PROVE  w.top \in Nat /\ w.fin \in BOOLEAN /\ w.rst \in BOOLEAN
PROOF BY DEF Wires

\* The constants are numbers, and all but two of them positive.
LEMMA Sizes ==
    /\ TCP_SND_BUF \in Nat /\ TCP_SND_BUF > 0 /\ TCP_MAXRTX \in Nat /\ TCP_MAXRTX > 0
    /\ HTTPD_MAX_RETRIES \in Nat /\ HTTPD_MAX_RETRIES > 0
    /\ HTTPD_POLL_INTERVAL \in Nat /\ HTTPD_POLL_INTERVAL > 0
    /\ LWIP_HTTPD_REQ_QUEUELEN \in Nat /\ LWIP_HTTPD_REQ_QUEUELEN > 0
    /\ PBUF_POOL_SIZE \in Nat /\ PBUF_POOL_SIZE > 0 /\ ReqLen \in Nat /\ ReqLen > 0
    /\ LWIP_HTTPD_REQ_BUFSIZE \in Nat /\ LineLen \in Nat /\ LineLen <= ReqLen
    /\ TCP_TIMEOUT \in Nat /\ MaxSend \in Nat
PROOF BY ConstantsAssumption

\* A RST, if any, is all that is sent when a pcb goes.
LEMMA RstSent ==
    ASSUME NEW w \in Wires
    PROVE  /\ [w EXCEPT !.rst = TRUE] \in Wires
           /\ [w EXCEPT !.rst = TRUE].top = w.top /\ [w EXCEPT !.rst = TRUE].fin = w.fin
           /\ [w EXCEPT !.rst = TRUE].rst = TRUE
PROOF
  <1>1. [w EXCEPT !.rst = TRUE] \in Wires  BY Zenon DEF Wires
  <1> QED  BY <1>1 DEF Wires

\* The pcb goes for a reason.
LEMMA GoneKeeps ==
    ASSUME NEW p \in Pcbs, NEW h \in HttpStates, NEW k \in Int, NEW w \in Wires, NEW y,
           Mid(p, h, k, w, y), NEW v \in Wires, NEW z, y \subseteq z, "listening" \notin z, Excused(z),
           v.top = w.top, v.fin = w.fin
    PROVE  Mid(NoPcb, NoState, k - h.req, v, z)
PROOF
  <1>1. Own(NoPcb, NoState)  BY NoFields, Zenon DEF Own
  <1>2. Order(NoPcb, v)
    <2>1. client.rcv <= v.top  BY Zenon DEF Mid, Order
    <2>2. NoPcb.state \notin Fins /\ NoPcb.state \notin {"FIN_WAIT_2", "TIME_WAIT"}  BY NoFields DEF Fins
    <2>3. NoPcb.lastack <= NoPcb.unsent /\ NoPcb.unsent <= NoPcb.snd_lbb  BY NoFields
    <2> QED  BY <2>1, <2>2, <2>3, NoFields, Zenon DEF Order
  <1>3. Buffer(NoPcb)  BY NoFields DEF Buffer, Active
  <1>4. Bounds(NoPcb, NoState)  BY NoFields, Sizes DEF Bounds
  <1>5. Whole(NoPcb, NoState, v, z)
    <2>1. w.fin /\ y \cap Early = {} => client.ask \in Nat /\ w.top = client.ask + 2
      BY Zenon DEF Mid, Whole
    <2>2. z \cap Early = {} => y \cap Early = {}  BY Zenon
    <2>3. NoPcb.state # "SYN_RCVD"  BY NoFields
    <2>4. v.fin /\ z \cap Early = {} => client.ask \in Nat /\ v.top = client.ask + 2
      BY <2>1, <2>2, Zenon
    <2>5. NoPcb.state \in {"CLOSED", "SYN_RCVD"} /\ ~NoPcb.cb  BY NoFields
    <2> QED  BY <2>3, <2>4, <2>5, Zenon DEF Whole
  <1>6. Reasons(NoPcb, NoState, v, z)
    <2>1. NoPcb.state \notin {"CLOSE_WAIT", "LAST_ACK", "CLOSING", "TIME_WAIT"}  BY NoFields
    <2>2. NoPcb.state \in {"CLOSED", "SYN_RCVD"} /\ ~NoPcb.cb  BY NoFields
    <2>3. NoPcb.state # "SYN_RCVD"  BY NoFields
    <2> QED  BY <2>1, <2>2, <2>3, Zenon DEF Reasons
  <1>7. k - h.req >= NoState.req
    <2>1. k >= h.req  BY Zenon DEF Mid
    <2> QED  BY <2>1, NoFields, HsFields
  <1> QED  BY <1>1, <1>2, <1>3, <1>4, <1>5, <1>6, <1>7, Zenon DEF Mid

\* The data in the send buffer does not depend on the other fields, and a FIN
\* is no data.
LEMMA QueuedSame ==
    ASSUME NEW p, NEW q, q.lastack = p.lastack, q.snd_lbb = p.snd_lbb, q.fin = p.fin
    PROVE  Queued(q) = Queued(p)
PROOF BY Zenon DEF Queued

\* A FIN takes no room in the send buffer.
LEMMA QueuedFin ==
    ASSUME NEW p \in Pcbs, NEW q \in Pcbs, q.lastack = p.lastack, q.snd_lbb = p.snd_lbb + 1,
           q.fin, ~p.fin, p.lastack <= p.snd_lbb
    PROVE  Queued(q) = Queued(p)
PROOF
  <1>1. p.lastack \in Nat /\ p.snd_lbb \in Nat  BY PcbFields
  <1>2. {u \in q.lastack..(q.snd_lbb - 1) : u # 0 /\ ~(q.fin /\ u = q.snd_lbb - 1)}
          = {u \in p.lastack..(p.snd_lbb - 1) : u # 0 /\ ~(p.fin /\ u = p.snd_lbb - 1)}
    BY <1>1
  <1> QED  BY <1>2, Zenon DEF Queued

\* When a connection may be closed for a cause.
CloseDue(p, cause) ==
    /\ cause \in Causes \ {"listening"}
    /\ cause \in Early \/ (client.ask \in Nat /\ p.snd_lbb = client.ask + 1)
    /\ cause \in Told \/ client.fin \/ p.rcv_nxt > ReqLen

\* The callbacks go, and the http_state with its request.
LEMMA UnhookKeeps ==
    ASSUME NEW p \in Pcbs, NEW h \in HttpStates, NEW k \in Int, NEW w \in Wires, NEW y,
           Mid(p, h, k, w, y), p.cb, NEW cause, CloseDue(p, cause)
    PROVE  Mid(Unhooked(p), NoState, k - h.req, w, y \cup {cause})
PROOF
  <1> DEFINE z == y \cup {cause}
  <1>1. PICK q \in Pcbs : q = Unhooked(p)  BY UnhookedFields
  <1>3. /\ q.state = p.state /\ q.lastack = p.lastack /\ q.unsent = p.unsent /\ q.snd_lbb = p.snd_lbb
        /\ q.rcv_nxt = p.rcv_nxt /\ q.nrtx = p.nrtx /\ q.idle = p.idle /\ q.probe = p.probe /\ q.fin = p.fin
        /\ q.cb = FALSE /\ q.rxclosed = TRUE
    BY <1>1, UnhookedFields, Zenon
  <1>4. p.state \in Open /\ p.state \notin Fins /\ p.state \notin {"CLOSED", "SYN_RCVD"}
    <2>1. p.state \in Open  BY Zenon DEF Mid, Own
    <2> QED  BY <2>1 DEF Open, Fins
  <1>5. ~p.fin /\ ~w.fin /\ "listening" \notin y
    <2>1. ~p.fin  BY <1>4, Zenon DEF Mid, Order
    <2>2. ~w.fin  BY <1>4, <2>1, Zenon DEF Mid, Order
    <2>3. "listening" \notin y  BY <1>4, NoFields, Zenon DEF Mid, Reasons
    <2> QED  BY <2>1, <2>2, <2>3
  <1>6. Own(q, NoState)  BY <1>3, NoFields, Zenon DEF Own
  <1>7. Order(q, w)
    <2>1. p.state # "CLOSED" /\ p.state \notin {"FIN_WAIT_2", "TIME_WAIT"}  BY <1>4 DEF Open
    <2> QED  BY <1>3, <2>1, Zenon DEF Mid, Order
  <1>8. Buffer(q)
    <2>1. Queued(q) = Queued(p)  BY <1>3, QueuedSame, Zenon
    <2> QED  BY <1>3, <2>1, Zenon DEF Mid, Buffer
  <1>9. Bounds(q, NoState)
    <2>1. NoState.retries < HTTPD_MAX_RETRIES /\ NoState.req <= LWIP_HTTPD_REQ_QUEUELEN  BY NoFields, Sizes
    <2> QED  BY <1>3, <2>1, Zenon DEF Mid, Bounds
  <1>10. Whole(q, NoState, w, z)
    <2>1. z \cap Early = {} => client.ask \in Nat /\ p.snd_lbb = client.ask + 1
      BY Zenon DEF CloseDue
    <2>2. p.state # "SYN_RCVD"  BY <1>4
    <2>3. z \cap Early = {} => q.snd_lbb = client.ask + (IF q.fin THEN 2 ELSE 1)
      BY <1>3, <1>5, <2>1, Zenon
    <2> QED  BY <1>3, <1>5, <2>1, <2>2, <2>3, Zenon DEF Whole
  <1>11. Reasons(q, NoState, w, z)
    <2>1. p.rcv_nxt > ReqLen \/ Excused(z)
      BY Zenon DEF CloseDue, Excused
    <2>2. "listening" \notin z  BY <1>5, Zenon DEF CloseDue
    <2>3. Excused(y) => Excused(z)  BY Zenon DEF Excused
    <2>4. p.state # "CLOSED" /\ p.state # "SYN_RCVD"  BY <1>4
    <2> QED  BY <1>3, <2>1, <2>2, <2>3, <2>4, Zenon DEF Mid, Reasons
  <1>12. k - h.req >= NoState.req
    <2>1. k >= h.req  BY Zenon DEF Mid
    <2> QED  BY <2>1, NoFields, HsFields
  <1>13. Mid(q, NoState, k - h.req, w, z)
    BY <1>6, <1>7, <1>8, <1>9, <1>10, <1>11, <1>12, Zenon DEF Mid
  <1> QED  BY <1>1, <1>13, Zenon

\* A close that waits for memory, or does not any more.
Pended(p, b) == [p EXCEPT !.closepend = b]

\* Remembering the close, or forgetting that it waits, keeps the invariant.
LEMMA PendKeeps ==
    ASSUME NEW p \in Pcbs, NEW h \in HttpStates, NEW k \in Int, NEW w \in Wires, NEW y,
           Mid(p, h, k, w, y), ~p.cb, p.state \notin {"CLOSED", "SYN_RCVD"}, NEW b \in BOOLEAN
    PROVE  /\ Pended(p, b) \in Pcbs /\ Mid(Pended(p, b), h, k, w, y)
           /\ Pended(p, b).cb = p.cb /\ Pended(p, b).state = p.state /\ Pended(p, b).unread = p.unread
PROOF
  <1>1. Pended(p, b) \in Pcbs  BY Zenon DEF Pcbs, Pended
  <1>2. PICK q \in Pcbs : q = Pended(p, b)  BY <1>1
  <1>3. /\ q.state = p.state /\ q.lastack = p.lastack /\ q.unsent = p.unsent /\ q.snd_lbb = p.snd_lbb
        /\ q.rcv_nxt = p.rcv_nxt /\ q.nrtx = p.nrtx /\ q.idle = p.idle /\ q.probe = p.probe
        /\ q.fin = p.fin /\ q.cb = p.cb /\ q.rxclosed = p.rxclosed /\ q.unread = p.unread
    BY <1>2, SMT DEF Pcbs, Pended
  <1>4. p.state # "CLOSED" /\ p.state # "SYN_RCVD"  OBVIOUS
  <1>5. Own(q, h)  BY <1>3, Zenon DEF Mid, Own
  <1>6. Order(q, w)  BY <1>3, <1>4, Zenon DEF Mid, Order
  <1>7. Buffer(q)
    <2>1. Queued(q) = Queued(p)  BY <1>3, QueuedSame, Zenon
    <2> QED  BY <1>3, <2>1, Zenon DEF Mid, Buffer
  <1>8. Bounds(q, h)  BY <1>3, Zenon DEF Mid, Bounds
  <1>9. Whole(q, h, w, y)  BY <1>3, <1>4, Zenon DEF Mid, Whole
  <1>10. Reasons(q, h, w, y)
    <2>1. "listening" \notin y  BY <1>4, NoFields, Zenon DEF Mid, Reasons
    <2> QED  BY <1>3, <1>4, <2>1, Zenon DEF Mid, Reasons
  <1>11. Mid(q, h, k, w, y)  BY <1>5, <1>6, <1>7, <1>8, <1>9, <1>10, Zenon DEF Mid
  <1> QED  BY <1>2, <1>3, <1>11, Zenon

\* A FIN.
LEMMA FinKeeps ==
    ASSUME NEW p \in Pcbs, NEW h \in HttpStates, NEW k \in Int, NEW w \in Wires, NEW y,
           Mid(p, h, k, w, y), ~p.cb, p.state \in Open
    PROVE  /\ Finned(p) \in Pcbs /\ Mid(Finned(p), h, k, w, y)
           /\ Finned(p).cb = p.cb /\ Finned(p).state \in {"FIN_WAIT_1", "LAST_ACK"}
PROOF
  <1>1. PICK q \in Pcbs : q = Finned(p)  BY FinnedFields
  <1>3. /\ q.state = (IF p.state = "ESTABLISHED" THEN "FIN_WAIT_1" ELSE "LAST_ACK")
        /\ q.lastack = p.lastack /\ q.unsent = p.unsent /\ q.snd_lbb = p.snd_lbb + 1
        /\ q.rcv_nxt = p.rcv_nxt /\ q.nrtx = p.nrtx /\ q.idle = p.idle /\ q.probe = p.probe /\ q.fin = TRUE
        /\ q.cb = p.cb /\ q.rxclosed = p.rxclosed
    BY <1>1, FinnedFields, Zenon
  <1>4. /\ p.state \notin Fins /\ p.state \notin {"CLOSED", "SYN_RCVD"}
        /\ q.state \in {"FIN_WAIT_1", "LAST_ACK"} /\ q.state \in Fins
        /\ q.state \notin {"CLOSED", "SYN_RCVD"} /\ q.state \notin {"FIN_WAIT_2", "TIME_WAIT"}
        /\ q.state # "CLOSED" /\ q.state # "SYN_RCVD" /\ p.state # "CLOSED"
        /\ (q.state \in {"CLOSE_WAIT", "LAST_ACK", "CLOSING", "TIME_WAIT"} => p.state = "CLOSE_WAIT")
    BY <1>3 DEF Open, Fins
  <1>5. ~p.fin /\ ~w.fin /\ "listening" \notin y
    <2>1. ~p.fin  BY <1>4, Zenon DEF Mid, Order
    <2>3. ~w.fin  BY <2>1, <1>4, Zenon DEF Mid, Order
    <2>4. "listening" \notin y  BY <1>4, NoFields, Zenon DEF Mid, Reasons
    <2> QED  BY <2>1, <2>3, <2>4
  <1>6. Own(q, h)  BY <1>3, Zenon DEF Mid, Own
  <1>7. Order(q, w)
    <2>1. /\ p.lastack <= p.unsent /\ p.unsent <= p.snd_lbb /\ client.rcv <= w.top
          /\ p.unsent <= w.top /\ w.top <= p.snd_lbb /\ 1 <= p.snd_lbb
      BY <1>4, Zenon DEF Mid, Order
    <2>2. q.lastack <= q.unsent /\ q.unsent <= q.snd_lbb /\ w.top <= q.snd_lbb /\ 1 <= q.snd_lbb /\ q.unsent <= w.top
      BY <1>3, <2>1, PcbFields, WireFields
    <2> QED  BY <1>3, <1>4, <1>5, <2>1, <2>2, Zenon DEF Order
  <1>8. Buffer(q)
    <2>1. p.lastack <= p.snd_lbb
      <3>1. p.lastack <= p.unsent /\ p.unsent <= p.snd_lbb  BY Zenon DEF Mid, Order
      <3> QED  BY <3>1, PcbFields
    <2>2. Queued(q) = Queued(p)  BY <1>3, <1>5, <2>1, QueuedFin
    <2>3. p.state \in Active  BY DEF Open, Active
    <2> QED  BY <2>2, <2>3, Zenon DEF Mid, Buffer
  <1>9. Bounds(q, h)  BY <1>3, Zenon DEF Mid, Bounds
  <1>10. Whole(q, h, w, y)
    <2>1. y \cap Early = {} => client.ask \in Nat /\ p.snd_lbb = client.ask + 1
      <3>1. y \cap Early = {} => client.ask \in Nat /\ p.snd_lbb = client.ask + (IF p.fin THEN 2 ELSE 1)
        BY <1>4, Zenon DEF Mid, Whole
      <3> QED  BY <1>5, <3>1, Zenon
    <2>2. y \cap Early = {} => q.snd_lbb = client.ask + 2
      BY <1>3, <2>1
    <2>3. y \cap Early = {} => q.snd_lbb = client.ask + (IF q.fin THEN 2 ELSE 1)
      BY <1>3, <2>2, Zenon
    <2> QED  BY <1>3, <1>4, <1>5, <2>1, <2>3, Zenon DEF Whole
  <1>11. Reasons(q, h, w, y)
    <2>4. p.state = "CLOSE_WAIT" => client.fin  BY Zenon DEF Mid, Reasons
    <2> QED  BY <1>3, <1>4, <1>5, <2>4, Zenon DEF Mid, Reasons
  <1>12. Mid(q, h, k, w, y)  BY <1>6, <1>7, <1>8, <1>9, <1>10, <1>11, Zenon DEF Mid
  <1> QED  BY <1>1, <1>3, <1>4, <1>12, Zenon

-----------------------------------------------------------------------------
(* The functions of the server keep the invariant of its parts.            *)

Good(r) ==
    /\ IsSrv(r) /\ r.pcb \in Pcbs /\ r.hs \in HttpStates /\ r.pool \in Int
    /\ r.wire \in Wires /\ r.why \subseteq Causes
    /\ Mid(r.pcb, r.hs, r.pool, r.wire, r.why)

\* A server whose parts keep the invariant is good.
LEMMA GoodParts ==
    ASSUME NEW p \in Pcbs, NEW h \in HttpStates, NEW k \in Int, NEW w \in Wires, NEW y,
           y \subseteq Causes, Mid(p, h, k, w, y)
    PROVE  Good(Srv(p, h, k, w, y))
PROOF
  <1>1. PICK s : s = Srv(p, h, k, w, y)  OBVIOUS
  <1>2. s.pcb = p /\ s.hs = h /\ s.pool = k /\ s.wire = w /\ s.why = y  BY <1>1, Parts
  <1>3. IsSrv(s)  BY <1>1, SrvDomain, Zenon
  <1>4. Good(s)  BY <1>2, <1>3, Zenon DEF Good
  <1> QED  BY <1>1, <1>4, Zenon

\* What http_close_conn returns.
Closed(r, p, h, k, y, cause) ==
    /\ Good(r) /\ r.hs = NoState /\ ~r.pcb.cb /\ r.pool = k - h.req /\ r.why = y \cup {cause}
    /\ r.pcb.state = "CLOSED" <=> p.unread # 0

\* http_close_conn keeps the invariant where its cause is a due one; the pcb is gone
\* exactly when data was not taken.
LEMMA CloseKeeps ==
    ASSUME NEW p \in Pcbs, NEW h \in HttpStates, NEW k \in Int, NEW w \in Wires, NEW y,
           y \subseteq Causes, Mid(p, h, k, w, y), p.cb, NEW cause, CloseDue(p, cause), NEW mem,
           p.unread # 0 => Excused(y \cup {cause}), NEW g \in HttpStates, g.req = h.req
    PROVE  Closed(http_close_conn(Srv(p, g, k, w, y), mem, cause), p, h, k, y, cause)
PROOF
  <1> DEFINE r == http_close_conn(Srv(p, g, k, w, y), mem, cause)
  <1>1. PICK z : z = y \cup {cause}  OBVIOUS
  <1>2. PICK m \in Int : m = k - h.req  BY HsFields
  <1>3. p.state \in Open /\ p.state # "CLOSED"
    <2>1. p.state \in Open  BY Zenon DEF Mid, Own
    <2> QED  BY <2>1 DEF Open
  <1>4. z \subseteq Causes /\ y \subseteq z  BY <1>1, Zenon DEF CloseDue
  <1>5. "listening" \notin z
    <2>1. "listening" \notin y  BY <1>3, NoFields, Zenon DEF Mid, Reasons
    <2> QED  BY <1>1, <2>1, Zenon DEF CloseDue
  <1>6. \/ p.unread # 0 /\ r = Resets(g, k, w, y, cause)
        \/ p.unread = 0 /\ r = Waits(p, g, k, w, y, cause)
        \/ p.unread = 0 /\ r = Ends(p, g, k, w, y, cause)
    <2>1. CloseForm(r, p, g, k, w, y, cause)  BY <1>3, CloseShape, Zenon
    <2> HIDE DEF r
    <2> QED  BY <2>1, Zenon DEF CloseForm
  <1>7. PICK q \in Pcbs : q = Unhooked(p)  BY UnhookedFields
  <1>8. Mid(q, NoState, m, w, z)  BY <1>1, <1>2, <1>7, UnhookKeeps, Zenon
  <1>9. ~q.cb /\ q.state = p.state  BY <1>7, UnhookedFields, Zenon
  <1> HIDE DEF r
  <1>0. SUFFICES Closed(r, p, h, k, y, cause)  BY Zenon DEF r
  <1>10. CASE p.unread # 0
    <2>1. PICK v \in Wires : v = [w EXCEPT !.rst = TRUE]  BY RstSent
    <2>2. v.top = w.top /\ v.fin = w.fin  BY <2>1, RstSent, Zenon
    <2>3. r = Srv(NoPcb, NoState, m, v, z)  BY <1>1, <1>2, <1>6, <1>10, <2>1, Zenon DEF Resets
    <2>4. Excused(z)  BY <1>1, <1>10, Zenon
    <2>5. Mid(NoPcb, NoState, m, v, z)  BY <1>2, <1>4, <1>5, <2>2, <2>4, GoneKeeps, Zenon
    <2>6. Good(r)  BY <1>4, <2>3, <2>5, NoTypes, GoodParts, Zenon
    <2>7. r.pcb = NoPcb /\ r.hs = NoState /\ r.pool = m /\ r.why = z  BY <2>3 DEF Srv
    <2> QED  BY <1>1, <1>2, <1>10, <2>6, <2>7, NoFields, Zenon DEF Closed
  <1>11. CASE p.unread = 0 /\ r = Waits(p, g, k, w, y, cause)
    <2>1. r = Srv(Pended(q, TRUE), NoState, m, w, z)  BY <1>1, <1>2, <1>7, <1>11, Zenon DEF Waits, Pended
    <2>2. q.state \notin {"CLOSED", "SYN_RCVD"}  BY <1>3, <1>9 DEF Open
    <2>3. /\ Pended(q, TRUE) \in Pcbs /\ Mid(Pended(q, TRUE), NoState, m, w, z)
          /\ ~Pended(q, TRUE).cb /\ Pended(q, TRUE).state = q.state
      BY <1>8, <1>9, <2>2, NoTypes, PendKeeps, Zenon
    <2>4. Good(r)  BY <1>4, <2>1, <2>3, NoTypes, GoodParts, Zenon
    <2>5. r.pcb = Pended(q, TRUE) /\ r.hs = NoState /\ r.pool = m /\ r.why = z  BY <2>1 DEF Srv
    <2> QED  BY <1>1, <1>2, <1>3, <1>9, <1>11, <2>3, <2>4, <2>5, Zenon DEF Closed
  <1>12. CASE p.unread = 0 /\ r = Ends(p, g, k, w, y, cause)
    <2>1. r = Srv(Finned(q), NoState, m, w, z)  BY <1>1, <1>2, <1>7, <1>12, Zenon DEF Ends
    <2>3. /\ Finned(q) \in Pcbs /\ Mid(Finned(q), NoState, m, w, z)
          /\ ~Finned(q).cb /\ Finned(q).state \in {"FIN_WAIT_1", "LAST_ACK"}
      BY <1>3, <1>8, <1>9, NoTypes, FinKeeps, Zenon
    <2>4. Finned(q).state # "CLOSED"  BY <2>3
    <2>5. Good(r)  BY <1>4, <2>1, <2>3, NoTypes, GoodParts, Zenon
    <2>6. r.pcb = Finned(q) /\ r.hs = NoState /\ r.pool = m /\ r.why = z  BY <2>1 DEF Srv
    <2> QED  BY <1>1, <1>2, <1>12, <2>3, <2>4, <2>5, <2>6, Zenon DEF Closed
  <1> QED  BY <1>6, <1>10, <1>11, <1>12, Zenon

-----------------------------------------------------------------------------
(* Writing.                                                                *)

\* The larger of two.
LEMMA MaxTwo ==
    ASSUME NEW a \in Int, NEW b \in Int
    PROVE  Max({a, b}) = IF a >= b THEN a ELSE b
PROOF
  <1>1. \E x \in {a, b} : \A z \in {a, b} : x >= z
    <2>1. CASE a >= b  BY <2>1
    <2>2. CASE b >= a  BY <2>2
    <2> QED  BY <2>1, <2>2
  <1>2. Max({a, b}) \in {a, b} /\ \A z \in {a, b} : Max({a, b}) >= z
    BY <1>1, Zenon DEF Max
  <1> QED  BY <1>2

\* The smaller of two.
LEMMA MinTwo ==
    ASSUME NEW a \in Int, NEW b \in Int
    PROVE  Min({a, b}) = IF a <= b THEN a ELSE b
PROOF
  <1>1. \E x \in {a, b} : \A z \in {a, b} : x <= z
    <2>1. CASE a >= b  BY <2>1
    <2>2. CASE b >= a  BY <2>2
    <2> QED  BY <2>1, <2>2
  <1>2. Min({a, b}) \in {a, b} /\ \A z \in {a, b} : Min({a, b}) <= z
    BY <1>1, Zenon DEF Min
  <1> QED  BY <1>2

\* The least of three is at most each of them.
LEMMA MinThree ==
    ASSUME NEW a \in Nat, NEW b \in Nat, NEW c \in Nat
    PROVE  /\ Min({a, b, c}) \in Nat
           /\ Min({a, b, c}) <= a /\ Min({a, b, c}) <= b /\ Min({a, b, c}) <= c
PROOF
  <1>1. \E x \in {a, b, c} : \A z \in {a, b, c} : x <= z
    <2>1. CASE a <= b /\ a <= c  BY <2>1
    <2>2. CASE b <= a /\ b <= c  BY <2>2
    <2>3. CASE c <= a /\ c <= b  BY <2>3
    <2> QED  BY <2>1, <2>2, <2>3
  <1>2. Min({a, b, c}) \in {a, b, c} /\ \A z \in {a, b, c} : Min({a, b, c}) <= z
    BY <1>1, Zenon DEF Min
  <1> QED  BY <1>2

\* The units in the send buffer are a number, no more after an
\* acknowledgement, and n more after n were written.
InBuffer(p) == {u \in p.lastack..(p.snd_lbb - 1) : u # 0 /\ ~(p.fin /\ u = p.snd_lbb - 1)}

\* The send buffer is a finite set.
LEMMA QueuedFinite ==
    ASSUME NEW p \in Pcbs
    PROVE  IsFiniteSet(InBuffer(p)) /\ Queued(p) = Cardinality(InBuffer(p)) /\ Queued(p) \in Nat
PROOF
  <1>1. p.lastack \in Int /\ p.snd_lbb - 1 \in Int  BY PcbFields
  <1>2. IsFiniteSet(p.lastack..(p.snd_lbb - 1))  BY <1>1, FS_Interval
  <1>3. InBuffer(p) \in SUBSET (p.lastack..(p.snd_lbb - 1))  BY Zenon DEF InBuffer
  <1>4. IsFiniteSet(InBuffer(p))  BY <1>2, <1>3, FS_Subset
  <1>5. Queued(p) = Cardinality(InBuffer(p))  BY Zenon DEF Queued, InBuffer
  <1> QED  BY <1>4, <1>5, FS_CardinalityType

\* An acknowledgement makes room.
LEMMA QueuedLess ==
    ASSUME NEW p \in Pcbs, NEW q \in Pcbs, p.lastack <= q.lastack, q.snd_lbb = p.snd_lbb, q.fin = p.fin
    PROVE  Queued(q) <= Queued(p)
PROOF
  <1>1. p.lastack \in Nat /\ q.lastack \in Nat /\ p.snd_lbb \in Nat  BY PcbFields
  <1>2. InBuffer(q) \in SUBSET InBuffer(p)  BY <1>1 DEF InBuffer
  <1> QED  BY <1>2, QueuedFinite, FS_Subset

\* Writing n units takes room for at most n.
LEMMA QueuedMore ==
    ASSUME NEW p \in Pcbs, NEW q \in Pcbs, NEW n \in Nat, q.lastack = p.lastack,
           q.snd_lbb = p.snd_lbb + n, ~p.fin, ~q.fin
    PROVE  Queued(q) <= Queued(p) + n
PROOF
  <1> DEFINE N == p.snd_lbb..(p.snd_lbb + n - 1)
  <1>1. p.lastack \in Nat /\ p.snd_lbb \in Nat  BY PcbFields
  <1>2. InBuffer(q) \in SUBSET (InBuffer(p) \cup N)  BY <1>1 DEF InBuffer
  <1>3. IsFiniteSet(N) /\ Cardinality(N) = n
    <2>1. p.snd_lbb + n - 1 \in Int /\ p.snd_lbb \in Int  BY <1>1
    <2>2. IsFiniteSet(N) /\ Cardinality(N) = IF p.snd_lbb > p.snd_lbb + n - 1 THEN 0 ELSE (p.snd_lbb + n - 1) - p.snd_lbb + 1
      BY <2>1, FS_Interval
    <2> HIDE DEF N
    <2> QED  BY <1>1, <2>2
  <1> HIDE DEF N
  <1>4. /\ IsFiniteSet(InBuffer(p) \cup N) /\ IsFiniteSet(InBuffer(p) \cap N)
        /\ Cardinality(InBuffer(p) \cup N) = Cardinality(InBuffer(p)) + Cardinality(N) - Cardinality(InBuffer(p) \cap N)
    <2>1. IsFiniteSet(InBuffer(p))  BY QueuedFinite
    <2>2. InBuffer(p) \cap N \in SUBSET N  OBVIOUS
    <2> QED  BY <1>3, <2>1, <2>2, FS_Union, FS_Subset
  <1>5. Cardinality(InBuffer(p) \cap N) \in Nat  BY <1>4, FS_CardinalityType
  <1>6. Cardinality(InBuffer(q)) <= Cardinality(InBuffer(p) \cup N)  BY <1>2, <1>4, FS_Subset
  <1>7. Queued(p) = Cardinality(InBuffer(p)) /\ Queued(q) = Cardinality(InBuffer(q)) /\ Queued(p) \in Nat /\ Queued(q) \in Nat
    BY QueuedFinite
  <1> QED  BY <1>3, <1>4, <1>5, <1>6, <1>7

\* With the SYN alone written, the send buffer is empty.
LEMMA QueuedNone ==
    ASSUME NEW p \in Pcbs, p.snd_lbb = 1
    PROVE  Queued(p) = 0
PROOF
  <1>1. InBuffer(p) = {}
    <2>1. p.lastack \in Nat  BY PcbFields
    <2> QED  BY <2>1 DEF InBuffer
  <1> QED  BY <1>1, QueuedFinite, FS_EmptySet, Zenon

\* A change of the http_state in use.
HsFits(p, h, k) ==
    /\ h.used /\ h.retries < HTTPD_MAX_RETRIES /\ h.req <= LWIP_HTTPD_REQ_QUEUELEN /\ k >= h.req
    /\ h.handle => client.ask \in Nat /\ h.left + p.snd_lbb = client.ask + 1 /\ p.rcv_nxt > ReqLen
    /\ ~h.handle => p.snd_lbb = 1

\* Another http_state that fits the pcb keeps the invariant.
LEMMA HsKeeps ==
    ASSUME NEW p, NEW h, NEW k, NEW w, NEW y, Mid(p, h, k, w, y), p.cb = TRUE, NEW g \in HttpStates, NEW m,
           HsFits(p, g, m)
    PROVE  Mid(p, g, m, w, y)
PROOF
  <1>1. Own(p, g)
    <2>1. g.used = TRUE  BY HsFields DEF HsFits
    <2> QED  BY <2>1, Zenon DEF Mid, Own
  <1>2. Bounds(p, g)  BY Zenon DEF Mid, Bounds, HsFits
  <1>3. Whole(p, g, w, y)  BY Zenon DEF Mid, Whole, HsFits
  <1>4. Reasons(p, g, w, y)  BY Zenon DEF Mid, Reasons, HsFits
  <1> QED  BY <1>1, <1>2, <1>3, <1>4, Zenon DEF Mid, HsFits

\* The http_state there is fits.
LEMMA HsFit ==
    ASSUME NEW p, NEW h, NEW k, NEW w, NEW y, Mid(p, h, k, w, y), p.cb = TRUE
    PROVE  HsFits(p, h, k)
PROOF BY Zenon DEF Mid, Own, Bounds, Whole, Reasons, HsFits

\* tcp_write of n units.
Wrote(p, n) == [p EXCEPT !.snd_lbb = @ + n]
Rest(h, n) == [h EXCEPT !.left = @ - n]

\* Writing n units changes snd_lbb only.
LEMMA WroteFields ==
    ASSUME NEW p \in Pcbs, NEW n \in Nat
    PROVE  /\ Wrote(p, n) \in Pcbs /\ Wrote(p, n).state = p.state /\ Wrote(p, n).lastack = p.lastack
           /\ Wrote(p, n).unsent = p.unsent /\ Wrote(p, n).snd_lbb = p.snd_lbb + n /\ Wrote(p, n).fin = p.fin
           /\ Wrote(p, n).rcv_nxt = p.rcv_nxt /\ Wrote(p, n).unread = p.unread
           /\ Wrote(p, n).rxclosed = p.rxclosed /\ Wrote(p, n).closepend = p.closepend
           /\ Wrote(p, n).cb = p.cb /\ Wrote(p, n).nrtx = p.nrtx /\ Wrote(p, n).idle = p.idle
           /\ Wrote(p, n).probe = p.probe
PROOF
  <1>1. PICK x \in Nat : x = p.snd_lbb + n  BY PcbFields
  <1>2. [p EXCEPT !.snd_lbb = x] \in Pcbs  BY Zenon DEF Pcbs
  <1>3. Wrote(p, n) = [p EXCEPT !.snd_lbb = x]  BY <1>1, Zenon DEF Wrote
  <1>4. Wrote(p, n) \in Pcbs  BY <1>2, <1>3, Zenon
  <1> QED  BY <1>4 DEF Wrote, Pcbs

\* Writing n units leaves n fewer.
LEMMA RestFields ==
    ASSUME NEW h \in HttpStates, NEW n \in Nat, n <= h.left
    PROVE  /\ Rest(h, n) \in HttpStates /\ Rest(h, n).used = h.used /\ Rest(h, n).handle = h.handle
           /\ Rest(h, n).left = h.left - n /\ Rest(h, n).retries = h.retries /\ Rest(h, n).req = h.req
PROOF
  <1>1. PICK x \in Nat : x = h.left - n  BY HsFields
  <1>2. [h EXCEPT !.left = x] \in HttpStates  BY Zenon DEF HttpStates
  <1>3. Rest(h, n) = [h EXCEPT !.left = x]  BY <1>1, Zenon DEF Rest
  <1>4. Rest(h, n) \in HttpStates  BY <1>2, <1>3, Zenon
  <1> QED  BY <1>4 DEF Rest, HttpStates

\* Writing no more than is left, and than the send buffer takes, keeps the invariant.
LEMMA WriteKeeps ==
    ASSUME NEW p \in Pcbs, NEW h \in HttpStates, NEW k \in Int, NEW w \in Wires, NEW y,
           Mid(p, h, k, w, y), p.cb, h.handle,
           NEW n \in Nat, n <= h.left, n + Queued(p) <= TCP_SND_BUF
    PROVE  Mid(Wrote(p, n), Rest(h, n), k, w, y)
PROOF
  <1>1. PICK q \in Pcbs : q = Wrote(p, n)  BY WroteFields
  <1>2. /\ q.state = p.state /\ q.lastack = p.lastack /\ q.unsent = p.unsent /\ q.snd_lbb = p.snd_lbb + n
        /\ q.rcv_nxt = p.rcv_nxt /\ q.nrtx = p.nrtx /\ q.idle = p.idle /\ q.probe = p.probe /\ q.fin = p.fin
        /\ q.cb = p.cb /\ q.rxclosed = p.rxclosed /\ q.closepend = p.closepend
    BY <1>1, WroteFields, Zenon
  <1>3. PICK g \in HttpStates : g = Rest(h, n)  BY RestFields
  <1>4. g.used = h.used /\ g.handle = h.handle /\ g.left = h.left - n /\ g.retries = h.retries /\ g.req = h.req
    BY <1>3, RestFields, Zenon
  <1>5. /\ p.state \in Open /\ p.state \notin Fins /\ p.state \notin {"CLOSED", "SYN_RCVD"} /\ p.state # "CLOSED"
        /\ p.state \notin {"FIN_WAIT_2", "TIME_WAIT"} /\ p.state # "SYN_RCVD" /\ p.state \in Active
    <2>1. p.state \in Open  BY Zenon DEF Mid, Own
    <2> QED  BY <2>1 DEF Open, Fins, Active
  <1>6. ~p.fin /\ ~w.fin
    <2>1. ~p.fin  BY <1>5, Zenon DEF Mid, Order
    <2> QED  BY <1>5, <2>1, Zenon DEF Mid, Order
  <1>7. Own(q, g)  BY <1>2, <1>4, Zenon DEF Mid, Own
  <1>8. Order(q, w)
    <2>1. /\ p.lastack <= p.unsent /\ p.unsent <= p.snd_lbb /\ client.rcv <= w.top
          /\ p.unsent <= w.top /\ w.top <= p.snd_lbb /\ 1 <= p.snd_lbb
      BY <1>5, Zenon DEF Mid, Order
    <2>2. q.lastack <= q.unsent /\ q.unsent <= q.snd_lbb /\ w.top <= q.snd_lbb /\ 1 <= q.snd_lbb /\ q.unsent <= w.top
      BY <1>2, <2>1, PcbFields, WireFields
    <2> QED  BY <1>2, <1>5, <1>6, <2>1, <2>2, Zenon DEF Order
  <1>9. Buffer(q)
    <2>1. Queued(q) <= Queued(p) + n  BY <1>2, <1>6, QueuedMore
    <2>2. Queued(q) <= TCP_SND_BUF  BY <2>1, QueuedFinite, Sizes
    <2> QED  BY <2>2, Zenon DEF Buffer
  <1>10. Bounds(q, g)  BY <1>2, <1>4, Zenon DEF Mid, Bounds
  <1>11. Whole(q, g, w, y)
    <2>1. client.ask \in Nat /\ h.left + p.snd_lbb = client.ask + 1  BY Zenon DEF Mid, Whole
    <2>2. g.left + q.snd_lbb = client.ask + 1  BY <1>2, <1>4, <2>1, PcbFields, HsFields
    <2> QED  BY <1>2, <1>4, <1>5, <1>6, <2>1, <2>2, Zenon DEF Whole
  <1>12. Reasons(q, g, w, y)
    <2>1. "listening" \notin y  BY <1>5, NoFields, Zenon DEF Mid, Reasons
    <2> QED  BY <1>2, <1>4, <1>5, <2>1, Zenon DEF Mid, Reasons
  <1>13. k >= g.req  BY <1>4, Zenon DEF Mid
  <1>14. Mid(q, g, k, w, y)  BY <1>7, <1>8, <1>9, <1>10, <1>11, <1>12, <1>13, Zenon DEF Mid
  <1> QED  BY <1>1, <1>3, <1>14, Zenon

\* What a callback returns: the connection goes on, or it is closed.
GoesOn(r, p, h, k, y) ==
    /\ Good(r) /\ r.pool - r.hs.req = k - h.req
    /\ \/ /\ r.pcb.cb /\ r.pcb.state = p.state /\ r.pcb.unread = p.unread
          /\ r.pcb.rcv_nxt = p.rcv_nxt /\ r.why = y
       \/ ~r.pcb.cb /\ (r.pcb.state = "CLOSED" <=> p.unread # 0)

\* A closed connection is one way to carry on.
LEMMA ClosedGoesOn ==
    ASSUME NEW r, NEW p, NEW h \in HttpStates, NEW k \in Int, NEW y, NEW cause, Closed(r, p, h, k, y, cause)
    PROVE  GoesOn(r, p, h, k, y)
PROOF
  <1>1. r.pool - r.hs.req = k - h.req
    <2>1. r.pool = k - h.req /\ r.hs = NoState  BY Zenon DEF Closed
    <2>2. NoState.req = 0 /\ k - h.req \in Int  BY NoFields, HsFields
    <2> QED  BY <2>1, <2>2
  <1> QED  BY <1>1, Zenon DEF Closed, GoesOn

\* http_send with a file.
SendForm(p, h, k, w, y, n, mem) ==
    LET t == Srv(Wrote(p, n), Rest(h, n), k, w, y)
    IN  IF ~h.handle THEN http_close_conn(Srv(p, h, k, w, y), mem, "no file")
        ELSE IF Rest(h, n).left = 0 THEN http_close_conn(t, mem, "done")
        ELSE t

\* http_send: no file, all written, or more to write.
LEMMA SendShape ==
    ASSUME NEW p \in Pcbs, NEW h \in HttpStates, NEW k, NEW w, NEW y, NEW mem
    PROVE  http_send(Srv(p, h, k, w, y), mem)
              = SendForm(p, h, k, w, y, http_write(Srv(p, h, k, w, y), mem), mem)
PROOF
  <1> DEFINE s == Srv(p, h, k, w, y)
             n == http_write(s, mem)
             t == Srv(Wrote(p, n), Rest(h, n), k, w, y)
             u == [s EXCEPT !.pcb.snd_lbb = @ + n, !.hs.left = @ - n]
  <1> HIDE DEF n
  <1>1. u = t
    <2>1. IsSrv(u)  BY SrvDomain, Zenon DEF IsSrv
    <2>2. u.pcb = Wrote(p, n)  BY SMT DEF Srv, Wrote
    <2>3. u.hs = Rest(h, n)  BY SMT DEF Srv, Rest
    <2>4. u.pool = k /\ u.wire = w /\ u.why = y  BY SMT DEF Srv
    <2> HIDE DEF u
    <2> QED  BY <2>1, <2>2, <2>3, <2>4, Rebuilt, Zenon
  <1>2. s.hs = h /\ t.hs = Rest(h, n)  BY SMT DEF Srv
  <1>3. http_send(s, mem) = CASE ~s.hs.handle -> http_close_conn(s, mem, "no file")
                              [] s.hs.handle /\ u.hs.left = 0 -> http_close_conn(u, mem, "done")
                              [] OTHER -> u
    BY Zenon DEF http_send, n
  <1> HIDE DEF u, s, t
  <1>4. CASE ~h.handle
    <2>1. http_send(s, mem) = http_close_conn(s, mem, "no file")  BY <1>1, <1>2, <1>3, <1>4
    <2> QED  BY <1>4, <2>1, Zenon DEF s, n, t, SendForm
  <1>5. CASE h.handle /\ Rest(h, n).left = 0
    <2>1. http_send(s, mem) = http_close_conn(t, mem, "done")  BY <1>1, <1>2, <1>3, <1>5
    <2> QED  BY <1>5, <2>1, Zenon DEF s, n, t, SendForm
  <1>6. CASE h.handle /\ Rest(h, n).left # 0
    <2>1. http_send(s, mem) = t  BY <1>1, <1>2, <1>3, <1>6
    <2> QED  BY <1>6, <2>1, Zenon DEF s, n, t, SendForm
  <1> QED  BY <1>4, <1>5, <1>6, Zenon

Served(r, p, h, k, y) == GoesOn(r, p, h, k, y) /\ (h.handle /\ ~r.pcb.cb => "done" \in r.why)

\* http_send keeps the invariant, and closes a connection with a file only when it is
\* done.
LEMMA SendKeeps ==
    ASSUME NEW p \in Pcbs, NEW h \in HttpStates, NEW k \in Int, NEW w \in Wires, NEW y,
           y \subseteq Causes, Mid(p, h, k, w, y), p.cb, NEW mem \in Nat,
           p.unread # 0 => Excused(y), ~h.handle => client.ask = 0 /\ p.rcv_nxt > ReqLen
    PROVE  Served(http_send(Srv(p, h, k, w, y), mem), p, h, k, y)
PROOF
  <1> DEFINE s == Srv(p, h, k, w, y)
             r == http_send(s, mem)
  <1>1. PICK n : n = http_write(s, mem)  OBVIOUS
  <1>2. r = IF ~h.handle THEN http_close_conn(s, mem, "no file")
            ELSE IF Rest(h, n).left = 0
                 THEN http_close_conn(Srv(Wrote(p, n), Rest(h, n), k, w, y), mem, "done")
                 ELSE Srv(Wrote(p, n), Rest(h, n), k, w, y)
    <2>0. r = SendForm(p, h, k, w, y, http_write(s, mem), mem)  BY SendShape
    <2>1. r = SendForm(p, h, k, w, y, n, mem)  BY <1>1, <2>0, Zenon
    <2> HIDE DEF r
    <2> QED  BY <2>1, Zenon DEF SendForm
  <1>3. Excused(y) => \A c : Excused(y \cup {c})  BY Zenon DEF Excused
  <1>4. p.state \in Active
    <2>1. p.state \in Open  BY Zenon DEF Mid, Own
    <2> QED  BY <2>1 DEF Open, Active
  <1>5. n \in Nat /\ n <= h.left /\ n + Queued(p) <= TCP_SND_BUF
    <2>1. s.pcb = p /\ s.hs = h  BY Parts
    <2>2. n = Min({mem, h.left, TCP_SND_BUF - Queued(p)})  BY <1>1, <2>1, Zenon DEF http_write
    <2>3. Queued(p) <= TCP_SND_BUF  BY <1>4, Zenon DEF Mid, Buffer
    <2>4. PICK c \in Nat : c = TCP_SND_BUF - Queued(p)  BY <2>3, QueuedFinite, Sizes
    <2>5. PICK l \in Nat : l = h.left  BY HsFields
    <2>6. Min({mem, l, c}) \in Nat /\ Min({mem, l, c}) <= l /\ Min({mem, l, c}) <= c  BY MinThree
    <2>7. n = Min({mem, l, c})  BY <2>2, <2>4, <2>5, Zenon
    <2>8. n \in Nat /\ n <= l /\ n <= c  BY <2>6, <2>7, Zenon
    <2> QED  BY <2>4, <2>5, <2>8, QueuedFinite, Sizes
  <1> HIDE DEF s, r
  <1>0. SUFFICES Served(r, p, h, k, y)  BY Zenon DEF r, s
  <1>6. CASE ~h.handle
    <2>1. r = http_close_conn(Srv(p, h, k, w, y), mem, "no file")  BY <1>2, <1>6, Zenon DEF s
    <2>2. CloseDue(p, "no file")
      <3>1. p.snd_lbb = 1  BY <1>6, Zenon DEF Mid, Whole
      <3>2. client.ask \in Nat /\ p.snd_lbb = client.ask + 1  BY <1>6, <3>1
      <3> QED  BY <1>6, <3>2 DEF CloseDue, Causes
    <2>3. Closed(r, p, h, k, y, "no file")  BY <1>3, <2>1, <2>2, CloseKeeps, Zenon
    <2> QED  BY <1>6, <2>3, ClosedGoesOn, Zenon DEF Served
  <1>7. CASE h.handle
    <2>1. PICK q \in Pcbs : q = Wrote(p, n)  BY <1>5, WroteFields
    <2>2. q.cb = p.cb /\ q.state = p.state /\ q.unread = p.unread /\ q.rcv_nxt = p.rcv_nxt
      BY <1>5, <2>1, WroteFields, Zenon
    <2>3. PICK g \in HttpStates : g = Rest(h, n)  BY <1>5, RestFields
    <2>4. g.req = h.req /\ g.handle = h.handle  BY <1>5, <2>3, RestFields, Zenon
    <2>5. Mid(q, g, k, w, y)  BY <1>5, <1>7, <2>1, <2>3, WriteKeeps, Zenon
    <2>6. r = IF g.left = 0 THEN http_close_conn(Srv(q, g, k, w, y), mem, "done") ELSE Srv(q, g, k, w, y)
      BY <1>2, <1>7, <2>1, <2>3, Zenon
    <2>7. CASE g.left = 0
      <3>1. client.ask \in Nat /\ g.left + q.snd_lbb = client.ask + 1 /\ q.rcv_nxt > ReqLen
        BY <1>7, <2>2, <2>4, <2>5, Zenon DEF Mid, Whole, Reasons
      <3>2. q.snd_lbb = client.ask + 1  BY <2>7, <3>1, PcbFields
      <3>3. CloseDue(q, "done")  BY <3>1, <3>2 DEF CloseDue, Causes
      <3>4. q.unread # 0 => Excused(y \cup {"done"})  BY <1>3, <2>2, Zenon
      <3>5. Closed(http_close_conn(Srv(q, g, k, w, y), mem, "done"), q, g, k, y, "done")
        BY <2>2, <2>5, <3>3, <3>4, CloseKeeps, Zenon
      <3>6. Closed(r, p, h, k, y, "done")
        BY <2>2, <2>4, <2>6, <2>7, <3>5, Zenon DEF Closed
      <3>7. "done" \in r.why  BY <3>6, Zenon DEF Closed
      <3> QED  BY <3>6, <3>7, ClosedGoesOn, Zenon DEF Served
    <2>8. CASE g.left # 0
      <3>1. r = Srv(q, g, k, w, y)  BY <2>6, <2>8, Zenon
      <3>2. Good(r)  BY <2>5, <3>1, GoodParts, Zenon
      <3>3. r.pcb = q /\ r.hs = g /\ r.pool = k /\ r.why = y  BY <3>1 DEF Srv
      <3> QED  BY <2>2, <2>4, <3>2, <3>3, Zenon DEF Served, GoesOn
    <2> QED  BY <2>7, <2>8, Zenon
  <1> QED  BY <1>6, <1>7, Zenon

\* Another number of retries.
Retried(h, x) == [h EXCEPT !.retries = x]

\* Counting a retry changes the counter only.
LEMMA RetriedFields ==
    ASSUME NEW h \in HttpStates, NEW x \in Nat
    PROVE  /\ Retried(h, x) \in HttpStates /\ Retried(h, x).used = h.used /\ Retried(h, x).handle = h.handle
           /\ Retried(h, x).left = h.left /\ Retried(h, x).retries = x /\ Retried(h, x).req = h.req
PROOF
  <1>1. Retried(h, x) \in HttpStates  BY Zenon DEF HttpStates, Retried
  <1> QED  BY <1>1 DEF Retried, HttpStates

\* A retry below the limit keeps the invariant.
LEMMA RetriedKeeps ==
    ASSUME NEW p, NEW h \in HttpStates, NEW k \in Int, NEW w, NEW y, Mid(p, h, k, w, y), p.cb = TRUE,
           NEW x \in Nat, x < HTTPD_MAX_RETRIES
    PROVE  Mid(p, Retried(h, x), k, w, y)
PROOF
  <1>1. PICK g \in HttpStates : g = Retried(h, x)  BY RetriedFields
  <1>2. g.used = h.used /\ g.handle = h.handle /\ g.left = h.left /\ g.retries = x /\ g.req = h.req
    BY <1>1, RetriedFields, Zenon
  <1>3. HsFits(p, g, k)
    <2>1. HsFits(p, h, k)  BY HsFit, Zenon
    <2>2. g.retries < HTTPD_MAX_RETRIES  BY <1>2, Zenon
    <2> QED  BY <1>2, <2>1, <2>2, Zenon DEF HsFits
  <1> QED  BY <1>1, <1>3, HsKeeps, Zenon

\* http_sent, which is only called while a file is sent.
LEMMA SentKeeps ==
    ASSUME NEW p \in Pcbs, NEW h \in HttpStates, NEW k \in Int, NEW w \in Wires, NEW y,
           y \subseteq Causes, Mid(p, h, k, w, y), p.cb = TRUE, h.handle, NEW mem \in Nat,
           p.unread # 0 => Excused(y)
    PROVE  Served(http_sent(Srv(p, h, k, w, y), mem), p, h, k, y)
PROOF
  <1> DEFINE s == Srv(p, h, k, w, y)
             u == [s EXCEPT !.hs.retries = 0]
  <1>1. PICK g \in HttpStates : g = Retried(h, 0)  BY RetriedFields
  <1>2. g.handle = h.handle /\ g.req = h.req  BY <1>1, RetriedFields, Zenon
  <1>3. u = Srv(p, g, k, w, y)
    <2>1. IsSrv(u)  BY SrvDomain, Zenon DEF IsSrv
    <2>2. u.hs = Retried(h, 0)  BY SMT DEF Srv, Retried
    <2>3. u.pcb = p /\ u.pool = k /\ u.wire = w /\ u.why = y  BY SMT DEF Srv
    <2> HIDE DEF u
    <2> QED  BY <1>1, <2>1, <2>2, <2>3, Rebuilt, Zenon
  <1>4. s.pcb = p  BY Parts
  <1>5. http_sent(s, mem) = http_send(Srv(p, g, k, w, y), mem)
    <2>1. http_sent(s, mem) = IF ~s.pcb.cb THEN s ELSE http_send(u, mem)  BY Zenon DEF http_sent
    <2> HIDE DEF s, u
    <2> QED  BY <1>3, <1>4, <2>1, Zenon
  <1>6. Mid(p, g, k, w, y)
    <2>1. 0 < HTTPD_MAX_RETRIES  BY Sizes
    <2> QED  BY <1>1, <2>1, RetriedKeeps
  <1>7. Served(http_send(Srv(p, g, k, w, y), mem), p, g, k, y)  BY <1>2, <1>6, SendKeeps, Zenon
  <1>8. PICK r : r = http_sent(s, mem)  OBVIOUS
  <1>9. Served(r, p, g, k, y)  BY <1>5, <1>7, <1>8, Zenon
  <1>10. Served(r, p, h, k, y)  BY <1>2, <1>9, Zenon DEF Served, GoesOn
  <1> QED  BY <1>8, <1>10, Zenon

\* http_poll, when all data has been taken.
LEMMA PollKeeps ==
    ASSUME NEW p \in Pcbs, NEW h \in HttpStates, NEW k \in Int, NEW w \in Wires, NEW y,
           y \subseteq Causes, Mid(p, h, k, w, y), p.cb = TRUE, NEW mem \in Nat, p.unread = 0
    PROVE  GoesOn(http_poll(Srv(p, h, k, w, y), mem), p, h, k, y)
PROOF
  <1> DEFINE s == Srv(p, h, k, w, y)
             u == [s EXCEPT !.hs.retries = @ + 1]
  <1>0. PICK x \in Nat : x = h.retries + 1  BY HsFields
  <1>1. PICK g \in HttpStates : g = Retried(h, x)  BY RetriedFields
  <1>2. g.handle = h.handle /\ g.req = h.req /\ g.retries = x  BY <1>1, RetriedFields, Zenon
  <1>3. u = Srv(p, g, k, w, y)
    <2>1. IsSrv(u)  BY SrvDomain, Zenon DEF IsSrv
    <2>2. u.hs = Retried(h, h.retries + 1)  BY SMT DEF Srv, Retried
    <2>3. u.pcb = p /\ u.pool = k /\ u.wire = w /\ u.why = y  BY SMT DEF Srv
    <2> HIDE DEF u
    <2> QED  BY <1>0, <1>1, <2>1, <2>2, <2>3, Rebuilt, Zenon
  <1>4. PICK r : r = http_poll(s, mem)  OBVIOUS
  <1>5. PICK t : t = u  OBVIOUS
  <1>6. r = CASE t.hs.retries = HTTPD_MAX_RETRIES -> http_close_conn(t, mem, "gave up")
              [] t.hs.retries # HTTPD_MAX_RETRIES /\ t.hs.handle -> http_send(t, mem)
              [] OTHER -> t
    BY <1>4, <1>5, Zenon DEF http_poll
  <1>7. t = Srv(p, g, k, w, y)  BY <1>3, <1>5, Zenon
  <1>8. t.hs = g  BY <1>7 DEF Srv
  <1> HIDE DEF u, s
  <1>9. CASE x = HTTPD_MAX_RETRIES
    <2>1. r = http_close_conn(t, mem, "gave up")  BY <1>2, <1>6, <1>8, <1>9
    <2>2. CloseDue(p, "gave up")  BY DEF CloseDue, Causes, Early, Told
    <2>3. Closed(r, p, h, k, y, "gave up")  BY <1>2, <1>7, <2>1, <2>2, CloseKeeps, Zenon
    <2> QED  BY <1>4, <2>3, ClosedGoesOn, Zenon DEF s
  <1>10. CASE x # HTTPD_MAX_RETRIES
    <2>1. x < HTTPD_MAX_RETRIES
      <3>1. h.retries < HTTPD_MAX_RETRIES  BY Zenon DEF Mid, Bounds
      <3> QED  BY <1>0, <1>10, <3>1, HsFields, Sizes
    <2>2. Mid(p, g, k, w, y)  BY <1>1, <2>1, RetriedKeeps, Zenon
    <2>3. CASE g.handle
      <3>1. r = http_send(t, mem)  BY <1>2, <1>6, <1>8, <1>10, <2>3
      <3>2. Served(r, p, g, k, y)  BY <1>7, <2>2, <2>3, <3>1, SendKeeps, Zenon
      <3>3. GoesOn(r, p, h, k, y)  BY <1>2, <3>2, Zenon DEF Served, GoesOn
      <3> QED  BY <1>4, <3>3, Zenon DEF s
    <2>4. CASE ~g.handle
      <3>1. r = t  BY <1>2, <1>6, <1>8, <1>10, <2>4
      <3>2. Good(r)  BY <1>7, <2>2, <3>1, GoodParts, Zenon
      <3>3. r.pcb = p /\ r.hs = g /\ r.pool = k /\ r.why = y  BY <1>7, <3>1 DEF Srv
      <3>4. GoesOn(r, p, h, k, y)  BY <1>2, <3>2, <3>3, Zenon DEF GoesOn
      <3> QED  BY <1>4, <3>4, Zenon DEF s
    <2> QED  BY <2>3, <2>4, Zenon
  <1> QED  BY <1>9, <1>10, Zenon

-----------------------------------------------------------------------------
(* Steps of a connection that leave what is written as it is.              *)

Goes(p, q, w) ==
    /\ p.state \notin {"CLOSED", "SYN_RCVD"} /\ q.state \notin {"CLOSED", "SYN_RCVD"}
    /\ q.state \in Active => p.state \in Active
    /\ q.state \in Fins <=> p.state \in Fins
    /\ q.state \in {"FIN_WAIT_2", "TIME_WAIT"} => w.top = p.snd_lbb
    /\ q.state \in {"CLOSE_WAIT", "LAST_ACK", "CLOSING", "TIME_WAIT"} => client.fin
    /\ p.cb => q.state \in Open

Moves(p, q, w) ==
    /\ q.snd_lbb = p.snd_lbb /\ q.fin = p.fin /\ q.rxclosed = p.rxclosed
    /\ q.closepend = p.closepend /\ q.cb = p.cb
    /\ p.lastack <= q.lastack /\ q.lastack <= q.unsent /\ q.unsent <= w.top
    /\ p.rcv_nxt <= q.rcv_nxt /\ q.nrtx <= TCP_MAXRTX /\ q.idle <= TCP_TIMEOUT + 1 /\ q.probe <= TCP_MAXRTX
    /\ p.state # "CLOSED" /\ (q.state = p.state \/ Goes(p, q, w))
    /\ p.state = "SYN_RCVD" => q.unread = 0

\* A pcb that only moved on, as Moves says, keeps the invariant.
LEMMA MovedKeeps ==
    ASSUME NEW p \in Pcbs, NEW q \in Pcbs, NEW h \in HttpStates, NEW k \in Int, NEW w \in Wires, NEW y,
           Mid(p, h, k, w, y), Moves(p, q, w)
    PROVE  Mid(q, h, k, w, y)
PROOF
  <1>1. /\ q.snd_lbb = p.snd_lbb /\ q.fin = p.fin /\ q.rxclosed = p.rxclosed
        /\ q.closepend = p.closepend /\ q.cb = p.cb
        /\ p.lastack <= q.lastack /\ q.lastack <= q.unsent /\ q.unsent <= w.top
        /\ p.rcv_nxt <= q.rcv_nxt /\ q.nrtx <= TCP_MAXRTX /\ q.idle <= TCP_TIMEOUT + 1 /\ q.probe <= TCP_MAXRTX
        /\ p.state # "CLOSED" /\ (p.state = "SYN_RCVD" => q.unread = 0)
    BY Zenon DEF Moves
  <1>2. /\ p.state = "SYN_RCVD" <=> q.state = "SYN_RCVD"
        /\ q.state # "CLOSED"
        /\ q.state \in Active => p.state \in Active
        /\ q.state \in Fins <=> p.state \in Fins
        /\ q.state \in {"FIN_WAIT_2", "TIME_WAIT"} => w.top = p.snd_lbb
        /\ q.state \in {"CLOSE_WAIT", "LAST_ACK", "CLOSING", "TIME_WAIT"} => client.fin
        /\ p.cb => q.state \in Open
    <2>1. CASE q.state = p.state
      <3>1. p.state \in {"FIN_WAIT_2", "TIME_WAIT"} => w.top = p.snd_lbb  BY Zenon DEF Mid, Order
      <3>2. p.state \in {"CLOSE_WAIT", "LAST_ACK", "CLOSING", "TIME_WAIT"} => client.fin
        BY Zenon DEF Mid, Reasons
      <3>3. p.cb => p.state \in Open  BY Zenon DEF Mid, Own
      <3> QED  BY <1>1, <2>1, <3>1, <3>2, <3>3, Zenon
    <2>2. CASE Goes(p, q, w)
      <3>1. /\ p.state # "SYN_RCVD" /\ q.state # "SYN_RCVD" /\ q.state # "CLOSED"
        BY <2>2 DEF Goes
      <3> QED  BY <2>2, <3>1, Zenon DEF Goes
    <2> QED  BY <2>1, <2>2, Zenon DEF Moves
  <1>3. Own(q, h)  BY <1>1, <1>2, Zenon DEF Mid, Own
  <1>4. Order(q, w)
    <2>1. client.rcv <= w.top /\ w.top <= p.snd_lbb /\ 1 <= p.snd_lbb /\ (w.fin => p.fin /\ w.top = p.snd_lbb)
          /\ (p.fin <=> p.state \in Fins)
      BY <1>1, Zenon DEF Mid, Order
    <2>2. q.unsent <= q.snd_lbb  BY <1>1, <2>1, PcbFields, WireFields
    <2> QED  BY <1>1, <1>2, <2>1, <2>2, Zenon DEF Order
  <1>5. Buffer(q)
    <2>1. Queued(q) <= Queued(p)  BY <1>1, QueuedLess
    <2>2. p.state \in Active => Queued(p) <= TCP_SND_BUF  BY Zenon DEF Mid, Buffer
    <2>3. p.state \in Active => Queued(q) <= TCP_SND_BUF  BY <2>1, <2>2, QueuedFinite, Sizes
    <2> QED  BY <1>2, <2>3, Zenon DEF Buffer
  <1>6. Bounds(q, h)  BY <1>1, Zenon DEF Mid, Bounds
  <1>7. p.state \in {"CLOSED", "SYN_RCVD"} <=> q.state \in {"CLOSED", "SYN_RCVD"}  BY <1>1, <1>2
  <1>8. Whole(q, h, w, y)  BY <1>1, <1>2, <1>7, Zenon DEF Mid, Whole
  <1>9. Reasons(q, h, w, y)
    <2>1. "listening" \notin y  BY <1>1, NoFields, Zenon DEF Mid, Reasons
    <2>2. p.rcv_nxt > ReqLen => q.rcv_nxt > ReqLen  BY <1>1, PcbFields, Sizes
    <2> QED  BY <1>1, <1>2, <1>7, <2>1, <2>2, Zenon DEF Mid, Reasons
  <1> QED  BY <1>3, <1>4, <1>5, <1>6, <1>8, <1>9, Zenon DEF Mid

\* tcp_recved: the window opens by n.
Taken(p, n) == [p EXCEPT !.unread = Max({0, @ - n})]

\* tcp_recved makes unread smaller, not below zero.
LEMMA TakenFields ==
    ASSUME NEW p \in Pcbs, NEW n \in Nat
    PROVE  /\ Taken(p, n) \in Pcbs /\ Taken(p, n).unread = (IF p.unread >= n THEN p.unread - n ELSE 0)
           /\ Taken(p, n).cb = p.cb /\ Taken(p, n).state = p.state /\ Taken(p, n).rcv_nxt = p.rcv_nxt
           /\ Taken(p, n).rxclosed = p.rxclosed
PROOF
  <1>1. p.unread \in Nat  BY PcbFields
  <1>2. PICK d \in Int : d = p.unread - n  BY <1>1
  <1>3. Max({0, d}) = IF 0 >= d THEN 0 ELSE d  BY MaxTwo
  <1>4. PICK x \in Nat : x = Max({0, d})  BY <1>3
  <1>5. x = IF p.unread >= n THEN p.unread - n ELSE 0  BY <1>1, <1>2, <1>3, <1>4
  <1>6. Taken(p, n) = [p EXCEPT !.unread = x]  BY <1>2, <1>4, Zenon DEF Taken
  <1>7. [p EXCEPT !.unread = x] \in Pcbs  BY Zenon DEF Pcbs
  <1>8. /\ [p EXCEPT !.unread = x].unread = x /\ [p EXCEPT !.unread = x].cb = p.cb
        /\ [p EXCEPT !.unread = x].state = p.state /\ [p EXCEPT !.unread = x].rcv_nxt = p.rcv_nxt
        /\ [p EXCEPT !.unread = x].rxclosed = p.rxclosed
    BY DEF Pcbs
  <1> QED  BY <1>5, <1>6, <1>7, <1>8, Zenon

\* What is left unread.
Left(p, n, u) == u = IF p.unread >= n THEN p.unread - n ELSE 0

\* What tcp_recved leaves unread.
LEMMA TakenLeft ==
    ASSUME NEW p \in Pcbs, NEW n \in Nat
    PROVE  Left(p, n, Taken(p, n).unread) /\ Taken(p, n).state = p.state
PROOF BY TakenFields DEF Left

\* tcp_recved keeps the invariant.
LEMMA TakenKeeps ==
    ASSUME NEW p \in Pcbs, NEW n \in Nat, NEW h \in HttpStates, NEW k \in Int, NEW w \in Wires, NEW y,
           Mid(p, h, k, w, y), p.state # "CLOSED"
    PROVE  Mid(Taken(p, n), h, k, w, y)
PROOF
  <1>1. PICK q \in Pcbs : q = Taken(p, n)  BY TakenFields
  <1>2. /\ q.state = p.state /\ q.lastack = p.lastack /\ q.unsent = p.unsent /\ q.snd_lbb = p.snd_lbb
        /\ q.rcv_nxt = p.rcv_nxt /\ q.nrtx = p.nrtx /\ q.idle = p.idle /\ q.probe = p.probe /\ q.fin = p.fin
        /\ q.cb = p.cb /\ q.rxclosed = p.rxclosed /\ q.closepend = p.closepend
    <2>1. PICK x : x = Max({0, p.unread - n})  OBVIOUS
    <2>2. q = [p EXCEPT !.unread = x]  BY <1>1, <2>1, Zenon DEF Taken
    <2> QED  BY <2>2 DEF Pcbs
  <1>3. p.lastack <= p.unsent /\ p.unsent <= w.top /\ p.nrtx <= TCP_MAXRTX /\ p.idle <= TCP_TIMEOUT + 1
        /\ p.probe <= TCP_MAXRTX
    BY Zenon DEF Mid, Order, Bounds
  <1>4. p.lastack <= p.lastack /\ p.rcv_nxt <= p.rcv_nxt  BY PcbFields
  <1>5. p.state = "SYN_RCVD" => q.unread = 0
    <2>1. p.state = "SYN_RCVD" => p.unread = 0  BY Zenon DEF Mid, Whole
    <2>2. q.unread = IF p.unread >= n THEN p.unread - n ELSE 0  BY <1>1, TakenFields, Zenon
    <2> QED  BY <2>1, <2>2
  <1>6. Moves(p, q, w)  BY <1>2, <1>3, <1>4, <1>5, Zenon DEF Moves
  <1> QED  BY <1>1, <1>6, MovedKeeps, Zenon

\* tcp_recved touches the pcb only.
LEMMA RecvedShape ==
    ASSUME NEW p \in Pcbs, NEW h, NEW k, NEW w, NEW y, NEW n
    PROVE  tcp_recved(Srv(p, h, k, w, y), n) = Srv(Taken(p, n), h, k, w, y)
PROOF
  <1> DEFINE s == Srv(p, h, k, w, y)
             u == [s EXCEPT !.pcb.unread = Max({0, @ - n})]
  <1>1. IsSrv(u)  BY SrvDomain, Zenon DEF IsSrv
  <1>2. u.pcb = Taken(p, n)  BY SMT DEF Srv, Taken
  <1>3. u.hs = h /\ u.pool = k /\ u.wire = w /\ u.why = y  BY SMT DEF Srv
  <1>4. u = tcp_recved(s, n)  BY Zenon DEF tcp_recved
  <1> HIDE DEF u
  <1> QED  BY <1>1, <1>2, <1>3, <1>4, Rebuilt, Zenon

-----------------------------------------------------------------------------
(* Receiving.                                                              *)

\* The request as it is kept, and the file it asks for.
Asked(h, x) == [h EXCEPT !.req = x]
Opened(h) == [h EXCEPT !.handle = client.ask # 0, !.left = client.ask, !.retries = 0]

\* Another number of pbufs kept changes req only.
LEMMA AskedFields ==
    ASSUME NEW h \in HttpStates, NEW x \in Nat
    PROVE  /\ Asked(h, x) \in HttpStates /\ Asked(h, x).used = h.used /\ Asked(h, x).handle = h.handle
           /\ Asked(h, x).left = h.left /\ Asked(h, x).retries = h.retries /\ Asked(h, x).req = x
PROOF
  <1>1. Asked(h, x) \in HttpStates  BY Zenon DEF HttpStates, Asked
  <1> QED  BY <1>1 DEF Asked, HttpStates

\* http_init_file sets the file and its length.
LEMMA OpenedFields ==
    ASSUME NEW h \in HttpStates, client.ask \in Nat
    PROVE  /\ Opened(h) \in HttpStates /\ Opened(h).used = h.used /\ Opened(h).handle = (client.ask # 0)
           /\ Opened(h).left = client.ask /\ Opened(h).retries = 0 /\ Opened(h).req = h.req
PROOF
  <1>1. PICK b \in BOOLEAN : b = (client.ask # 0)  OBVIOUS
  <1>2. [h EXCEPT !.handle = b, !.left = client.ask, !.retries = 0] \in HttpStates
    BY Zenon DEF HttpStates
  <1>3. Opened(h) = [h EXCEPT !.handle = b, !.left = client.ask, !.retries = 0]  BY <1>1, Zenon DEF Opened
  <1>4. Opened(h) \in HttpStates  BY <1>2, <1>3, Zenon
  <1>5. /\ Opened(h).used = h.used /\ Opened(h).handle = b /\ Opened(h).left = client.ask
        /\ Opened(h).retries = 0 /\ Opened(h).req = h.req
    BY <1>3 DEF HttpStates
  <1> QED  BY <1>1, <1>4, <1>5, Zenon

\* g is the http_state with one pbuf more.
ParsedForm(r, p, g, k, w, y, got, mem) ==
    LET done == Srv(p, Asked(g, 0), k - g.req, w, y)
        open == Srv(p, Opened(Asked(g, 0)), k - g.req, w, y)
    IN  \/ g.req <= LWIP_HTTPD_REQ_QUEUELEN /\ r = Srv(p, g, k, w, y)
        \/ r = http_close_conn(done, mem, "refused")
        \/ ~(got < ReqLen) /\ client.ask # Bad /\ r = http_send(open, mem)

\* Parsed: wait for more, refuse, or send the file.
LEMMA ParsedShape ==
    ASSUME NEW p \in Pcbs, NEW h \in HttpStates, NEW k, NEW w, NEW y, NEW got \in Int, NEW mem
    PROVE  ParsedForm(Parsed(Srv(p, h, k, w, y), got, mem), p, Asked(h, h.req + 1), k, w, y, got, mem)
PROOF
  <1> DEFINE s == Srv(p, h, k, w, y)
             t == [s EXCEPT !.hs.req = @ + 1]
             d == [t EXCEPT !.pool = @ - t.hs.req, !.hs.req = 0]
             o == [d EXCEPT !.hs.handle = client.ask # 0, !.hs.left = client.ask, !.hs.retries = 0]
  <1>0. PICK x \in Nat : x = h.req + 1  BY HsFields
  <1>1. PICK g \in HttpStates : g = Asked(h, x)  BY AskedFields
  <1>2. g.req = x  BY <1>1, AskedFields, Zenon
  <1>3. t = Srv(p, g, k, w, y)
    <2>1. IsSrv(t)  BY SrvDomain, Zenon DEF IsSrv
    <2>2. t.hs = Asked(h, h.req + 1)  BY SMT DEF Srv, Asked
    <2>3. t.pcb = p /\ t.pool = k /\ t.wire = w /\ t.why = y  BY SMT DEF Srv
    <2> HIDE DEF t
    <2> QED  BY <1>0, <1>1, <2>1, <2>2, <2>3, Rebuilt, Zenon
  <1>4. PICK t0 : t0 = Srv(p, g, k, w, y)  OBVIOUS
  <1>5. t0.hs = g  BY <1>4 DEF Srv
  <1>6. PICK m : m = k - g.req  OBVIOUS
  <1>7. PICK d0 : d0 = [t0 EXCEPT !.pool = @ - t0.hs.req, !.hs.req = 0]  OBVIOUS
  <1>8. d0 = Srv(p, Asked(g, 0), m, w, y)
    <2>1. IsSrv(d0)  BY <1>4, <1>7, SrvDomain, Zenon DEF IsSrv
    <2>2. d0.hs = Asked(g, 0)  BY <1>4, <1>7, SMT DEF Srv, Asked
    <2>3. d0.pcb = p /\ d0.wire = w /\ d0.why = y  BY <1>4, <1>7, SMT DEF Srv
    <2>4. d0.pool = t0.pool - t0.hs.req  BY <1>4, <1>7, SMT DEF Srv
    <2>5. t0.pool = k  BY <1>4 DEF Srv
    <2>6. d0.pool = m  BY <1>5, <1>6, <2>4, <2>5, Zenon
    <2> QED  BY <2>1, <2>2, <2>3, <2>6, Rebuilt, Zenon
  <1>9. PICK o0 : o0 = [d0 EXCEPT !.hs.handle = client.ask # 0, !.hs.left = client.ask, !.hs.retries = 0]
    OBVIOUS
  <1>10. PICK g0 : g0 = Asked(g, 0)  OBVIOUS
  <1>11. o0 = Srv(p, Opened(g0), m, w, y)
    <2>0. d0 = Srv(p, g0, m, w, y)  BY <1>8, <1>10, Zenon
    <2>1. IsSrv(o0)  BY <1>9, <2>0, SrvDomain, Zenon DEF IsSrv
    <2>2. o0.hs = Opened(g0)  BY <1>9, <2>0, SMT DEF Srv, Opened
    <2>3. o0.pcb = p /\ o0.wire = w /\ o0.why = y /\ o0.pool = m  BY <1>9, <2>0, SMT DEF Srv
    <2> QED  BY <2>1, <2>2, <2>3, Rebuilt, Zenon
  <1>12. PICK r : r = Parsed(s, got, mem)  OBVIOUS
  <1>13. r = CASE Refused(s, got) -> http_close_conn(d0, mem, "refused")
               [] ~Refused(s, got) /\ Seen(s, got) < ReqLen -> t0
               [] OTHER -> http_send(o0, mem)
    <2>1. t = t0  BY <1>3, <1>4, Zenon
    <2>2. d = d0  BY <1>7, <2>1, Zenon
    <2>3. o = o0  BY <1>9, <2>2, Zenon
    <2>4. r = CASE Refused(s, got) -> http_close_conn(d, mem, "refused")
               [] ~Refused(s, got) /\ Seen(s, got) < ReqLen -> t
               [] OTHER -> http_send(o, mem)
      BY <1>12, Zenon DEF Parsed
    <2> HIDE DEF t, d, o
    <2> QED  BY <2>1, <2>2, <2>3, <2>4, Zenon
  <1>14. \/ g.req <= LWIP_HTTPD_REQ_QUEUELEN /\ r = t0
         \/ r = http_close_conn(d0, mem, "refused")
         \/ ~(got < ReqLen) /\ client.ask # Bad /\ r = http_send(o0, mem)
    <2>1. s.hs.req + 1 = g.req  BY <1>0, <1>2 DEF Srv
    <2>2. PICK l \in Int : l = Seen(s, got) /\ l <= got
      <3>1. PICK c \in Int : c = LWIP_HTTPD_REQ_BUFSIZE  BY Sizes
      <3>2. Min({got, c}) = IF got <= c THEN got ELSE c  BY MinTwo
      <3>3. PICK v : v = Min({got, LWIP_HTTPD_REQ_BUFSIZE})  OBVIOUS
      <3>4. v \in Int /\ v <= got  BY <3>1, <3>2, <3>3
      <3>5. Seen(s, got) = IF s.hs.req = 0 THEN got ELSE v  BY <3>3, Zenon DEF Seen
      <3> QED  BY <3>4, <3>5
    <2>3. PICK b \in BOOLEAN : b = Refused(s, got)  BY DEF Refused
    <2>4. ~b /\ l < ReqLen => ~(g.req > LWIP_HTTPD_REQ_QUEUELEN)
      BY <2>1, <2>2, <2>3, Zenon DEF Refused
    <2>5. ~b /\ client.ask = Bad => ~(l >= LineLen)  BY <2>2, <2>3, Zenon DEF Refused
    <2>6. r = CASE b -> http_close_conn(d0, mem, "refused")
                [] ~b /\ l < ReqLen -> t0
                [] OTHER -> http_send(o0, mem)
      BY <1>13, <2>2, <2>3, Zenon
    <2>7. ~(g.req > LWIP_HTTPD_REQ_QUEUELEN) => g.req <= LWIP_HTTPD_REQ_QUEUELEN  BY <1>2, Sizes
    <2>8. ~(l < ReqLen) => l >= LineLen /\ ~(got < ReqLen)  BY <2>2, Sizes
    <2> QED  BY <2>4, <2>5, <2>6, <2>7, <2>8
  <1>15. ParsedForm(r, p, g, k, w, y, got, mem)
    BY <1>4, <1>6, <1>8, <1>10, <1>11, <1>14, Zenon DEF ParsedForm
  <1> QED  BY <1>0, <1>1, <1>12, <1>15, Zenon

\* http_parse_request with one more pbuf keeps the invariant and the number of pbufs.
LEMMA ParsedKeeps ==
    ASSUME NEW p \in Pcbs, NEW h \in HttpStates, NEW k \in Int, NEW w \in Wires, NEW y,
           y \subseteq Causes, Mid(p, h, k, w, y), p.cb = TRUE, ~h.handle, k >= h.req + 1,
           NEW got \in Int, ~(got < ReqLen) => p.rcv_nxt > ReqLen, p.unread # 0 => Excused(y),
           NEW mem \in Nat, client.ask \in Answers
    PROVE  GoesOn(Parsed(Srv(p, h, k, w, y), got, mem), p, Asked(h, h.req + 1), k, y)
PROOF
  <1>0. PICK x \in Nat : x = h.req + 1  BY HsFields
  <1>1. PICK g \in HttpStates : g = Asked(h, x)  BY AskedFields
  <1>2. g.used = h.used /\ g.handle = h.handle /\ g.retries = h.retries /\ g.req = x
    BY <1>1, AskedFields, Zenon
  <1>3. PICK m \in Int : m = k - g.req  BY <1>2
  <1>4. PICK r : r = Parsed(Srv(p, h, k, w, y), got, mem)  OBVIOUS
  <1>5. ParsedForm(r, p, g, k, w, y, got, mem)
    <2>1. ParsedForm(Parsed(Srv(p, h, k, w, y), got, mem), p, Asked(h, h.req + 1), k, w, y, got, mem)
      BY ParsedShape
    <2> QED  BY <1>0, <1>1, <1>4, <2>1, Zenon
  <1>6. h.used /\ h.retries < HTTPD_MAX_RETRIES /\ p.snd_lbb = 1
    <2>1. HsFits(p, h, k)  BY HsFit, Zenon
    <2> QED  BY <2>1, Zenon DEF HsFits
  <1>7. k >= g.req /\ m >= 0 /\ 0 <= LWIP_HTTPD_REQ_QUEUELEN  BY <1>0, <1>2, <1>3, Sizes
  <1>8. PICK g0 \in HttpStates : g0 = Asked(g, 0)  BY AskedFields
  <1>9. g0.used = g.used /\ g0.handle = g.handle /\ g0.retries = g.retries /\ g0.req = 0
    <2>1. 0 \in Nat  OBVIOUS
    <2> QED  BY <1>8, <2>1, AskedFields, Zenon
  <1>10. Mid(p, g0, m, w, y)
    <2>1. HsFits(p, g0, m)  BY <1>2, <1>6, <1>7, <1>9, Zenon DEF HsFits
    <2> QED  BY <2>1, HsKeeps, Zenon
  <1>11. Excused(y) => \A c : Excused(y \cup {c})  BY Zenon DEF Excused
  <1>12. CASE g.req <= LWIP_HTTPD_REQ_QUEUELEN /\ r = Srv(p, g, k, w, y)
    <2>1. HsFits(p, g, k)  BY <1>2, <1>6, <1>7, <1>12, Zenon DEF HsFits
    <2>2. Mid(p, g, k, w, y)  BY <2>1, HsKeeps, Zenon
    <2>3. Good(r)  BY <1>12, <2>2, GoodParts, Zenon
    <2>4. r.pcb = p /\ r.hs = g /\ r.pool = k /\ r.why = y  BY <1>12 DEF Srv
    <2>5. GoesOn(r, p, g, k, y)  BY <2>3, <2>4, Zenon DEF GoesOn
    <2> QED  BY <1>0, <1>1, <1>4, <2>5, Zenon
  <1>13. CASE r = http_close_conn(Srv(p, g0, m, w, y), mem, "refused")
    <2>1. CloseDue(p, "refused")  BY DEF CloseDue, Causes, Early, Told
    <2>2. Closed(r, p, g0, m, y, "refused")  BY <1>10, <1>11, <1>13, <2>1, CloseKeeps, Zenon
    <2>3. GoesOn(r, p, g0, m, y)  BY <2>2, ClosedGoesOn, Zenon
    <2>4. m - g0.req = k - g.req  BY <1>3, <1>9
    <2>5. GoesOn(r, p, g, k, y)  BY <2>3, <2>4, Zenon DEF GoesOn
    <2> QED  BY <1>0, <1>1, <1>4, <2>5, Zenon
  <1>14. CASE /\ ~(got < ReqLen) /\ client.ask # Bad
              /\ r = http_send(Srv(p, Opened(g0), m, w, y), mem)
    <2>1. client.ask \in Nat  BY <1>14, ConstantsAssumption, Zenon
    <2>2. PICK f \in HttpStates : f = Opened(g0)  BY <2>1, OpenedFields
    <2>3. f.used = g0.used /\ f.handle = (client.ask # 0) /\ f.left = client.ask /\ f.retries = 0 /\ f.req = g0.req
      BY <2>1, <2>2, OpenedFields, Zenon
    <2>4. f.left + p.snd_lbb = client.ask + 1  BY <1>6, <2>1, <2>3
    <2>5. 0 < HTTPD_MAX_RETRIES  BY Sizes
    <2>6. f.used /\ f.req = 0  BY <1>2, <1>6, <1>9, <2>3, Zenon
    <2>7. HsFits(p, f, m)  BY <1>6, <1>7, <1>14, <2>1, <2>3, <2>4, <2>5, <2>6, Zenon DEF HsFits
    <2>8. Mid(p, f, m, w, y)  BY <2>7, HsKeeps, Zenon
    <2>9. Served(r, p, f, m, y)  BY <1>14, <2>2, <2>3, <2>8, SendKeeps, Zenon
    <2>10. m - f.req = k - g.req  BY <1>3, <2>6
    <2>11. GoesOn(r, p, g, k, y)  BY <2>9, <2>10, Zenon DEF Served, GoesOn
    <2> QED  BY <1>0, <1>1, <1>4, <2>11, Zenon
  <1> QED  BY <1>3, <1>5, <1>8, <1>12, <1>13, <1>14, Zenon DEF ParsedForm

\* http_recv with a pbuf.
LEMMA RecvKeeps ==
    ASSUME NEW p \in Pcbs, NEW h \in HttpStates, NEW k \in Int, NEW w \in Wires, NEW y,
           y \subseteq Causes, Mid(p, h, k, w, y), p.cb = TRUE, k >= h.req + 1, NEW n \in Nat,
           NEW got \in Int, ~(got < ReqLen) => p.rcv_nxt > ReqLen, Taken(p, n).unread # 0 => Excused(y),
           NEW mem \in Nat, client.ask \in Answers
    PROVE  GoesOn(http_recv(Srv(p, h, k, w, y), n, got, mem), Taken(p, n), Asked(h, h.req + 1), k, y)
PROOF
  <1>1. PICK q \in Pcbs : q = Taken(p, n)  BY TakenFields
  <1>2. q.cb = TRUE /\ q.rcv_nxt = p.rcv_nxt  BY <1>1, TakenFields, Zenon
  <1>3. p.state # "CLOSED"
    <2>1. p.state \in Open  BY Zenon DEF Mid, Own
    <2> QED  BY <2>1 DEF Open
  <1>4. Mid(q, h, k, w, y)  BY <1>1, <1>3, TakenKeeps, Zenon
  <1>5. PICK t : t = Srv(q, h, k, w, y)  OBVIOUS
  <1>6. t = tcp_recved(Srv(p, h, k, w, y), n)
    <2>1. tcp_recved(Srv(p, h, k, w, y), n) = Srv(Taken(p, n), h, k, w, y)  BY RecvedShape
    <2> QED  BY <1>1, <1>5, <2>1, Zenon
  <1>7. PICK r : r = http_recv(Srv(p, h, k, w, y), n, got, mem)  OBVIOUS
  <1>8. r = IF t.hs.handle THEN [t EXCEPT !.pool = @ - 1] ELSE Parsed(t, got, mem)
    BY <1>6, <1>7, Zenon DEF http_recv
  <1>9. t.hs = h  BY <1>5 DEF Srv
  <1>0. PICK x \in Nat : x = h.req + 1  BY HsFields
  <1>10. PICK g : g = Asked(h, x)  OBVIOUS
  <1>11. g.req = x  BY <1>10, AskedFields, Zenon
  <1>12. SUFFICES GoesOn(r, q, g, k, y)  BY <1>0, <1>1, <1>7, <1>10, Zenon
  <1>13. CASE h.handle
    <2>1. r = [t EXCEPT !.pool = @ - 1]  BY <1>8, <1>9, <1>13, Zenon
    <2>2. PICK m \in Int : m = k - 1  OBVIOUS
    <2>3. r = Srv(q, h, m, w, y)
      <3>1. IsSrv(r)  BY <1>5, <2>1, SrvDomain, Zenon DEF IsSrv
      <3>2. r.pcb = q /\ r.hs = h /\ r.wire = w /\ r.why = y  BY <1>5, <2>1, SMT DEF Srv
      <3>3. r.pool = m  BY <1>5, <2>1, <2>2, SMT DEF Srv
      <3> QED  BY <3>1, <3>2, <3>3, Rebuilt, Zenon
    <2>4. HsFits(q, h, m)
      <3>1. HsFits(q, h, k)  BY <1>2, <1>4, HsFit, Zenon
      <3>2. m >= h.req  BY <2>2, HsFields
      <3> QED  BY <3>1, <3>2, Zenon DEF HsFits
    <2>5. Mid(q, h, m, w, y)  BY <1>2, <1>4, <2>4, HsKeeps, Zenon
    <2>6. Good(r)  BY <2>3, <2>5, GoodParts, Zenon
    <2>7. r.pcb = q /\ r.hs = h /\ r.pool = m /\ r.why = y  BY <2>3 DEF Srv
    <2>8. m - h.req = k - g.req  BY <1>0, <1>11, <2>2, HsFields
    <2> QED  BY <1>2, <2>6, <2>7, <2>8, Zenon DEF GoesOn
  <1>14. CASE ~h.handle
    <2>1. r = Parsed(Srv(q, h, k, w, y), got, mem)  BY <1>5, <1>8, <1>9, <1>14, Zenon
    <2>2. ~(got < ReqLen) => q.rcv_nxt > ReqLen  BY <1>2, Zenon
    <2>3. q.unread # 0 => Excused(y)  BY <1>1, Zenon
    <2>4. GoesOn(Parsed(Srv(q, h, k, w, y), got, mem), q, Asked(h, h.req + 1), k, y)
      BY <1>2, <1>4, <1>14, <2>2, <2>3, ParsedKeeps, Zenon
    <2> QED  BY <1>0, <1>10, <2>1, <2>4, Zenon
  <1> QED  BY <1>13, <1>14, Zenon

\* http_recv without one: the client closed.
FinTold(r, h, k) == Good(r) /\ ~r.pcb.cb /\ r.pool - r.hs.req = k - h.req

\* http_recv without a pbuf leaves no callbacks, and the invariant.
LEMMA RecvFinKeeps ==
    ASSUME NEW p \in Pcbs, NEW h \in HttpStates, NEW k \in Int, NEW w \in Wires, NEW y,
           y \subseteq Causes, Mid(p, h, k, w, y), p.state # "CLOSED", client.fin = TRUE, NEW mem
    PROVE  FinTold(http_recv_fin(Srv(p, h, k, w, y), mem), h, k)
PROOF
  <1>1. PICK s : s = Srv(p, h, k, w, y)  OBVIOUS
  <1>2. s.pcb = p /\ s.hs = h /\ s.pool = k  BY <1>1 DEF Srv
  <1>3. PICK r : r = http_recv_fin(s, mem)  OBVIOUS
  <1>4. r = IF p.cb THEN http_close_conn(s, mem, "client closed") ELSE s
    BY <1>2, <1>3, Zenon DEF http_recv_fin
  <1>5. SUFFICES Good(r) /\ ~r.pcb.cb /\ r.pool - r.hs.req = k - h.req  BY <1>1, <1>3, Zenon DEF FinTold
  <1>6. CASE p.cb
    <2>1. CloseDue(p, "client closed")  BY DEF CloseDue, Causes, Early
    <2>2. Excused(y \cup {"client closed"})  BY Zenon DEF Excused
    <2>3. Closed(r, p, h, k, y, "client closed")  BY <1>1, <1>4, <1>6, <2>1, <2>2, CloseKeeps, Zenon
    <2>4. GoesOn(r, p, h, k, y)  BY <2>3, ClosedGoesOn, Zenon
    <2> QED  BY <2>3, <2>4, Zenon DEF Closed, GoesOn
  <1>7. CASE ~p.cb
    <2>1. r = s  BY <1>4, <1>7, Zenon
    <2>2. Good(r)  BY <1>1, <2>1, GoodParts, Zenon
    <2> QED  BY <1>2, <1>7, <2>1, <2>2, Zenon
  <1> QED  BY <1>6, <1>7, Zenon

-----------------------------------------------------------------------------
(* tcp_process.                                                            *)

ClientTyped == client \in [snd : Nat, fin : BOOLEAN, rcv : Nat, ask : Answers]

\* Fields of the client.
LEMMA ClientFields ==
    ASSUME ClientTyped
    PROVE  client.snd \in Nat /\ client.fin \in BOOLEAN /\ client.rcv \in Nat /\ client.ask \in Answers
PROOF BY DEF ClientTyped

\* Fields of a segment, within what the client has sent and received.
LEMMA SegFields ==
    ASSUME ClientTyped, NEW seg \in Segments
    PROVE  /\ seg.seqno \in Nat /\ seg.end \in Nat /\ seg.end <= client.snd /\ seg.fin \in BOOLEAN
           /\ seg.ackno \in Nat /\ seg.ackno <= client.rcv /\ (seg.fin => client.fin)
           /\ seg.wnd \in BOOLEAN
PROOF
  <1>1. /\ seg \in [seqno : 1..client.snd, end : 1..client.snd, fin : BOOLEAN, ackno : 1..client.rcv,
                 wnd : BOOLEAN]
        /\ seg.fin => client.fin
    BY Zenon DEF Segments
  <1>2. seg.seqno \in 1..client.snd /\ seg.end \in 1..client.snd /\ seg.fin \in BOOLEAN /\ seg.ackno \in 1..client.rcv
        /\ seg.wnd \in BOOLEAN
    BY <1>1
  <1> QED  BY <1>1, <1>2, ClientFields

\* What is new in a segment.
LEMMA NewFields ==
    ASSUME ClientTyped, NEW seg \in Segments, NEW p \in Pcbs
    PROVE  /\ New(p, seg).data \in Nat /\ New(p, seg).fin \in BOOLEAN
           /\ New(p, seg).fin => client.fin
           /\ New(p, seg).data > 0 =>
                 /\ p.rcv_nxt + New(p, seg).data = seg.end
                 /\ p.state \in {"ESTABLISHED", "FIN_WAIT_1", "FIN_WAIT_2"}
           /\ Length(New(p, seg)) = New(p, seg).data + (IF New(p, seg).fin THEN 1 ELSE 0)
           /\ Length(New(p, seg)) \in Nat
PROOF
  <1>1. /\ seg.seqno \in Nat /\ seg.end \in Nat /\ seg.fin \in BOOLEAN /\ (seg.fin => client.fin)
        /\ p.rcv_nxt \in Nat
    BY SegFields, PcbFields
  <1>2. PICK n : n = New(p, seg)  OBVIOUS
  <1>3. \/ n = [data |-> 0, fin |-> FALSE]
        \/ /\ p.state \in {"ESTABLISHED", "FIN_WAIT_1", "FIN_WAIT_2"}
           /\ p.rcv_nxt < seg.end + (IF seg.fin THEN 1 ELSE 0)
           /\ n = [data |-> seg.end - p.rcv_nxt, fin |-> seg.fin]
    BY <1>2, Zenon DEF New
  <1>4. /\ n.data \in Nat /\ n.fin \in BOOLEAN /\ (n.fin => client.fin)
        /\ (n.data > 0 => p.rcv_nxt + n.data = seg.end /\ p.state \in {"ESTABLISHED", "FIN_WAIT_1", "FIN_WAIT_2"})
    <2>1. CASE n = [data |-> 0, fin |-> FALSE]  BY <2>1
    <2>2. CASE /\ p.state \in {"ESTABLISHED", "FIN_WAIT_1", "FIN_WAIT_2"}
               /\ p.rcv_nxt < seg.end + (IF seg.fin THEN 1 ELSE 0)
               /\ n = [data |-> seg.end - p.rcv_nxt, fin |-> seg.fin]
      <3>1. n.data = seg.end - p.rcv_nxt /\ n.fin = seg.fin  BY <2>2
      <3>2. n.data \in Nat
        <4>1. CASE seg.fin  BY <1>1, <2>2, <3>1, <4>1
        <4>2. CASE ~seg.fin  BY <1>1, <2>2, <3>1, <4>2
        <4> QED  BY <4>1, <4>2
      <3>3. p.rcv_nxt + n.data = seg.end  BY <1>1, <3>1
      <3> QED  BY <1>1, <2>2, <3>1, <3>2, <3>3
    <2> QED  BY <1>3, <2>1, <2>2
  <1>5. Length(n) = n.data + (IF n.fin THEN 1 ELSE 0)  BY Zenon DEF Length
  <1>6. Length(n) \in Nat  BY <1>4, <1>5
  <1> QED  BY <1>2, <1>4, <1>5, <1>6, Zenon

\* What a segment leaves alone of the pcb.
SameConn(p, q) ==
    /\ q.snd_lbb = p.snd_lbb /\ q.fin = p.fin /\ q.rxclosed = p.rxclosed
    /\ q.closepend = p.closepend /\ q.cb = p.cb
SentOk(p, q) ==
    /\ p.lastack <= q.lastack /\ q.lastack <= q.unsent /\ q.unsent <= wire.top
    /\ q.nrtx <= TCP_MAXRTX /\ q.probe <= TCP_MAXRTX

\* An acknowledgement keeps the queues in order.
LEMMA AckedKeeps ==
    ASSUME ClientTyped, NEW seg \in Segments, NEW p \in Pcbs, NEW h, NEW k, wire \in Wires, NEW y,
           Mid(p, h, k, wire, y), p.state # "CLOSED"
    PROVE  LET a == Acked(p, seg)
           IN  /\ a \in Pcbs /\ SameConn(p, a) /\ SentOk(p, a) /\ a.state = p.state
               /\ a.idle = p.idle /\ a.rcv_nxt = p.rcv_nxt /\ a.unread = p.unread
PROOF
  <1>1. p.lastack <= p.unsent /\ p.unsent <= wire.top /\ p.nrtx <= TCP_MAXRTX /\ p.probe <= TCP_MAXRTX
    BY Zenon DEF Mid, Order, Bounds
  <1>2. PICK a : a = Acked(p, seg)  OBVIOUS
  <1>3. SUFFICES /\ a \in Pcbs /\ SameConn(p, a) /\ SentOk(p, a) /\ a.state = p.state
                 /\ a.idle = p.idle /\ a.rcv_nxt = p.rcv_nxt /\ a.unread = p.unread
    BY <1>2, Zenon
  <1>4. CASE ~Acks(p, seg)
    <2>1. a = p  BY <1>2, <1>4, Zenon DEF Acked
    <2>2. p.lastack <= p.lastack  BY PcbFields
    <2> QED  BY <1>1, <2>1, <2>2, Zenon DEF SameConn, SentOk
  <1>5. CASE Acks(p, seg)
    <2>1. p.unsent \in Nat /\ p.lastack \in Nat /\ seg.ackno \in Nat /\ wire.top \in Nat
      BY PcbFields, SegFields, WireFields
    <2>2. p.lastack < seg.ackno /\ seg.ackno <= wire.top  BY <1>5, Zenon DEF Acks
    <2>3. PICK u \in Nat : u = Max({p.unsent, seg.ackno}) /\ seg.ackno <= u /\ u <= wire.top
      <3>1. PICK c \in Nat, d \in Nat : c = p.unsent /\ d = seg.ackno  BY <2>1
      <3>2. Max({c, d}) = IF c >= d THEN c ELSE d  BY MaxTwo
      <3>3. Max({c, d}) \in Nat /\ d <= Max({c, d}) /\ Max({c, d}) <= wire.top  BY <1>1, <2>1, <2>2, <3>1, <3>2
      <3> QED  BY <3>1, <3>3, Zenon
    <2>4. PICK b \in BOOLEAN : b = (seg.ackno < u)
      <3>1. (seg.ackno < u) \in BOOLEAN  BY <2>1
      <3> QED  BY <3>1, Zenon
    <2>5. PICK e \in Nat : e = seg.ackno  BY <2>1
    <2>6. a = [p EXCEPT !.lastack = e, !.unsent = u, !.nrtx = 0, !.polltmr = 0, !.rtime = b]
      BY <1>2, <1>5, <2>3, <2>4, <2>5, Zenon DEF Acked
    <2>7. a \in Pcbs
      <3>1. 0 \in Nat  OBVIOUS
      <3> QED  BY <2>6, <3>1, Zenon DEF Pcbs
    <2>8. /\ a.state = p.state /\ a.lastack = e /\ a.unsent = u /\ a.snd_lbb = p.snd_lbb
          /\ a.rcv_nxt = p.rcv_nxt /\ a.nrtx = 0 /\ a.idle = p.idle /\ a.probe = p.probe /\ a.fin = p.fin /\ a.unread = p.unread
          /\ a.cb = p.cb /\ a.rxclosed = p.rxclosed /\ a.closepend = p.closepend
      BY <2>6 DEF Pcbs
    <2>9. p.lastack <= e /\ e <= u /\ u <= wire.top /\ 0 <= TCP_MAXRTX  BY <2>1, <2>2, <2>3, <2>5, Sizes
    <2> QED  BY <1>1, <2>7, <2>8, <2>9, Zenon DEF SameConn, SentOk
  <1> QED  BY <1>4, <1>5, Zenon

\* tcp_receive, with the age and the count of probes.
Aged(p, seg) == [tcp_receive(p, seg) EXCEPT !.idle = IF p.rxclosed THEN @ ELSE 0, !.probe = 0]

\* tcp_receive adds what is new to rcv_nxt and to unread.
LEMMA ReceivedFields ==
    ASSUME ClientTyped, NEW seg \in Segments, NEW p \in Pcbs, NEW h, NEW k, wire \in Wires, NEW y,
           Mid(p, h, k, wire, y), p.state # "CLOSED"
    PROVE  LET t == Aged(p, seg)
               l == Length(New(p, seg))
           IN  /\ t \in Pcbs /\ SameConn(p, t) /\ SentOk(p, t) /\ t.state = p.state
               /\ t.idle <= TCP_TIMEOUT + 1 /\ t.rcv_nxt = p.rcv_nxt + l /\ t.unread = p.unread + l
PROOF
  <1>1. PICK a \in Pcbs : a = Acked(p, seg)  BY AckedKeeps
  <1>2. /\ SameConn(p, a) /\ SentOk(p, a) /\ a.state = p.state
        /\ a.idle = p.idle /\ a.rcv_nxt = p.rcv_nxt /\ a.unread = p.unread
    BY <1>1, AckedKeeps, Zenon
  <1>3. PICK l \in Nat : l = Length(New(p, seg))  BY NewFields
  <1>4. p.rcv_nxt \in Nat /\ p.unread \in Nat /\ p.idle \in Nat  BY PcbFields
  <1>5. PICK x \in Nat, z \in Nat : x = p.rcv_nxt + l /\ z = p.unread + l  BY <1>4
  <1>6. PICK i \in Nat : i = IF p.rxclosed THEN p.idle ELSE 0  BY <1>4
  <1>7. i <= TCP_TIMEOUT + 1
    <2>1. p.idle <= TCP_TIMEOUT + 1  BY Zenon DEF Mid, Bounds
    <2> QED  BY <1>6, <2>1, Sizes
  <1>8. PICK t : t = Aged(p, seg)  OBVIOUS
  <1>0. PICK c \in BOOLEAN : c = seg.wnd  BY SegFields
  <1>9. t = [[a EXCEPT !.rcv_nxt = x, !.unread = z, !.wnd = c] EXCEPT !.idle = i, !.probe = 0]
    <2>1. PICK b : b = tcp_receive(p, seg)  OBVIOUS
    <2>2. b = [a EXCEPT !.rcv_nxt = @ + l, !.unread = @ + l, !.wnd = c]  BY <1>0, <1>1, <1>3, <2>1, Zenon DEF tcp_receive
    <2>3. b = [a EXCEPT !.rcv_nxt = x, !.unread = z, !.wnd = c]
      <3>1. a.rcv_nxt + l = x /\ a.unread + l = z  BY <1>2, <1>5, Zenon
      <3> QED  BY <2>2, <3>1, Zenon
    <2>4. b.idle = p.idle  BY <1>2, <2>3, SMT DEF Pcbs
    <2>5. t = [b EXCEPT !.idle = IF p.rxclosed THEN b.idle ELSE 0, !.probe = 0]  BY <1>8, <2>1, Zenon DEF Aged
    <2>6. (IF p.rxclosed THEN b.idle ELSE 0) = i  BY <1>6, <2>4, Zenon
    <2> QED  BY <2>3, <2>5, <2>6, Zenon
  <1>10. t \in Pcbs
    <2>1. PICK b \in Pcbs : b = [a EXCEPT !.rcv_nxt = x, !.unread = z, !.wnd = c]  BY Zenon DEF Pcbs
    <2>2. 0 \in Nat  OBVIOUS
    <2> QED  BY <1>9, <2>1, <2>2, Zenon DEF Pcbs
  <1>11. /\ t.state = a.state /\ t.lastack = a.lastack /\ t.unsent = a.unsent /\ t.snd_lbb = a.snd_lbb
         /\ t.rcv_nxt = x /\ t.nrtx = a.nrtx /\ t.idle = i /\ t.probe = 0 /\ t.fin = a.fin /\ t.unread = z
         /\ t.cb = a.cb /\ t.rxclosed = a.rxclosed /\ t.closepend = a.closepend
    BY <1>9, SMT DEF Pcbs
  <1>12. SameConn(p, t) /\ SentOk(p, t)
    <2>1. 0 <= TCP_MAXRTX  BY Sizes
    <2> QED  BY <1>2, <1>11, <2>1, Zenon DEF SameConn, SentOk
  <1>13. /\ t \in Pcbs /\ SameConn(p, t) /\ SentOk(p, t) /\ t.state = p.state
         /\ t.idle <= TCP_TIMEOUT + 1 /\ t.rcv_nxt = p.rcv_nxt + l /\ t.unread = p.unread + l
    BY <1>2, <1>5, <1>7, <1>10, <1>11, <1>12, Zenon
  <1> QED  BY <1>3, <1>8, <1>13, Zenon

\* The states.
StateForm(st, x, new, a) ==
    /\ \/ x = st
       \/ st = "ESTABLISHED" /\ new.fin /\ x = "CLOSE_WAIT"
       \/ st = "FIN_WAIT_1" /\ new.fin /\ x = "CLOSING"
       \/ st = "FIN_WAIT_1" /\ new.fin /\ a /\ x = "TIME_WAIT"
       \/ st = "FIN_WAIT_1" /\ a /\ x = "FIN_WAIT_2"
       \/ st = "FIN_WAIT_2" /\ new.fin /\ x = "TIME_WAIT"
       \/ st = "CLOSING" /\ a /\ x = "TIME_WAIT"
       \/ st = "LAST_ACK" /\ a /\ x = "CLOSED"
    /\ st = "ESTABLISHED" => x = IF new.fin THEN "CLOSE_WAIT" ELSE st

\* Where each state may lead.
LEMMA NextStates ==
    ASSUME NEW st \in Active \ {"SYN_RCVD"}, NEW t, NEW new, NEW seg
    PROVE  StateForm(st, NextState(st, t, new, seg), new, AllAcked(t, seg))
PROOF
  <1>1. CASE st = "ESTABLISHED"  BY <1>1 DEF NextState, StateForm
  <1>2. CASE st = "FIN_WAIT_1"  BY <1>2 DEF NextState, StateForm
  <1>3. CASE st = "FIN_WAIT_2"  BY <1>3 DEF NextState, StateForm
  <1>4. CASE st = "CLOSING"  BY <1>4 DEF NextState, StateForm
  <1>5. CASE st = "LAST_ACK"  BY <1>5 DEF NextState, StateForm
  <1>6. CASE st = "CLOSE_WAIT"  BY <1>6 DEF NextState, StateForm
  <1> QED  BY <1>1, <1>2, <1>3, <1>4, <1>5, <1>6 DEF Active

Processed(p, q, new) ==
    \/ q = NoPcb /\ p.state = "LAST_ACK"
    \/ /\ q.state # "CLOSED" /\ q.cb = p.cb /\ q.rxclosed = p.rxclosed
       /\ q.rcv_nxt = p.rcv_nxt + Length(new) /\ q.unread = p.unread + Length(new)
       /\ p.state = "ESTABLISHED" => q.state = IF new.fin THEN "CLOSE_WAIT" ELSE "ESTABLISHED"

\* tcp_process keeps the invariant.
LEMMA ProcessKeeps ==
    ASSUME ClientTyped, NEW seg \in Segments, NEW p \in Pcbs, NEW h \in HttpStates, NEW k \in Int,
           wire \in Wires, NEW y, Mid(p, h, k, wire, y), p.state \in Active \ {"SYN_RCVD"}
    PROVE  LET q == tcp_process(p, seg)
           IN  q \in Pcbs /\ Mid(q, h, k, wire, y) /\ Processed(p, q, New(p, seg))
PROOF
  <1>1. p.state # "CLOSED" /\ p.state \notin {"CLOSED", "SYN_RCVD"}  BY DEF Active
  <1>2. PICK t \in Pcbs : t = Aged(p, seg)  BY <1>1, ReceivedFields
  <1>3. PICK new : new = New(p, seg)  OBVIOUS
  <1>4. PICK l \in Nat : l = Length(new)  BY <1>3, NewFields
  <1>5. /\ SameConn(p, t) /\ SentOk(p, t) /\ t.state = p.state
        /\ t.idle <= TCP_TIMEOUT + 1 /\ t.rcv_nxt = p.rcv_nxt + l /\ t.unread = p.unread + l
    BY <1>1, <1>2, <1>3, <1>4, ReceivedFields, Zenon
  <1>6. PICK x : x = NextState(p.state, t, new, seg)  OBVIOUS
  <1>7. /\ \/ x = p.state
           \/ p.state = "ESTABLISHED" /\ new.fin /\ x = "CLOSE_WAIT"
           \/ p.state = "FIN_WAIT_1" /\ new.fin /\ x = "CLOSING"
           \/ p.state = "FIN_WAIT_1" /\ new.fin /\ AllAcked(t, seg) /\ x = "TIME_WAIT"
           \/ p.state = "FIN_WAIT_1" /\ AllAcked(t, seg) /\ x = "FIN_WAIT_2"
           \/ p.state = "FIN_WAIT_2" /\ new.fin /\ x = "TIME_WAIT"
           \/ p.state = "CLOSING" /\ AllAcked(t, seg) /\ x = "TIME_WAIT"
           \/ p.state = "LAST_ACK" /\ AllAcked(t, seg) /\ x = "CLOSED"
        /\ p.state = "ESTABLISHED" => x = IF new.fin THEN "CLOSE_WAIT" ELSE p.state
    <2>1. StateForm(p.state, NextState(p.state, t, new, seg), new, AllAcked(t, seg))
      BY NextStates, Zenon
    <2> QED  BY <1>6, <2>1, Zenon DEF StateForm
  <1>8. new.fin => client.fin  BY <1>3, NewFields, Zenon
  <1>9. PICK q : q = tcp_process(p, seg)  OBVIOUS
  <1>10. q = CASE x = "CLOSED" -> NoPcb
               [] x = "TIME_WAIT" -> [t EXCEPT !.state = x, !.unsent = t.snd_lbb, !.lastack = t.snd_lbb,
                                              !.rtime = FALSE, !.persist = FALSE, !.wnd = TRUE]
               [] OTHER -> [t EXCEPT !.state = x]
    BY <1>2, <1>3, <1>6, <1>9, Zenon DEF tcp_process, Aged
  <1>11. SUFFICES q \in Pcbs /\ Mid(q, h, k, wire, y) /\ Processed(p, q, new)
    BY <1>3, <1>9, Zenon
  <1>12. /\ wire.top <= p.snd_lbb /\ (p.state = "FIN_WAIT_2" => wire.top = p.snd_lbb)
         /\ (p.state \in {"CLOSE_WAIT", "LAST_ACK", "CLOSING", "TIME_WAIT"} => client.fin)
         /\ (p.cb => p.state \in Open)
    BY <1>1 DEF Mid, Order, Reasons, Own
  <1>13. AllAcked(t, seg) => wire.top = p.snd_lbb
    <2>1. AllAcked(t, seg) => ~(t.unsent < t.snd_lbb)  BY Zenon DEF AllAcked, Pending
    <2>2. t.snd_lbb = p.snd_lbb /\ t.unsent <= wire.top  BY <1>5, Zenon DEF SameConn, SentOk
    <2>3. t.unsent \in Nat /\ p.snd_lbb \in Nat /\ wire.top \in Nat  BY PcbFields, WireFields
    <2> QED  BY <1>12, <2>1, <2>2, <2>3
  <1>14. CASE x = "CLOSED"
    <2>1. q = NoPcb  BY <1>10, <1>14
    <2>2. p.state = "LAST_ACK"  BY <1>7, <1>14 DEF Active
    <2>3. client.fin /\ ~p.cb  BY <1>12, <2>2 DEF Open
    <2>4. h = NoState  BY <2>3, Zenon DEF Mid, Own
    <2>5. Excused(y)  BY <2>3, Zenon DEF Excused
    <2>6. "listening" \notin y  BY <1>1, NoFields, Zenon DEF Mid, Reasons
    <2>7. Mid(NoPcb, NoState, k - h.req, wire, y)  BY <2>5, <2>6, GoneKeeps, Zenon
    <2>8. k - h.req = k  BY <2>4, NoFields
    <2> QED  BY <2>1, <2>2, <2>4, <2>7, <2>8, NoTypes, Zenon DEF Processed
  <1>15. ASSUME NEW b \in Pcbs, b.state = x, x # "CLOSED", SameConn(p, b), b.rcv_nxt = t.rcv_nxt, b.unread = t.unread,
                SentOk(p, b), b.idle <= TCP_TIMEOUT + 1
         PROVE  Mid(b, h, k, wire, y) /\ Processed(p, b, new)
    <2>1. p.rcv_nxt <= b.rcv_nxt  BY <1>5, <1>15, PcbFields
    <2>2. x = p.state \/ Goes(p, b, wire)
      <3>1. CASE p.state = "ESTABLISHED" /\ new.fin /\ x = "CLOSE_WAIT"
        BY <1>8, <1>15, <3>1 DEF Goes, Active, Fins, Open
      <3>2. CASE p.state = "FIN_WAIT_1" /\ new.fin /\ x = "CLOSING"
        BY <1>8, <1>12, <1>15, <3>2 DEF Goes, Active, Fins, Open
      <3>3. CASE p.state = "FIN_WAIT_1" /\ new.fin /\ AllAcked(t, seg) /\ x = "TIME_WAIT"
        BY <1>8, <1>12, <1>13, <1>15, <3>3 DEF Goes, Active, Fins, Open
      <3>4. CASE p.state = "FIN_WAIT_1" /\ AllAcked(t, seg) /\ x = "FIN_WAIT_2"
        BY <1>12, <1>13, <1>15, <3>4 DEF Goes, Active, Fins, Open
      <3>5. CASE p.state = "FIN_WAIT_2" /\ new.fin /\ x = "TIME_WAIT"
        BY <1>8, <1>12, <1>15, <3>5 DEF Goes, Active, Fins, Open
      <3>6. CASE p.state = "CLOSING" /\ AllAcked(t, seg) /\ x = "TIME_WAIT"
        BY <1>12, <1>13, <1>15, <3>6 DEF Goes, Active, Fins, Open
      <3> QED  BY <1>7, <1>15, <3>1, <3>2, <3>3, <3>4, <3>5, <3>6, Zenon
    <2>3. Moves(p, b, wire)
      <3>1. p.state # "SYN_RCVD"  OBVIOUS
      <3> QED  BY <1>1, <1>15, <2>1, <2>2, <3>1, Zenon DEF Moves, SameConn, SentOk
    <2>4. Mid(b, h, k, wire, y)  BY <2>3, MovedKeeps, Zenon
    <2>5. Processed(p, b, new)
      BY <1>4, <1>5, <1>7, <1>15, Zenon DEF Processed, SameConn
    <2> QED  BY <2>4, <2>5
  <1>16. x # "CLOSED" => x \in TcpStates  BY <1>7 DEF TcpStates, Active
  <1>17. CASE x = "TIME_WAIT"
    <2>1. PICK n \in Nat : n = t.snd_lbb  BY PcbFields
    <2>2. q = [t EXCEPT !.state = x, !.unsent = n, !.lastack = n, !.rtime = FALSE,
                       !.persist = FALSE, !.wnd = TRUE]
      BY <1>10, <1>17, <2>1
    <2>3. q \in Pcbs
      <3>1. x \in TcpStates  BY <1>16, <1>17
      <3> QED  BY <2>2, <3>1, Zenon DEF Pcbs
    <2>4. /\ q.state = x /\ q.lastack = n /\ q.unsent = n /\ q.snd_lbb = t.snd_lbb
          /\ q.rcv_nxt = t.rcv_nxt /\ q.nrtx = t.nrtx /\ q.idle = t.idle /\ q.probe = t.probe /\ q.fin = t.fin /\ q.unread = t.unread
          /\ q.cb = t.cb /\ q.rxclosed = t.rxclosed /\ q.closepend = t.closepend
      BY <2>2, SMT DEF Pcbs
    <2>5. SameConn(p, q)  BY <1>5, <2>4, Zenon DEF SameConn
    <2>6. n = p.snd_lbb  BY <1>5, <2>1, Zenon DEF SameConn
    <2>7. wire.top = p.snd_lbb
      <3>1. p.state \in {"FIN_WAIT_2"} \/ AllAcked(t, seg)  BY <1>7, <1>17 DEF Active
      <3> QED  BY <1>12, <1>13, <3>1
    <2>8. p.lastack <= n /\ n <= n /\ n <= wire.top
      <3>1. p.lastack <= p.unsent /\ p.unsent <= p.snd_lbb  BY Zenon DEF Mid, Order
      <3> QED  BY <2>6, <2>7, <3>1, PcbFields, WireFields
    <2>9. SentOk(p, q)  BY <1>5, <2>4, <2>8, Zenon DEF SentOk
    <2>10. x # "CLOSED" /\ q.idle <= TCP_TIMEOUT + 1  BY <1>5, <1>17, <2>4
    <2> QED  BY <1>15, <2>3, <2>4, <2>5, <2>9, <2>10, Zenon
  <1>18. CASE x # "CLOSED" /\ x # "TIME_WAIT"
    <2>2. q = [t EXCEPT !.state = x]  BY <1>10, <1>18
    <2>3. q \in Pcbs  BY <1>16, <1>18, <2>2, Zenon DEF Pcbs
    <2>4. /\ q.state = x /\ q.lastack = t.lastack /\ q.unsent = t.unsent /\ q.snd_lbb = t.snd_lbb
          /\ q.rcv_nxt = t.rcv_nxt /\ q.nrtx = t.nrtx /\ q.idle = t.idle /\ q.probe = t.probe /\ q.fin = t.fin /\ q.unread = t.unread
          /\ q.cb = t.cb /\ q.rxclosed = t.rxclosed /\ q.closepend = t.closepend
      BY <2>2, SMT DEF Pcbs
    <2>5. SameConn(p, q) /\ SentOk(p, q)  BY <1>5, <2>4, Zenon DEF SameConn, SentOk
    <2> QED  BY <1>5, <1>15, <1>18, <2>3, <2>4, <2>5, Zenon
  <1> QED  BY <1>14, <1>17, <1>18, Zenon

-----------------------------------------------------------------------------
(* tcp_input.                                                              *)

\* One value is the server that its parts make.
LEMMA GoodIsSrv ==
    ASSUME NEW s, Good(s)
    PROVE  s = Srv(s.pcb, s.hs, s.pool, s.wire, s.why)
PROOF BY Rebuilt, Zenon DEF Good

\* The pbufs that are not part of the request.
Net(s) == s.pool - s.hs.req

\* After the data has been handed over: only a FIN is left to be told of.
AtFin(s, new) ==
    Good(s) /\ (s.pcb.cb => /\ s.pcb.state = IF new.fin THEN "CLOSE_WAIT" ELSE "ESTABLISHED"
                            /\ s.pcb.unread = IF new.fin THEN 1 ELSE 0)

AfterFin(r, s) == Good(r) /\ Steady(r.pcb) /\ Net(r) = Net(s) /\ (s.pcb.state = "CLOSED" => r = s)

\* The callback for a FIN ends with a state that a step may end with.
LEMMA FinishedKeeps ==
    ASSUME NEW s, NEW new, new.fin \in BOOLEAN, AtFin(s, new), new.fin => client.fin, client.fin \in BOOLEAN, NEW mem
    PROVE  AfterFin(Finished(s, new, mem), s)
PROOF
  <1>1. PICK r : r = Finished(s, new, mem)  OBVIOUS
  <1>2. SUFFICES /\ Good(r) /\ Steady(r.pcb) /\ Net(r) = Net(s)
                 /\ (s.pcb.state = "CLOSED" => r = s)
    BY <1>1, Zenon DEF AfterFin
  <1>3. r = IF s.pcb.state = "CLOSED" \/ ~new.fin THEN s ELSE http_recv_fin(tcp_recved(s, 1), mem)
    BY <1>1, Zenon DEF Finished
  <1>4. CASE s.pcb.state = "CLOSED"
    <2>1. ~s.pcb.cb
      <3>1. s.pcb.cb => s.pcb.state \in Open  BY Zenon DEF AtFin, Good, Mid, Own
      <3> QED  BY <1>4, <3>1 DEF Open
    <2> QED  BY <1>3, <1>4, <2>1, Zenon DEF AtFin, Steady
  <1>5. CASE ~new.fin
    <2>1. s.pcb.cb => s.pcb.state = "ESTABLISHED" /\ s.pcb.unread = 0  BY <1>5, Zenon DEF AtFin
    <2> QED  BY <1>3, <1>5, <2>1, Zenon DEF AtFin, Steady
  <1>6. CASE s.pcb.state # "CLOSED" /\ new.fin
    <2>1. PICK p \in Pcbs, h \in HttpStates, k \in Int, w \in Wires, y \in SUBSET Causes :
             /\ p = s.pcb /\ h = s.hs /\ k = s.pool /\ w = s.wire /\ y = s.why /\ s = Srv(p, h, k, w, y)
             /\ Mid(p, h, k, w, y)
      BY GoodIsSrv, Zenon DEF AtFin, Good
    <2>2. PICK q \in Pcbs : q = Taken(p, 1)  BY TakenFields
    <2>3. Mid(q, h, k, w, y) /\ q.state = p.state
      <3>1. 1 \in Nat  OBVIOUS
      <3>2. Mid(q, h, k, w, y)  BY <1>6, <2>1, <2>2, <3>1, TakenKeeps, Zenon
      <3> QED  BY <2>2, <3>1, <3>2, TakenFields, Zenon
    <2>4. tcp_recved(s, 1) = Srv(q, h, k, w, y)
      <3>1. tcp_recved(Srv(p, h, k, w, y), 1) = Srv(Taken(p, 1), h, k, w, y)  BY RecvedShape
      <3> QED  BY <2>1, <2>2, <3>1, Zenon
    <2>5. r = http_recv_fin(Srv(q, h, k, w, y), mem)  BY <1>3, <1>6, <2>4, Zenon
    <2>6. client.fin = TRUE  BY <1>6
    <2>7. Good(r) /\ ~r.pcb.cb /\ r.pool - r.hs.req = k - h.req
      <3>1. y \subseteq Causes  OBVIOUS
      <3>2. q.state # "CLOSED"  BY <1>6, <2>1, <2>3, Zenon
      <3>3. FinTold(http_recv_fin(Srv(q, h, k, w, y), mem), h, k)  BY <2>3, <2>6, <3>1, <3>2, RecvFinKeeps, Zenon
      <3> QED  BY <2>5, <3>3, Zenon DEF FinTold
    <2>8. Net(r) = Net(s)  BY <2>1, <2>7, Zenon DEF Net
    <2> QED  BY <1>6, <2>7, <2>8, Zenon DEF Steady
  <1> QED  BY <1>4, <1>5, <1>6, Zenon

\* tcp_abort of a connection that has no callbacks.
LEMMA AbortShape ==
    ASSUME NEW p \in Pcbs, NEW h, NEW k, NEW w, NEW y, ~p.cb
    PROVE  \/ tcp_abort(Srv(p, h, k, w, y)) = Srv(NoPcb, h, k, w, y)
           \/ tcp_abort(Srv(p, h, k, w, y)) = Srv(NoPcb, h, k, [w EXCEPT !.rst = TRUE], y)
PROOF
  <1>1. PICK s : s = Srv(p, h, k, w, y)  OBVIOUS
  <1>2. s.pcb = p /\ s.hs = h /\ s.pool = k /\ s.wire = w /\ s.why = y  BY <1>1 DEF Srv
  <1>3. PICK a : a = [s EXCEPT !.pcb = NoPcb]  OBVIOUS
  <1>4. a = Srv(NoPcb, h, k, w, y)
    <2>1. IsSrv(a)  BY <1>1, <1>3, SrvDomain, Zenon DEF IsSrv
    <2>2. a.pcb = NoPcb /\ a.hs = h /\ a.pool = k /\ a.wire = w /\ a.why = y  BY <1>1, <1>3 DEF Srv
    <2> QED  BY <2>1, <2>2, Rebuilt, Zenon
  <1>5. PICK b : b = Removed(s, {})  OBVIOUS
  <1>6. b = Srv(NoPcb, h, k, w, y)
    <2>1. http_err(s) = s  BY <1>2, Zenon DEF http_err
    <2>2. b = [s EXCEPT !.pcb = NoPcb, !.why = @ \cup {}]  BY <1>5, <2>1, Zenon DEF Removed
    <2>3. IsSrv(b)  BY <1>1, <2>2, SrvDomain, Zenon DEF IsSrv
    <2>4. b.pcb = NoPcb /\ b.hs = h /\ b.pool = k /\ b.wire = w  BY <1>1, <2>2 DEF Srv
    <2>5. b.why = y \cup {}  BY <1>1, <2>2, SMT DEF Srv
    <2>6. b.why = y  BY <2>5
    <2> QED  BY <2>3, <2>4, <2>6, Rebuilt, Zenon
  <1>7. PICK c : c = [b EXCEPT !.wire.rst = TRUE]  OBVIOUS
  <1>8. c = Srv(NoPcb, h, k, [w EXCEPT !.rst = TRUE], y)
    <2>1. IsSrv(c)  BY <1>6, <1>7, SrvDomain, Zenon DEF IsSrv
    <2>2. c.pcb = NoPcb /\ c.hs = h /\ c.pool = k /\ c.why = y  BY <1>6, <1>7 DEF Srv
    <2>3. c.wire = [w EXCEPT !.rst = TRUE]  BY <1>6, <1>7 DEF Srv
    <2> QED  BY <2>1, <2>2, <2>3, Rebuilt, Zenon
  <1>9. tcp_abort(s) = IF s.pcb.state = "TIME_WAIT" THEN a ELSE c
    BY <1>3, <1>5, <1>7, Zenon DEF tcp_abort
  <1> QED  BY <1>1, <1>4, <1>8, <1>9, Zenon

\* Data for a connection the application has closed.
Aborted(r, h, m) == Good(r) /\ r.pcb = NoPcb /\ Net(r) = m - h.req

\* Aborting for data after the close keeps the invariant where a reset is excused.
LEMMA AbortKeeps ==
    ASSUME NEW p \in Pcbs, NEW h \in HttpStates, NEW k \in Int, NEW w \in Wires, NEW y,
           y \subseteq Causes, Mid(p, h, k - 1, w, y), ~p.cb, Excused(y), p.state # "CLOSED"
    PROVE  Aborted([tcp_abort(Srv(p, h, k, w, y)) EXCEPT !.pool = @ - 1], h, k - 1)
PROOF
  <1>1. PICK a : a = tcp_abort(Srv(p, h, k, w, y))  OBVIOUS
  <1>2. PICK v \in Wires : v.top = w.top /\ v.fin = w.fin /\ a = Srv(NoPcb, h, k, v, y)
    <2>1. CASE a = Srv(NoPcb, h, k, w, y)  BY <2>1, Zenon
    <2>2. CASE a = Srv(NoPcb, h, k, [w EXCEPT !.rst = TRUE], y)
      <3>1. PICK v \in Wires : v = [w EXCEPT !.rst = TRUE]  BY RstSent
      <3>2. v.top = w.top /\ v.fin = w.fin  BY <3>1, RstSent, Zenon
      <3> QED  BY <2>2, <3>1, <3>2, Zenon
    <2>3. a = Srv(NoPcb, h, k, w, y) \/ a = Srv(NoPcb, h, k, [w EXCEPT !.rst = TRUE], y)
      BY <1>1, AbortShape
    <2> QED  BY <2>1, <2>2, <2>3, Zenon
  <1>3. PICK m \in Int : m = k - 1  OBVIOUS
  <1>4. PICK r : r = [a EXCEPT !.pool = @ - 1]  OBVIOUS
  <1>5. r = Srv(NoPcb, h, m, v, y)
    <2>1. IsSrv(r)  BY <1>2, <1>4, SrvDomain, Zenon DEF IsSrv
    <2>2. r.pcb = NoPcb /\ r.hs = h /\ r.wire = v /\ r.why = y  BY <1>2, <1>4, SMT DEF Srv
    <2>3. r.pool = m  BY <1>2, <1>3, <1>4, SMT DEF Srv
    <2> QED  BY <2>1, <2>2, <2>3, Rebuilt, Zenon
  <1>6. h = NoState  BY Zenon DEF Mid, Own
  <1>7. m - h.req = m  BY <1>6, NoFields
  <1>8. "listening" \notin y  BY NoFields, Zenon DEF Mid, Reasons
  <1>9. Mid(p, h, m, w, y)  BY <1>3, Zenon
  <1>10. Mid(NoPcb, NoState, m - h.req, v, y)  BY <1>2, <1>8, <1>9, GoneKeeps, Zenon
  <1>11. Mid(NoPcb, h, m, v, y)  BY <1>6, <1>7, <1>10, Zenon
  <1>12. Good(r)  BY <1>5, <1>11, NoTypes, GoodParts, Zenon
  <1>13. r.pcb = NoPcb /\ r.hs = h /\ r.pool = m  BY <1>5 DEF Srv
  <1>14. Net(r) = k - 1 - h.req  BY <1>3, <1>13, Zenon DEF Net
  <1> QED  BY <1>1, <1>4, <1>12, <1>13, <1>14, Zenon DEF Aborted

\* http_sent after an acknowledgement, for a connection with callbacks: k
\* counts the pbuf that came with it.
SentForm(s, q, h, k, y) == GoesOn(s, q, h, k, y) /\ (~s.pcb.cb => h.handle /\ "done" \in s.why)

\* http_sent closes a connection only when its file is done.
LEMMA SentOpen ==
    ASSUME NEW p \in Pcbs, NEW q \in Pcbs, NEW h \in HttpStates, NEW k \in Int, NEW w \in Wires, NEW y,
           y \subseteq Causes, Mid(q, h, k, w, y), q.cb = TRUE, NEW mem \in Nat, NEW acked,
           acked => Queued(q) < Queued(p), ~h.handle => p.snd_lbb = 1, h.handle /\ q.unread # 0 => Excused(y)
    PROVE  SentForm(Sent(Srv(q, h, k, w, y), acked, mem), q, h, k, y)
PROOF
  <1>1. PICK s : s = Sent(Srv(q, h, k, w, y), acked, mem)  OBVIOUS
  <1>2. SUFFICES SentForm(s, q, h, k, y)  BY <1>1, Zenon
  <1>3. CASE acked
    <2>1. s = http_sent(Srv(q, h, k, w, y), mem)  BY <1>1, <1>3, Zenon DEF Sent
    <2>2. h.handle
      <3>1. SUFFICES ASSUME ~h.handle PROVE FALSE  BY Zenon
      <3>2. Queued(p) = 0  BY <3>1, QueuedNone
      <3> QED  BY <1>3, <3>2, QueuedFinite
    <2>3. Served(s, q, h, k, y)  BY <2>1, <2>2, SentKeeps, Zenon
    <2> QED  BY <2>2, <2>3, Zenon DEF Served, SentForm
  <1>4. CASE ~acked
    <2>1. s = Srv(q, h, k, w, y)  BY <1>1, <1>4, Zenon DEF Sent
    <2>2. Good(s)  BY <2>1, GoodParts, Zenon
    <2>3. s.pcb = q /\ s.hs = h /\ s.pool = k /\ s.why = y  BY <2>1 DEF Srv
    <2> QED  BY <2>2, <2>3, Zenon DEF SentForm, GoesOn
  <1> QED  BY <1>3, <1>4, Zenon

\* The data is handed over, for a connection that still has callbacks.
Handed(r, s, new) == AtFin(r, new) /\ Net(r) = Net(s) - (IF new.data > 0 THEN 1 ELSE 0)
Arrived(s, new) ==
    /\ s.pcb.state = IF new.fin THEN "CLOSE_WAIT" ELSE "ESTABLISHED"
    /\ s.pcb.unread = new.data + (IF new.fin THEN 1 ELSE 0)

\* http_recv hands the pbuf on: freed or kept for the request.
LEMMA ReceivedOpen ==
    ASSUME ClientTyped, NEW s, Good(s), s.pcb.cb = TRUE, NEW new, new.data \in Nat, new.fin \in BOOLEAN,
           new.fin => client.fin,
           NEW seg, seg.end \in Nat, NEW mem \in Nat,
           new.data > 0 => Net(s) >= 1 /\ seg.end <= s.pcb.rcv_nxt,
           Arrived(s, new)
    PROVE  Handed(Received(s, new, seg, mem), s, new)
PROOF
  <1>0. /\ s.pcb.state = IF new.fin THEN "CLOSE_WAIT" ELSE "ESTABLISHED"
        /\ s.pcb.unread = new.data + (IF new.fin THEN 1 ELSE 0)
    BY Zenon DEF Arrived
  <1>1. PICK r : r = Received(s, new, seg, mem)  OBVIOUS
  <1>2. SUFFICES AtFin(r, new) /\ Net(r) = Net(s) - (IF new.data > 0 THEN 1 ELSE 0)
    BY <1>1, Zenon DEF Handed
  <1>3. PICK p \in Pcbs, h \in HttpStates, k \in Int, w \in Wires, y \in SUBSET Causes :
             /\ p = s.pcb /\ h = s.hs /\ k = s.pool /\ w = s.wire /\ y = s.why /\ s = Srv(p, h, k, w, y)
             /\ Mid(p, h, k, w, y)
      BY GoodIsSrv, Zenon DEF Good
  <1>4. p.state # "CLOSED" /\ ~p.rxclosed
    <2>1. p.state \in Open /\ ~p.rxclosed  BY <1>3, Zenon DEF Mid, Own
    <2> QED  BY <2>1 DEF Open
  <1>5. k \in Int /\ h.req \in Nat /\ Net(s) = k - h.req  BY <1>3, HsFields DEF Net
  <1>6. r = CASE s.pcb.state = "CLOSED" \/ new.data = 0 -> s
              [] s.pcb.state # "CLOSED" /\ new.data > 0 /\ s.pcb.rxclosed -> [tcp_abort(s) EXCEPT !.pool = @ - 1]
              [] OTHER -> http_recv(s, new.data, seg.end - 1, mem)
    BY <1>1, Zenon DEF Received
  <1>7. CASE new.data = 0
    <2>1. r = s  BY <1>3, <1>4, <1>6, <1>7
    <2>2. s.pcb.unread = IF new.fin THEN 1 ELSE 0  BY <1>0, <1>7
    <2>3. Net(r) = Net(s) - (IF new.data > 0 THEN 1 ELSE 0)  BY <1>5, <1>7, <2>1
    <2> QED  BY <1>0, <2>1, <2>2, <2>3, Zenon DEF AtFin
  <1>8. CASE new.data > 0
    <2>1. PICK n \in Nat, got \in Int : n = new.data /\ got = seg.end - 1  OBVIOUS
    <2>2. r = http_recv(s, n, got, mem)  BY <1>3, <1>4, <1>6, <1>8, <2>1
    <2>3. ~(got < ReqLen) => p.rcv_nxt > ReqLen  BY <1>3, <1>8, <2>1, Sizes, PcbFields
    <2>4. k >= h.req + 1  BY <1>5, <1>8
    <2>5. PICK q \in Pcbs : q = Taken(p, n)  BY TakenFields
    <2>6. q.unread = (IF new.fin THEN 1 ELSE 0) /\ q.state = p.state
      <3>1. q.unread = (IF p.unread >= n THEN p.unread - n ELSE 0) /\ q.state = p.state
        <4>1. Left(p, n, Taken(p, n).unread) /\ Taken(p, n).state = p.state  BY TakenLeft, Zenon
        <4> QED  BY <2>5, <4>1, Zenon DEF Left
      <3>2. p.unread = n + (IF new.fin THEN 1 ELSE 0)  BY <1>0, <1>3, <2>1, Zenon
      <3> QED  BY <3>1, <3>2
    <2>7. q.unread # 0 => Excused(y)
      <3>1. q.unread # 0 => new.fin  BY <2>6
      <3> QED  BY <3>1, Zenon DEF Excused
    <2>8. client.ask \in Answers  BY ClientFields
    <2>9. p.cb = TRUE /\ y \subseteq Causes  BY <1>3
    <2>10. PICK x \in Nat : x = h.req + 1  BY <1>5
    <2>11. PICK g : g = Asked(h, x)  OBVIOUS
    <2>12. g.req = x  BY <2>11, AskedFields, Zenon
    <2>13. GoesOn(r, q, g, k, y)
      <3>1. GoesOn(http_recv(Srv(p, h, k, w, y), n, got, mem), Taken(p, n), Asked(h, h.req + 1), k, y)
        BY <1>3, <2>3, <2>4, <2>5, <2>7, <2>8, <2>9, RecvKeeps, Zenon
      <3> QED  BY <1>3, <2>2, <2>5, <2>10, <2>11, <3>1, Zenon
    <2>14. Net(r) = k - x  BY <2>12, <2>13, Zenon DEF GoesOn, Net
    <2>15. Net(r) = Net(s) - (IF new.data > 0 THEN 1 ELSE 0)  BY <1>5, <1>8, <2>10, <2>14
    <2>16. AtFin(r, new)  BY <1>0, <1>3, <2>6, <2>13, Zenon DEF AtFin, GoesOn
    <2> QED  BY <2>15, <2>16, Zenon
  <1> QED  BY <1>7, <1>8

\* tcp_input in terms of its parts.
InputForm(p, q, h, k, w, y, new, acked, seg, mem) ==
    Finished(Received(Sent(Srv(q, h, IF new.data > 0 THEN k + 1 ELSE k, w, y), acked, mem), new, seg, mem), new, mem)

\* tcp_input is tcp_process and the three callbacks in their order.
LEMMA InputShape ==
    ASSUME NEW p \in Pcbs, NEW h, NEW k, NEW w, NEW y, NEW seg, NEW mem
    PROVE  tcp_input(Srv(p, h, k, w, y), seg, mem)
             = InputForm(p, tcp_process(p, seg), h, k, w, y, New(p, seg),
                         Acks(p, seg) /\ Queued(tcp_process(p, seg)) < Queued(p), seg, mem)
PROOF
  <1>1. PICK s : s = Srv(p, h, k, w, y)  OBVIOUS
  <1>2. s.pcb = p  BY <1>1 DEF Srv
  <1>3. PICK new, q : new = New(p, seg) /\ q = tcp_process(p, seg)  OBVIOUS
  <1>4. PICK t : t = [s EXCEPT !.pcb = q, !.pool = IF new.data > 0 THEN @ + 1 ELSE @]  OBVIOUS
  <1>5. PICK m : m = IF new.data > 0 THEN k + 1 ELSE k  OBVIOUS
  <1>6. t = Srv(q, h, m, w, y)
    <2>1. IsSrv(t)  BY <1>1, <1>4, SrvDomain, Zenon DEF IsSrv
    <2>2. t.pcb = q /\ t.hs = h /\ t.wire = w /\ t.why = y  BY <1>1, <1>4, SMT DEF Srv
    <2>3. t.pool = m  BY <1>1, <1>4, <1>5, SMT DEF Srv
    <2> QED  BY <2>1, <2>2, <2>3, Rebuilt, Zenon
  <1>7. tcp_input(s, seg, mem)
          = Finished(Received(Sent(t, Acks(p, seg) /\ Queued(q) < Queued(p), mem), new, seg, mem), new, mem)
    BY <1>2, <1>3, <1>4, Zenon DEF tcp_input
  <1> QED  BY <1>1, <1>3, <1>5, <1>6, <1>7, Zenon DEF InputForm

\* More pbufs in use.
LEMMA PoolMore ==
    ASSUME NEW p, NEW h \in HttpStates, NEW k \in Int, NEW w, NEW y, Mid(p, h, k, w, y), NEW m \in Int, k <= m
    PROVE  Mid(p, h, m, w, y)
PROOF
  <1>1. k >= h.req  BY Zenon DEF Mid
  <1>2. m >= h.req  BY <1>1, HsFields
  <1> QED  BY <1>2, Zenon DEF Mid

\* What tcp_input returns: the pbuf is freed, kept as part of the request, or
\* lost in the step in which http_sent resets the connection.
Returned(r, h, k, y) ==
    /\ Good(r) /\ Steady(r.pcb)
    /\ Net(r) = k - h.req \/ (h.handle /\ "done" \in r.why \ y /\ r.pcb.state = "CLOSED")

\* tcp_input keeps the invariant and gives every pbuf back, but in the one case.
LEMMA InputKeeps ==
    ASSUME ClientTyped, NEW seg \in Segments, NEW p \in Pcbs, NEW h \in HttpStates, NEW k \in Int,
           wire \in Wires, NEW y, y \subseteq Causes, Mid(p, h, k, wire, y), Steady(p),
           p.state \in Active \ {"SYN_RCVD"}, NEW mem \in Nat
    PROVE  Returned(tcp_input(Srv(p, h, k, wire, y), seg, mem), h, k, y)
PROOF
  <1>1. PICK q \in Pcbs : q = tcp_process(p, seg)  BY ProcessKeeps
  <1>2. PICK new : new = New(p, seg)  OBVIOUS
  <1>3. Mid(q, h, k, wire, y) /\ Processed(p, q, new)  BY <1>1, <1>2, ProcessKeeps, Zenon
  <1>4. PICK acked : acked = (Acks(p, seg) /\ Queued(q) < Queued(p))  OBVIOUS
  <1>5. /\ new.data \in Nat /\ new.fin \in BOOLEAN /\ (new.fin => client.fin)
        /\ (new.data > 0 => p.rcv_nxt + new.data = seg.end /\ p.state \in {"ESTABLISHED", "FIN_WAIT_1", "FIN_WAIT_2"})
        /\ Length(new) = new.data + (IF new.fin THEN 1 ELSE 0)
    BY <1>2, NewFields, Zenon
  <1>6. /\ seg.end \in Nat /\ seg.end <= client.snd /\ client.snd \in Nat /\ p.rcv_nxt \in Nat
        /\ client.fin \in BOOLEAN /\ ReqLen \in Nat /\ h.req \in Nat
    BY SegFields, ClientFields, PcbFields, Sizes, HsFields
  <1>7. PICK m \in Int : m = IF new.data > 0 THEN k + 1 ELSE k  OBVIOUS
  <1>8. Mid(q, h, m, wire, y)
    <2>1. k <= m  BY <1>7
    <2> QED  BY <1>3, <2>1, PoolMore, Zenon
  <1>9. PICK t : t = Srv(q, h, m, wire, y)  OBVIOUS
  <1>10. PICK s : s = Sent(t, acked, mem)  OBVIOUS
  <1>11. PICK v : v = Received(s, new, seg, mem)  OBVIOUS
  <1>12. PICK r : r = Finished(v, new, mem)  OBVIOUS
  <1>13. r = tcp_input(Srv(p, h, k, wire, y), seg, mem)
    <2>1. tcp_input(Srv(p, h, k, wire, y), seg, mem)
             = InputForm(p, tcp_process(p, seg), h, k, wire, y, New(p, seg),
                         Acks(p, seg) /\ Queued(tcp_process(p, seg)) < Queued(p), seg, mem)
      BY InputShape
    <2>2. tcp_input(Srv(p, h, k, wire, y), seg, mem) = InputForm(p, q, h, k, wire, y, new, acked, seg, mem)
      BY <1>1, <1>2, <1>4, <2>1, Zenon
    <2> QED  BY <1>7, <1>9, <1>10, <1>11, <1>12, <2>2, Zenon DEF InputForm
  <1>14. SUFFICES Returned(r, h, k, y)  BY <1>13, Zenon
  <1>15. t.pcb = q /\ t.hs = h /\ t.pool = m /\ t.why = y  BY <1>9 DEF Srv
  <1>16. Good(t)  BY <1>8, <1>9, GoodParts, Zenon
  <1>17. v = CASE s.pcb.state = "CLOSED" \/ new.data = 0 -> s
              [] s.pcb.state # "CLOSED" /\ new.data > 0 /\ s.pcb.rxclosed -> [tcp_abort(s) EXCEPT !.pool = @ - 1]
              [] OTHER -> http_recv(s, new.data, seg.end - 1, mem)
    BY <1>11, Zenon DEF Received
  <1>18. ASSUME AtFin(v, new) PROVE Good(r) /\ Steady(r.pcb) /\ Net(r) = Net(v) /\ (v.pcb.state = "CLOSED" => r = v)
    <2>0. AtFin(v, new) /\ new.fin \in BOOLEAN /\ (new.fin => client.fin) /\ client.fin \in BOOLEAN
      BY <1>5, <1>6, <1>18, Zenon
    <2>1. AfterFin(Finished(v, new, mem), v)  BY <2>0, FinishedKeeps
    <2> QED  BY <1>12, <2>1, Zenon DEF AfterFin
  <1>19. h.handle \/ ~p.cb => p.rcv_nxt > ReqLen \/ Excused(y)
    <2>1. p.state \notin {"CLOSED", "SYN_RCVD"}  BY DEF Active
    <2>2. ~p.cb => p.rcv_nxt > ReqLen \/ Excused(y)  BY <2>1, Zenon DEF Mid, Reasons
    <2> QED  BY <2>2, Zenon DEF Mid, Reasons
  <1>20. new.data > 0 /\ p.rcv_nxt > ReqLen => Excused(y)
    <2>1. new.data > 0 /\ p.rcv_nxt > ReqLen => client.snd > ReqLen + 1  BY <1>5, <1>6
    <2> QED  BY <2>1, Zenon DEF Excused
  <1>21. CASE ~q.cb
    <2>1. s = t
      <3>1. http_sent(t, mem) = t  BY <1>15, <1>21, Zenon DEF http_sent
      <3> QED  BY <1>10, <3>1, Zenon DEF Sent
    <2>2. CASE q.state = "CLOSED" \/ new.data = 0
      <3>1. v = t  BY <1>15, <1>17, <2>1, <2>2
      <3>2. AtFin(v, new)  BY <1>15, <1>16, <1>21, <3>1, Zenon DEF AtFin
      <3>3. new.data = 0
        <4>1. q.state = "CLOSED" => p.state = "LAST_ACK"  BY <1>3, Zenon DEF Processed
        <4> QED  BY <1>5, <2>2, <4>1
      <3>4. m = k  BY <1>7, <3>3
      <3>5. Net(v) = k - h.req  BY <1>15, <3>1, <3>4, Zenon DEF Net
      <3> QED  BY <1>18, <3>2, <3>5, Zenon DEF Returned
    <2>3. CASE q.state # "CLOSED" /\ new.data # 0
      <3>1. ~p.cb /\ q.rxclosed
        <4>1. ~p.cb /\ q.rxclosed = p.rxclosed  BY <1>3, <1>21, <2>3, NoFields, Zenon DEF Processed
        <4>2. p.state \notin {"CLOSED", "SYN_RCVD"}  BY DEF Active
        <4> QED  BY <4>1, <4>2, Zenon DEF Mid, Reasons
      <3>2. new.data > 0  BY <1>5, <2>3
      <3>3. v = [tcp_abort(t) EXCEPT !.pool = @ - 1]  BY <1>15, <1>17, <2>1, <2>3, <3>1, <3>2
      <3>4. Excused(y)  BY <1>19, <1>20, <3>1, <3>2, Zenon
      <3>5. m - 1 = k  BY <1>7, <3>2
      <3>6. Mid(q, h, m - 1, wire, y)  BY <1>3, <3>5, Zenon
      <3>7. Good(v) /\ v.pcb = NoPcb /\ Net(v) = m - 1 - h.req
        <4>1. Aborted([tcp_abort(Srv(q, h, m, wire, y)) EXCEPT !.pool = @ - 1], h, m - 1)
          BY <1>21, <2>3, <3>4, <3>6, AbortKeeps, Zenon
        <4> QED  BY <1>9, <3>3, <4>1, Zenon DEF Aborted
      <3>8. AtFin(v, new)  BY <3>7, NoFields, Zenon DEF AtFin
      <3>9. Net(v) = k - h.req  BY <3>5, <3>7, Zenon
      <3> QED  BY <1>18, <3>8, <3>9, Zenon DEF Returned
    <2> QED  BY <2>2, <2>3, Zenon
  <1>22. CASE q.cb
    <2>1. p.cb /\ q.rcv_nxt = p.rcv_nxt + Length(new) /\ q.unread = p.unread + Length(new)
      BY <1>3, <1>22, NoFields, Zenon DEF Processed
    <2>2. p.state = "ESTABLISHED" /\ p.unread = 0  BY <2>1, Zenon DEF Steady
    <2>3. q.state = IF new.fin THEN "CLOSE_WAIT" ELSE "ESTABLISHED"
      <3>1. p.state # "LAST_ACK"  BY <2>2
      <3> QED  BY <1>3, <2>2, <3>1, Zenon DEF Processed
    <2>4. q.unread = new.data + (IF new.fin THEN 1 ELSE 0)  BY <1>5, <2>1, <2>2
    <2>5. y = {} /\ q.cb = TRUE
      <3>1. q.cb \in BOOLEAN  BY PcbFields
      <3> QED  BY <1>22, <2>1, <3>1, Zenon DEF Mid, Reasons
    <2>6. h.handle /\ q.unread # 0 => Excused(y)
      <3>1. q.unread # 0 => new.data > 0 \/ new.fin  BY <1>5, <2>4
      <3>2. new.fin => Excused(y)  BY <1>5, Zenon DEF Excused
      <3> QED  BY <1>19, <1>20, <3>1, <3>2, Zenon
    <2>7. SentForm(s, q, h, m, y)
      <3>1. acked => Queued(q) < Queued(p)  BY <1>4, Zenon
      <3>2. ~h.handle => p.snd_lbb = 1  BY <2>1, Zenon DEF Mid, Whole
      <3>3. SentForm(Sent(Srv(q, h, m, wire, y), acked, mem), q, h, m, y)
        BY <1>8, <2>5, <2>6, <3>1, <3>2, SentOpen, Zenon
      <3> QED  BY <1>9, <1>10, <3>3, Zenon
    <2>8. Good(s) /\ Net(s) = m - h.req  BY <2>7, Zenon DEF SentForm, GoesOn, Net
    <2>9. CASE s.pcb.cb
      <3>1. s.pcb.state = q.state /\ s.pcb.unread = q.unread /\ s.pcb.rcv_nxt = q.rcv_nxt
        BY <2>7, <2>9, Zenon DEF SentForm, GoesOn
      <3>2. s.pcb.cb = TRUE
        <4>1. s.pcb.cb \in BOOLEAN  BY <2>8, PcbFields, Zenon DEF Good
        <4> QED  BY <2>9, <4>1, Zenon
      <3>3. new.data > 0 => Net(s) >= 1 /\ seg.end <= s.pcb.rcv_nxt
        <4>1. k >= h.req  BY Zenon DEF Mid
        <4>2. new.data > 0 => Net(s) >= 1  BY <1>6, <1>7, <2>8, <4>1
        <4>3. new.data > 0 => seg.end <= s.pcb.rcv_nxt  BY <1>5, <1>6, <2>1, <3>1
        <4> QED  BY <4>2, <4>3
      <3>4. s.pcb.state = (IF new.fin THEN "CLOSE_WAIT" ELSE "ESTABLISHED")  BY <2>3, <3>1, Zenon
      <3>5. s.pcb.unread = new.data + (IF new.fin THEN 1 ELSE 0)  BY <2>4, <3>1, Zenon
      <3>6. AtFin(v, new) /\ Net(v) = Net(s) - (IF new.data > 0 THEN 1 ELSE 0)
        <4>1. Arrived(s, new)  BY <3>4, <3>5, Zenon DEF Arrived
        <4>2. Handed(Received(s, new, seg, mem), s, new)
          BY <1>5, <1>6, <2>8, <3>2, <3>3, <4>1, ReceivedOpen, Zenon
        <4> QED  BY <1>11, <4>2, Zenon DEF Handed
      <3>7. Net(v) = k - h.req  BY <1>6, <1>7, <2>8, <3>6
      <3> QED  BY <1>18, <3>6, <3>7, Zenon DEF Returned
    <2>10. CASE ~s.pcb.cb
      <3>1. h.handle /\ "done" \in s.why /\ (s.pcb.state = "CLOSED" <=> q.unread # 0)
        BY <2>7, <2>10, Zenon DEF SentForm, GoesOn
      <3>2. s.pcb.state # "CLOSED" => new.data = 0  BY <1>5, <2>4, <3>1
      <3>3. v = s  BY <1>17, <3>2
      <3>4. AtFin(v, new)  BY <2>8, <2>10, <3>3, Zenon DEF AtFin
      <3>5. CASE s.pcb.state = "CLOSED"
        <4>1. r = s  BY <1>18, <3>3, <3>4, <3>5, Zenon
        <4> QED  BY <1>18, <2>5, <3>1, <3>4, <3>5, <4>1, Zenon DEF Returned
      <3>6. CASE s.pcb.state # "CLOSED"
        <4>1. m = k  BY <1>7, <3>2, <3>6
        <4>2. Net(v) = k - h.req  BY <2>8, <3>3, <4>1, Zenon
        <4> QED  BY <1>18, <3>4, <4>2, Zenon DEF Returned
      <3> QED  BY <3>5, <3>6, Zenon
    <2> QED  BY <2>9, <2>10, Zenon
  <1> QED  BY <1>21, <1>22, Zenon

-----------------------------------------------------------------------------
(* The ends of a connection, and the timers.                               *)

\* Removed: the http_state goes too, whoever had it.
RemovedForm(r, h, k, w, y, cause) == r = Srv(NoPcb, NoState, k - h.req, w, y \cup cause)

\* A pcb removed takes its http_state and the request along.
LEMMA RemovedShape ==
    ASSUME NEW p \in Pcbs, NEW h \in HttpStates, NEW k \in Int, NEW w, NEW y, NEW cause, p.cb \/ h = NoState
    PROVE  RemovedForm(Removed(Srv(p, h, k, w, y), cause), h, k, w, y, cause)
PROOF
  <1>1. PICK s : s = Srv(p, h, k, w, y)  OBVIOUS
  <1>2. s.pcb = p /\ s.hs = h /\ s.pool = k  BY <1>1 DEF Srv
  <1>3. PICK m : m = k - h.req  OBVIOUS
  <1>4. http_err(s) = Srv(p, NoState, m, w, y)
    <2>1. CASE p.cb
      <3>1. PICK u : u = [s EXCEPT !.hs = NoState, !.pool = @ - s.hs.req]  OBVIOUS
      <3>2. IsSrv(u)  BY <1>1, <3>1, SrvDomain, Zenon DEF IsSrv
      <3>3. u.pcb = p /\ u.hs = NoState /\ u.wire = w /\ u.why = y  BY <1>1, <3>1, SMT DEF Srv
      <3>4. u.pool = k - s.hs.req  BY <1>1, <3>1, SMT DEF Srv
      <3>5. u.pool = m  BY <1>2, <1>3, <3>4, Zenon
      <3>6. u = Srv(p, NoState, m, w, y)  BY <3>2, <3>3, <3>5, Rebuilt, Zenon
      <3> QED  BY <1>2, <2>1, <3>1, <3>6, Zenon DEF http_err, http_state_free
    <2>2. CASE ~p.cb
      <3>1. h = NoState  BY <2>2
      <3>2. m = k  BY <1>3, <3>1, NoFields
      <3>3. http_err(s) = s  BY <1>2, <2>2, Zenon DEF http_err
      <3> QED  BY <1>1, <3>1, <3>2, <3>3, Zenon
    <2> QED  BY <2>1, <2>2, Zenon
  <1>5. PICK e : e = Srv(p, NoState, m, w, y)  OBVIOUS
  <1>6. PICK u : u = [e EXCEPT !.pcb = NoPcb, !.why = @ \cup cause]  OBVIOUS
  <1>7. u = Srv(NoPcb, NoState, m, w, y \cup cause)
    <2>1. IsSrv(u)  BY <1>5, <1>6, SrvDomain, Zenon DEF IsSrv
    <2>2. u.pcb = NoPcb /\ u.hs = NoState /\ u.pool = m /\ u.wire = w  BY <1>5, <1>6, SMT DEF Srv
    <2>3. u.why = y \cup cause  BY <1>5, <1>6, SMT DEF Srv
    <2> QED  BY <2>1, <2>2, <2>3, Rebuilt, Zenon
  <1>8. Removed(s, cause) = u  BY <1>4, <1>5, <1>6, Zenon DEF Removed
  <1> QED  BY <1>1, <1>3, <1>7, <1>8, Zenon DEF RemovedForm

\* A pcb may be removed for any of the reasons a client is told of.
LEMMA RemovedKeeps ==
    ASSUME NEW p \in Pcbs, NEW h \in HttpStates, NEW k \in Int, NEW w \in Wires, NEW y, y \subseteq Causes,
           Mid(p, h, k, w, y), p.state # "CLOSED", NEW c \in Told
    PROVE  Returned(Removed(Srv(p, h, k, w, y), {c}), h, k, y)
PROOF
  <1>1. PICK r : r = Removed(Srv(p, h, k, w, y), {c})  OBVIOUS
  <1>2. PICK m \in Int : m = k - h.req  BY HsFields
  <1>3. PICK z : z = y \cup {c}  OBVIOUS
  <1>4. r = Srv(NoPcb, NoState, m, w, z)
    <2>1. p.cb \/ h = NoState  BY Zenon DEF Mid, Own
    <2>2. RemovedForm(Removed(Srv(p, h, k, w, y), {c}), h, k, w, y, {c})  BY <2>1, RemovedShape, Zenon
    <2> QED  BY <1>1, <1>2, <1>3, <2>2, Zenon DEF RemovedForm
  <1>5. c \in Causes /\ c # "listening"  BY DEF Told, Causes
  <1>6. "listening" \notin z /\ z \subseteq Causes /\ y \subseteq z /\ Excused(z)
    <2>1. "listening" \notin y  BY NoFields, Zenon DEF Mid, Reasons
    <2>2. Excused(z)  BY <1>3, Zenon DEF Excused
    <2> QED  BY <1>3, <1>5, <2>1, <2>2, Zenon
  <1>7. Mid(NoPcb, NoState, m, w, z)  BY <1>2, <1>6, GoneKeeps, Zenon
  <1>8. Good(r)  BY <1>4, <1>6, <1>7, NoTypes, GoodParts, Zenon
  <1>9. r.pcb = NoPcb /\ r.hs = NoState /\ r.pool = m  BY <1>4 DEF Srv
  <1>10. Net(r) = k - h.req
    <2>1. Net(r) = m - NoState.req  BY <1>9, Zenon DEF Net
    <2> QED  BY <1>2, <2>1, NoFields
  <1>11. Steady(r.pcb)  BY <1>9, NoFields, Zenon DEF Steady
  <1> QED  BY <1>1, <1>8, <1>10, <1>11, Zenon DEF Returned

\* A close that waits is tried again.
Again(s, mem) == tcp_close_shutdown_fin([s EXCEPT !.pcb.closepend = FALSE], mem)

\* The second attempt to close is the first one without its mark.
LEMMA RecloseShape ==
    ASSUME NEW p \in Pcbs, NEW h, NEW k, NEW w, NEW y, NEW mem
    PROVE  Again(Srv(p, h, k, w, y), mem) = Shut(Pended(p, FALSE), h, k, w, y, mem)
PROOF
  <1>1. PICK s : s = Srv(p, h, k, w, y)  OBVIOUS
  <1>2. PICK u : u = [s EXCEPT !.pcb.closepend = FALSE]  OBVIOUS
  <1>3. PICK q \in Pcbs : q = Pended(p, FALSE)  BY Zenon DEF Pcbs, Pended
  <1>4. u = Srv(q, h, k, w, y)
    <2>1. IsSrv(u)  BY <1>1, <1>2, SrvDomain, Zenon DEF IsSrv
    <2>2. u.hs = h /\ u.pool = k /\ u.wire = w /\ u.why = y  BY <1>1, <1>2, SMT DEF Srv
    <2>3. u.pcb = Pended(p, FALSE)  BY <1>1, <1>2, SMT DEF Srv, Pended
    <2> QED  BY <1>3, <2>1, <2>2, <2>3, Rebuilt, Zenon
  <1>5. tcp_close_shutdown_fin(Srv(q, h, k, w, y), mem) = Shut(q, h, k, w, y, mem)  BY ShutdownShape
  <1> QED  BY <1>1, <1>2, <1>3, <1>4, <1>5, Zenon DEF Again

\* What keeps hs, pool and the callbacks as they are returns all pbufs.
LEMMA SameReturned ==
    ASSUME NEW q \in Pcbs, NEW h \in HttpStates, NEW k \in Int, NEW w \in Wires, NEW y, y \subseteq Causes,
           Mid(q, h, k, w, y), Steady(q)
    PROVE  Returned(Srv(q, h, k, w, y), h, k, y)
PROOF
  <1>1. PICK r : r = Srv(q, h, k, w, y)  OBVIOUS
  <1>2. Good(r)  BY <1>1, GoodParts, Zenon
  <1>3. r.pcb = q /\ r.hs = h /\ r.pool = k  BY <1>1 DEF Srv
  <1>4. Returned(r, h, k, y)  BY <1>2, <1>3, Zenon DEF Returned, Net
  <1> QED  BY <1>1, <1>4, Zenon

\* The second attempt keeps the invariant.
LEMMA RecloseKeeps ==
    ASSUME NEW p \in Pcbs, NEW h \in HttpStates, NEW k \in Int, NEW w \in Wires, NEW y, y \subseteq Causes,
           Mid(p, h, k, w, y), p.closepend, NEW mem
    PROVE  Returned(Again(Srv(p, h, k, w, y), mem), h, k, y)
PROOF
  <1>1. PICK r : r = Again(Srv(p, h, k, w, y), mem)  OBVIOUS
  <1>2. ~p.cb /\ p.state # "CLOSED" /\ p.state # "SYN_RCVD"
    <2>1. ~p.cb  BY Zenon DEF Mid, Own
    <2>2. p.state # "CLOSED"  BY NoFields, Zenon DEF Mid, Order
    <2>3. p.state # "SYN_RCVD"  BY Zenon DEF Mid, Whole
    <2> QED  BY <2>1, <2>2, <2>3
  <1>3. p.state \notin {"CLOSED", "SYN_RCVD"}  BY <1>2
  <1>4. PICK q \in Pcbs : q = Pended(p, FALSE)  BY Zenon DEF Pcbs, Pended
  <1>5. Mid(q, h, k, w, y) /\ q.cb = p.cb /\ q.state = p.state
    <2>1. Mid(Pended(p, FALSE), h, k, w, y) /\ Pended(p, FALSE).cb = p.cb /\ Pended(p, FALSE).state = p.state
      BY <1>2, <1>3, PendKeeps, Zenon
    <2> QED  BY <1>4, <2>1, Zenon
  <1>6. r = Shut(q, h, k, w, y, mem)
    <2>1. Again(Srv(p, h, k, w, y), mem) = Shut(Pended(p, FALSE), h, k, w, y, mem)  BY RecloseShape
    <2> QED  BY <1>1, <1>4, <2>1, Zenon
  <1>7. \/ r = Srv(q, h, k, w, y)
        \/ r = Srv(Pended(q, TRUE), h, k, w, y)
        \/ q.state \in Open /\ r = Srv(Finned(q), h, k, w, y)
    BY <1>6, Zenon DEF Shut, Pended
  <1>8. PICK b \in Pcbs : ~b.cb /\ Mid(b, h, k, w, y) /\ r = Srv(b, h, k, w, y)
    <2>1. CASE r = Srv(q, h, k, w, y)  BY <1>2, <1>5, <2>1, Zenon
    <2>2. CASE r = Srv(Pended(q, TRUE), h, k, w, y)
      <3>1. ~q.cb /\ q.state \notin {"CLOSED", "SYN_RCVD"}  BY <1>2, <1>3, <1>5, Zenon
      <3>2. Pended(q, TRUE) \in Pcbs /\ Mid(Pended(q, TRUE), h, k, w, y) /\ Pended(q, TRUE).cb = q.cb
        BY <1>5, <3>1, PendKeeps, Zenon
      <3> QED  BY <2>2, <3>1, <3>2, Zenon
    <2>3. CASE q.state \in Open /\ r = Srv(Finned(q), h, k, w, y)
      <3>1. Finned(q) \in Pcbs /\ Mid(Finned(q), h, k, w, y) /\ Finned(q).cb = q.cb
        BY <1>2, <1>5, <2>3, FinKeeps, Zenon
      <3> QED  BY <1>2, <1>5, <2>3, <3>1, Zenon
    <2> QED  BY <1>7, <2>1, <2>2, <2>3, Zenon
  <1>9. Steady(b)  BY <1>8, Zenon DEF Steady
  <1>10. Returned(Srv(b, h, k, w, y), h, k, y)  BY <1>8, <1>9, SameReturned, Zenon
  <1> QED  BY <1>1, <1>8, <1>10, Zenon

\* Steps that leave the queues or take them back, and change counters.
Tweaked(p, q) ==
    /\ SameConn(p, q) /\ q.state = p.state /\ q.lastack = p.lastack
    /\ q.lastack <= q.unsent /\ q.unsent <= p.unsent
    /\ q.rcv_nxt = p.rcv_nxt /\ q.unread = p.unread
    /\ q.nrtx <= TCP_MAXRTX /\ q.idle <= TCP_TIMEOUT + 1 /\ q.probe <= TCP_MAXRTX

\* The timers' counters, and a step back of unsent, keep the invariant.
LEMMA TweakKeeps ==
    ASSUME NEW p \in Pcbs, NEW q \in Pcbs, NEW h \in HttpStates, NEW k \in Int, NEW w \in Wires, NEW y,
           Mid(p, h, k, w, y), Steady(p), p.state # "CLOSED", Tweaked(p, q)
    PROVE  Mid(q, h, k, w, y) /\ Steady(q)
PROOF
  <1>1. /\ q.snd_lbb = p.snd_lbb /\ q.fin = p.fin /\ q.rxclosed = p.rxclosed
        /\ q.closepend = p.closepend /\ q.cb = p.cb /\ q.state = p.state /\ q.lastack = p.lastack
        /\ q.lastack <= q.unsent /\ q.unsent <= p.unsent /\ q.rcv_nxt = p.rcv_nxt /\ q.unread = p.unread
        /\ q.nrtx <= TCP_MAXRTX /\ q.idle <= TCP_TIMEOUT + 1 /\ q.probe <= TCP_MAXRTX
    BY Zenon DEF Tweaked, SameConn
  <1>2. p.lastack <= q.lastack /\ q.unsent <= w.top /\ p.rcv_nxt <= q.rcv_nxt
    <2>1. p.unsent <= w.top  BY Zenon DEF Mid, Order
    <2> QED  BY <1>1, <2>1, PcbFields, WireFields
  <1>3. p.state = "SYN_RCVD" => q.unread = 0  BY <1>1, Zenon DEF Mid, Whole
  <1>4. Moves(p, q, w)  BY <1>1, <1>2, <1>3, Zenon DEF Moves
  <1>5. Mid(q, h, k, w, y)  BY <1>4, MovedKeeps, Zenon
  <1>6. Steady(q)  BY <1>1, Zenon DEF Steady
  <1> QED  BY <1>5, <1>6

\* A counter that stops at its bound.
LEMMA Capped ==
    ASSUME NEW a \in Nat, NEW b \in Nat
    PROVE  Min({a + 1, b}) \in Nat /\ Min({a + 1, b}) <= b
PROOF
  <1>1. PICK c \in Int : c = a + 1  OBVIOUS
  <1>2. Min({c, b}) = IF c <= b THEN c ELSE b  BY MinTwo
  <1>3. Min({c, b}) \in Nat /\ Min({c, b}) <= b  BY <1>1, <1>2
  <1> QED  BY <1>1, <1>3, Zenon

\* The counters and the queue that each of these steps sets.
Set(p, u, n, i, t) == [p EXCEPT !.unsent = u, !.nrtx = n, !.idle = i, !.polltmr = t]
SetPersist(p, b, c) == [p EXCEPT !.persist = b, !.probe = c]

\* Setting them within their bounds is such a change.
LEMMA SetTweaks ==
    ASSUME NEW p \in Pcbs, NEW u \in Nat, p.lastack <= u, u <= p.unsent, NEW n \in Nat, n <= TCP_MAXRTX,
           NEW i \in Nat, i <= TCP_TIMEOUT + 1, NEW t \in Nat, p.probe <= TCP_MAXRTX
    PROVE  Set(p, u, n, i, t) \in Pcbs /\ Tweaked(p, Set(p, u, n, i, t))
PROOF
  <1>1. PICK q \in Pcbs : q = Set(p, u, n, i, t)  BY Zenon DEF Set, Pcbs
  <1>2. /\ q.state = p.state /\ q.lastack = p.lastack /\ q.unsent = u /\ q.snd_lbb = p.snd_lbb
        /\ q.rcv_nxt = p.rcv_nxt /\ q.nrtx = n /\ q.idle = i /\ q.closepend = p.closepend
        /\ q.fin = p.fin /\ q.cb = p.cb /\ q.rxclosed = p.rxclosed /\ q.unread = p.unread
        /\ q.probe = p.probe
    BY <1>1, SMT DEF Set, Pcbs
  <1>3. Tweaked(p, q)  BY <1>2, Zenon DEF Tweaked, SameConn
  <1> QED  BY <1>1, <1>3, Zenon

\* The persist timer and its count.
LEMMA SetPersistTweaks ==
    ASSUME NEW p \in Pcbs, NEW h, NEW k, NEW w, NEW y, Mid(p, h, k, w, y), NEW b \in BOOLEAN, NEW c \in Nat,
           c <= TCP_MAXRTX
    PROVE  SetPersist(p, b, c) \in Pcbs /\ Tweaked(p, SetPersist(p, b, c))
PROOF
  <1>1. PICK q \in Pcbs : q = SetPersist(p, b, c)  BY Zenon DEF SetPersist, Pcbs
  <1>2. /\ q.state = p.state /\ q.lastack = p.lastack /\ q.unsent = p.unsent /\ q.snd_lbb = p.snd_lbb
        /\ q.rcv_nxt = p.rcv_nxt /\ q.nrtx = p.nrtx /\ q.idle = p.idle /\ q.closepend = p.closepend
        /\ q.fin = p.fin /\ q.cb = p.cb /\ q.rxclosed = p.rxclosed /\ q.unread = p.unread
        /\ q.probe = c
    BY <1>1, SMT DEF SetPersist, Pcbs
  <1>3. p.lastack <= p.unsent /\ p.nrtx <= TCP_MAXRTX /\ p.idle <= TCP_TIMEOUT + 1
    BY Zenon DEF Mid, Order, Bounds
  <1>4. p.unsent <= p.unsent  BY PcbFields
  <1>5. Tweaked(p, q)  BY <1>2, <1>3, <1>4, Zenon DEF Tweaked, SameConn
  <1> QED  BY <1>1, <1>5, Zenon

\* One change after another is a change.
LEMMA TweakedTwice ==
    ASSUME NEW p \in Pcbs, NEW q \in Pcbs, NEW r \in Pcbs, Tweaked(p, q), Tweaked(q, r)
    PROVE  Tweaked(p, r)
PROOF
  <1>1. SameConn(p, r)  BY Zenon DEF Tweaked, SameConn
  <1>2. /\ r.state = p.state /\ r.lastack = p.lastack /\ r.lastack <= r.unsent
        /\ r.rcv_nxt = p.rcv_nxt /\ r.unread = p.unread
        /\ r.nrtx <= TCP_MAXRTX /\ r.idle <= TCP_TIMEOUT + 1 /\ r.probe <= TCP_MAXRTX
    BY Zenon DEF Tweaked
  <1>3. r.unsent <= p.unsent
    <2>1. r.unsent <= q.unsent /\ q.unsent <= p.unsent  BY Zenon DEF Tweaked
    <2> QED  BY <2>1, PcbFields
  <1> QED  BY <1>1, <1>2, <1>3, Zenon DEF Tweaked

\* A pcb is what its fields make it.
LEMMA SetSame ==
    ASSUME NEW p \in Pcbs, NEW i, NEW t, NEW b, NEW c
    PROVE  /\ [p EXCEPT !.idle = i] = Set(p, p.unsent, p.nrtx, i, p.polltmr)
           /\ [p EXCEPT !.polltmr = t] = Set(p, p.unsent, p.nrtx, p.idle, t)
           /\ [p EXCEPT !.persist = b] = SetPersist(p, b, p.probe)
           /\ [p EXCEPT !.probe = c] = SetPersist(p, p.persist, c)
PROOF BY DEF Set, SetPersist, Pcbs

\* tcp_timewait_input, the age, the retransmission timer, the poll timer and the
\* persist timer.
LEMMA Tweaks ==
    ASSUME NEW p \in Pcbs, NEW h, NEW k, NEW w, NEW y, Mid(p, h, k, w, y)
    PROVE  /\ \E q \in Pcbs : Tweaked(p, q) /\ q = [p EXCEPT !.persist = FALSE]
           /\ \E q \in Pcbs : Tweaked(p, q) /\ q = [p EXCEPT !.idle = 0]
           /\ \E q \in Pcbs : Tweaked(p, q) /\ q = [p EXCEPT !.idle = Min({@ + 1, TCP_TIMEOUT + 1})]
           /\ \E q \in Pcbs : Tweaked(p, q) /\ q = Retransmit(p)
           /\ \E q \in Pcbs : Tweaked(p, q) /\ q = [p EXCEPT !.polltmr = @ + 1]
           /\ \E q \in Pcbs : Tweaked(p, q) /\ q = [p EXCEPT !.polltmr = 0]
           /\ \E q \in Pcbs : Tweaked(p, q) /\ q = [p EXCEPT !.persist = TRUE, !.probe = 0]
           /\ \E q \in Pcbs : Tweaked(p, q) /\ q = [p EXCEPT !.probe = Min({@ + 1, TCP_MAXRTX})]
PROOF
  <1>1. PICK la \in Nat, u \in Nat, n \in Nat, i \in Nat, t \in Nat, c \in Nat, e \in BOOLEAN :
           /\ la = p.lastack /\ u = p.unsent /\ n = p.nrtx /\ i = p.idle /\ t = p.polltmr
           /\ c = p.probe /\ e = p.persist
    BY PcbFields
  <1>2. /\ la <= la /\ u <= u /\ la <= u /\ n <= TCP_MAXRTX /\ i <= TCP_TIMEOUT + 1 /\ 0 <= TCP_TIMEOUT + 1
        /\ p.probe <= TCP_MAXRTX /\ c <= TCP_MAXRTX /\ 0 <= TCP_MAXRTX
    <2>1. la <= u /\ n <= TCP_MAXRTX /\ i <= TCP_TIMEOUT + 1 /\ c <= TCP_MAXRTX  BY <1>1, Zenon DEF Mid, Order, Bounds
    <2> QED  BY <1>1, <2>1, Sizes
  <1>3. PICK n1 \in Nat : n1 = Min({n + 1, TCP_MAXRTX}) /\ n1 <= TCP_MAXRTX  BY Sizes, Capped
  <1>4. PICK b \in Nat : b = TCP_TIMEOUT + 1  BY Sizes
  <1>5. PICK i1 \in Nat : i1 = Min({i + 1, b}) /\ i1 <= b  BY Capped
  <1>6. PICK c1 \in Nat : c1 = Min({c + 1, TCP_MAXRTX}) /\ c1 <= TCP_MAXRTX  BY Sizes, Capped
  <1>7. PICK t1 \in Nat : t1 = t + 1  OBVIOUS
  <1>8. 0 \in Nat  OBVIOUS
  <1>9. \E q \in Pcbs : Tweaked(p, q) /\ q = [p EXCEPT !.persist = FALSE]
    <2>1. SetPersist(p, FALSE, c) \in Pcbs /\ Tweaked(p, SetPersist(p, FALSE, c))
      BY <1>2, SetPersistTweaks, Zenon
    <2>2. [p EXCEPT !.persist = FALSE] = SetPersist(p, FALSE, c)  BY <1>1, SetSame
    <2> QED  BY <2>1, <2>2, Zenon
  <1>10. \E q \in Pcbs : Tweaked(p, q) /\ q = [p EXCEPT !.idle = 0]
    <2>1. Set(p, u, n, 0, t) \in Pcbs /\ Tweaked(p, Set(p, u, n, 0, t))
      BY <1>1, <1>2, <1>8, SetTweaks, Zenon
    <2>2. [p EXCEPT !.idle = 0] = Set(p, u, n, 0, t)  BY <1>1, SetSame
    <2> QED  BY <2>1, <2>2, Zenon
  <1>11. \E q \in Pcbs : Tweaked(p, q) /\ q = [p EXCEPT !.idle = Min({@ + 1, TCP_TIMEOUT + 1})]
    <2>1. Set(p, u, n, i1, t) \in Pcbs /\ Tweaked(p, Set(p, u, n, i1, t))
      BY <1>1, <1>2, <1>4, <1>5, SetTweaks, Zenon
    <2>2. [p EXCEPT !.idle = i1] = Set(p, u, n, i1, t)  BY <1>1, SetSame
    <2>3. [p EXCEPT !.idle = Min({@ + 1, TCP_TIMEOUT + 1})] = [p EXCEPT !.idle = i1]  BY <1>1, <1>4, <1>5, Zenon
    <2> QED  BY <2>1, <2>2, <2>3, Zenon
  <1>12. \E q \in Pcbs : Tweaked(p, q) /\ q = Retransmit(p)
    <2>1. CASE InFlight(p) \/ Pending(p)
      <3>1. Set(p, la, n1, i, t) \in Pcbs /\ Tweaked(p, Set(p, la, n1, i, t))
        BY <1>1, <1>2, <1>3, SetTweaks, Zenon
      <3>2. [p EXCEPT !.unsent = la, !.nrtx = n1] = Set(p, la, n1, i, t)  BY <1>1 DEF Set, Pcbs
      <3>3. Retransmit(p) = [p EXCEPT !.unsent = la, !.nrtx = n1]  BY <1>1, <1>3, <2>1, Zenon DEF Retransmit
      <3> QED  BY <3>1, <3>2, <3>3, Zenon
    <2>2. CASE ~(InFlight(p) \/ Pending(p))
      <3>1. Retransmit(p) = p  BY <2>2, Zenon DEF Retransmit
      <3>2. Tweaked(p, p)  BY <1>1, <1>2, Zenon DEF Tweaked, SameConn
      <3> QED  BY <3>1, <3>2, Zenon
    <2> QED  BY <2>1, <2>2, Zenon
  <1>13. \E q \in Pcbs : Tweaked(p, q) /\ q = [p EXCEPT !.polltmr = @ + 1]
    <2>1. Set(p, u, n, i, t1) \in Pcbs /\ Tweaked(p, Set(p, u, n, i, t1))  BY <1>1, <1>2, SetTweaks, Zenon
    <2>2. [p EXCEPT !.polltmr = t1] = Set(p, u, n, i, t1)  BY <1>1, SetSame
    <2>3. [p EXCEPT !.polltmr = @ + 1] = [p EXCEPT !.polltmr = t1]  BY <1>1, <1>7, Zenon
    <2> QED  BY <2>1, <2>2, <2>3, Zenon
  <1>14. \E q \in Pcbs : Tweaked(p, q) /\ q = [p EXCEPT !.polltmr = 0]
    <2>1. Set(p, u, n, i, 0) \in Pcbs /\ Tweaked(p, Set(p, u, n, i, 0))  BY <1>1, <1>2, <1>8, SetTweaks, Zenon
    <2>2. [p EXCEPT !.polltmr = 0] = Set(p, u, n, i, 0)  BY <1>1, SetSame
    <2> QED  BY <2>1, <2>2, Zenon
  <1>15. \E q \in Pcbs : Tweaked(p, q) /\ q = [p EXCEPT !.persist = TRUE, !.probe = 0]
    <2>1. SetPersist(p, TRUE, 0) \in Pcbs /\ Tweaked(p, SetPersist(p, TRUE, 0))
      BY <1>2, <1>8, SetPersistTweaks, Zenon
    <2> QED  BY <2>1, Zenon DEF SetPersist
  <1>16. \E q \in Pcbs : Tweaked(p, q) /\ q = [p EXCEPT !.probe = Min({@ + 1, TCP_MAXRTX})]
    <2>1. SetPersist(p, e, c1) \in Pcbs /\ Tweaked(p, SetPersist(p, e, c1))  BY <1>6, SetPersistTweaks, Zenon
    <2>2. [p EXCEPT !.probe = c1] = SetPersist(p, e, c1)  BY <1>1, SetSame
    <2>3. [p EXCEPT !.probe = Min({@ + 1, TCP_MAXRTX})] = [p EXCEPT !.probe = c1]  BY <1>1, <1>6, Zenon
    <2> QED  BY <2>1, <2>2, <2>3, Zenon
  <1> QED  BY <1>9, <1>10, <1>11, <1>12, <1>13, <1>14, <1>15, <1>16, Zenon

\* The poll callback.
LEMMA PolledKeeps ==
    ASSUME ClientTyped, NEW p \in Pcbs, NEW h \in HttpStates, NEW k \in Int, NEW w \in Wires, NEW y,
           y \subseteq Causes, Mid(p, h, k, w, y), Steady(p), p.state # "CLOSED", NEW mem \in Nat
    PROVE  Returned(Polled(Srv(p, h, k, w, y), mem), h, k, y)
PROOF
  <1>1. PICK s : s = Srv(p, h, k, w, y)  OBVIOUS
  <1>2. s.pcb = p  BY <1>1 DEF Srv
  <1>3. PICK r : r = Polled(s, mem)  OBVIOUS
  <1>4. PICK a : a = [s EXCEPT !.pcb.polltmr = @ + 1]  OBVIOUS
  <1>5. PICK t : t = [s EXCEPT !.pcb.polltmr = 0]  OBVIOUS
  <1>6. r = IF ~PollDue(p) THEN a ELSE IF t.pcb.cb THEN http_poll(t, mem) ELSE t
    BY <1>2, <1>3, <1>4, <1>5, Zenon DEF Polled
  <1>7. PICK q \in Pcbs : Tweaked(p, q) /\ q = [p EXCEPT !.polltmr = @ + 1]  BY Tweaks, Zenon
  <1>8. PICK b \in Pcbs : Tweaked(p, b) /\ b = [p EXCEPT !.polltmr = 0]  BY Tweaks, Zenon
  <1>9. a = Srv(q, h, k, w, y)
    <2>1. IsSrv(a)  BY <1>1, <1>4, SrvDomain, Zenon DEF IsSrv
    <2>2. a.hs = h /\ a.pool = k /\ a.wire = w /\ a.why = y  BY <1>1, <1>4, SMT DEF Srv
    <2>3. a.pcb = q  BY <1>1, <1>4, <1>7, SMT DEF Srv
    <2> QED  BY <2>1, <2>2, <2>3, Rebuilt, Zenon
  <1>10. t = Srv(b, h, k, w, y)
    <2>1. IsSrv(t)  BY <1>1, <1>5, SrvDomain, Zenon DEF IsSrv
    <2>2. t.hs = h /\ t.pool = k /\ t.wire = w /\ t.why = y  BY <1>1, <1>5, SMT DEF Srv
    <2>3. t.pcb = b  BY <1>1, <1>5, <1>8, SMT DEF Srv
    <2> QED  BY <2>1, <2>2, <2>3, Rebuilt, Zenon
  <1>11. Mid(q, h, k, w, y) /\ Steady(q) /\ Mid(b, h, k, w, y) /\ Steady(b)
    BY <1>7, <1>8, TweakKeeps, Zenon
  <1>12. Returned(a, h, k, y) /\ Returned(t, h, k, y)  BY <1>9, <1>10, <1>11, SameReturned, Zenon
  <1>13. ASSUME b.cb PROVE Returned(http_poll(t, mem), h, k, y)
    <2>1. b.unread = 0 /\ b.state = "ESTABLISHED"  BY <1>11, <1>13, Zenon DEF Steady
    <2>2. b.cb = TRUE
      <3>1. b.cb \in BOOLEAN  BY PcbFields
      <3> QED  BY <1>13, <3>1, Zenon
    <2>3. PICK z : z = http_poll(t, mem)  OBVIOUS
    <2>4. GoesOn(z, b, h, k, y)  BY <1>10, <1>11, <2>1, <2>2, <2>3, PollKeeps, Zenon
    <2>5. Good(z) /\ z.pool - z.hs.req = k - h.req  BY <2>4, Zenon DEF GoesOn
    <2>6. Steady(z.pcb)  BY <2>1, <2>4, Zenon DEF GoesOn, Steady
    <2>7. Returned(z, h, k, y)  BY <2>5, <2>6, Zenon DEF Returned, Net
    <2> QED  BY <2>3, <2>7, Zenon
  <1>14. t.pcb = b  BY <1>10 DEF Srv
  <1>15. Returned(r, h, k, y)  BY <1>6, <1>12, <1>13, <1>14, Zenon
  <1> QED  BY <1>1, <1>3, <1>15, Zenon

-----------------------------------------------------------------------------
(* tcp_output.                                                             *)

\* The units before x have been sent.
Carries(p, w, x) == [w EXCEPT !.top = Max({@, x}), !.fin = @ \/ (p.fin /\ x = p.snd_lbb)]
Advanced(p, x) == [p EXCEPT !.unsent = x, !.rtime = TRUE]

\* Only the wire knows.
LEMMA CarriedShape ==
    ASSUME NEW p \in Pcbs, NEW h, NEW k, NEW w \in Wires, NEW y, NEW x
    PROVE  Carried(Srv(p, h, k, w, y), x) = Srv(p, h, k, Carries(p, w, x), y)
PROOF
  <1>1. PICK s : s = Srv(p, h, k, w, y)  OBVIOUS
  <1>2. s.pcb = p  BY <1>1 DEF Srv
  <1>3. PICK u : u = [s EXCEPT !.wire.top = Max({@, x}), !.wire.fin = @ \/ (p.fin /\ x = p.snd_lbb)]
    OBVIOUS
  <1>4. u = Srv(p, h, k, Carries(p, w, x), y)
    <2>1. IsSrv(u)  BY <1>1, <1>3, SrvDomain, Zenon DEF IsSrv
    <2>2. u.pcb = p /\ u.hs = h /\ u.pool = k /\ u.why = y  BY <1>1, <1>3, SMT DEF Srv
    <2>3. u.wire = Carries(p, w, x)  BY <1>1, <1>3, SMT DEF Srv, Carries
    <2> QED  BY <2>1, <2>2, <2>3, Rebuilt, Zenon
  <1>5. Carried(s, x) = u  BY <1>2, <1>3, Zenon DEF Carried
  <1> QED  BY <1>1, <1>4, <1>5, Zenon

\* Sending what is written keeps the invariant.
LEMMA CarriesKeeps ==
    ASSUME ClientTyped, NEW p \in Pcbs, NEW h \in HttpStates, NEW k \in Int, NEW w \in Wires, NEW y,
           Mid(p, h, k, w, y), p.state # "CLOSED", NEW x \in Nat, x <= p.snd_lbb
    PROVE  Carries(p, w, x) \in Wires /\ x <= Carries(p, w, x).top /\ Mid(p, h, k, Carries(p, w, x), y)
PROOF
  <1>1. /\ w.top \in Nat /\ w.fin \in BOOLEAN /\ p.fin \in BOOLEAN /\ p.snd_lbb \in Nat /\ client.rcv \in Nat
        /\ p.lastack \in Nat /\ p.unsent \in Nat
    BY WireFields, PcbFields, ClientFields
  <1>2. PICK a \in Nat : a = Max({w.top, x}) /\ a = IF w.top >= x THEN w.top ELSE x
    <2>1. PICK c \in Nat : c = w.top  BY <1>1
    <2>2. Max({c, x}) = IF c >= x THEN c ELSE x  BY MaxTwo
    <2>3. Max({c, x}) \in Nat  BY <2>2
    <2> QED  BY <2>1, <2>2, <2>3, Zenon
  <1>3. PICK b \in BOOLEAN : b = (w.fin \/ (p.fin /\ x = p.snd_lbb))  OBVIOUS
  <1>4. PICK v \in Wires : v = Carries(p, w, x) /\ v = [w EXCEPT !.top = a, !.fin = b]
    <2>1. [w EXCEPT !.top = a, !.fin = b] \in Wires  BY Zenon DEF Wires
    <2> QED  BY <1>2, <1>3, <2>1, Zenon DEF Carries
  <1>5. v.top = a /\ v.fin = b /\ v.rst = w.rst  BY <1>4 DEF Wires
  <1>6. /\ p.lastack <= p.unsent /\ client.rcv <= w.top /\ w.top <= p.snd_lbb /\ 1 <= p.snd_lbb
        /\ (w.fin => p.fin /\ w.top = p.snd_lbb) /\ (p.fin <=> p.state \in Fins)
        /\ (p.state \in {"FIN_WAIT_2", "TIME_WAIT"} => w.top = p.snd_lbb)
        /\ p.unsent <= w.top /\ p.unsent <= p.snd_lbb
    BY Zenon DEF Mid, Order
  <1>7. /\ x <= v.top /\ client.rcv <= v.top
         /\ p.unsent <= v.top /\ v.top <= p.snd_lbb
         /\ (w.top = p.snd_lbb => v.top = w.top)
         /\ (x = p.snd_lbb => v.top = p.snd_lbb)
    BY <1>1, <1>2, <1>5, <1>6
  <1>8. v.fin => p.fin /\ v.top = p.snd_lbb  BY <1>3, <1>5, <1>6, <1>7, Zenon
  <1>9. Order(p, v)  BY <1>6, <1>7, <1>8, Zenon DEF Order
  <1>10. Own(p, h) /\ Buffer(p) /\ Bounds(p, h) /\ k >= h.req  BY Zenon DEF Mid
  <1>11. v.fin /\ y \cap Early = {} => client.ask \in Nat /\ v.top = client.ask + 2
    <2>1. p.fin => ~p.cb /\ p.state \notin {"CLOSED", "SYN_RCVD"}
      <3>1. p.cb => p.state \in Open  BY Zenon DEF Mid, Own
      <3> QED  BY <1>6, <3>1 DEF Open, Fins
    <2>2. p.fin /\ y \cap Early = {} => client.ask \in Nat /\ p.snd_lbb = client.ask + 2
      <3>1. p.fin /\ y \cap Early = {} => client.ask \in Nat /\ p.snd_lbb = client.ask + (IF p.fin THEN 2 ELSE 1)
        BY <2>1, Zenon DEF Mid, Whole
      <3> QED  BY <3>1, Zenon
    <2> QED  BY <1>8, <2>2, Zenon
  <1>12. Whole(p, h, v, y)  BY <1>11, Zenon DEF Mid, Whole
  <1>13. Reasons(p, h, v, y)
    <2>1. "listening" \notin y  BY NoFields, Zenon DEF Mid, Reasons
    <2> QED  BY <1>5, <2>1, Zenon DEF Mid, Reasons
  <1>14. Mid(p, h, k, v, y)  BY <1>9, <1>10, <1>12, <1>13, Zenon DEF Mid
  <1> QED  BY <1>4, <1>7, <1>14, Zenon

\* So does counting it as sent.
LEMMA PutKeeps ==
    ASSUME ClientTyped, NEW p \in Pcbs, NEW h \in HttpStates, NEW k \in Int, NEW w \in Wires, NEW y,
           Mid(p, h, k, w, y), p.state \in Active, NEW x \in Nat, p.unsent <= x, x <= p.snd_lbb
    PROVE  /\ Advanced(p, x) \in Pcbs /\ Carries(p, w, x) \in Wires /\ Advanced(p, x).state = p.state
           /\ Advanced(p, x).cb = p.cb /\ Advanced(p, x).unread = p.unread
           /\ Mid(Advanced(p, x), h, k, Carries(p, w, x), y)
PROOF
  <1>1. PICK q \in Pcbs : q = Advanced(p, x)  BY Zenon DEF Advanced, Pcbs
  <1>2. /\ q.state = p.state /\ q.lastack = p.lastack /\ q.unsent = x /\ q.snd_lbb = p.snd_lbb
        /\ q.rcv_nxt = p.rcv_nxt /\ q.nrtx = p.nrtx /\ q.idle = p.idle /\ q.probe = p.probe /\ q.closepend = p.closepend
        /\ q.fin = p.fin /\ q.cb = p.cb /\ q.rxclosed = p.rxclosed /\ q.unread = p.unread
    BY <1>1, SMT DEF Advanced, Pcbs
  <1>3. p.state # "CLOSED"  BY DEF Active
  <1>4. PICK v \in Wires : v = Carries(p, w, x) /\ x <= v.top /\ Mid(p, h, k, v, y)  BY <1>3, CarriesKeeps, Zenon
  <1>5. Moves(p, q, v)
    <2>1. p.lastack <= p.lastack /\ p.lastack <= x /\ p.rcv_nxt <= p.rcv_nxt
      <3>1. p.lastack <= p.unsent  BY Zenon DEF Mid, Order
      <3> QED  BY <3>1, PcbFields
    <2>2. p.nrtx <= TCP_MAXRTX /\ p.idle <= TCP_TIMEOUT + 1 /\ p.probe <= TCP_MAXRTX  BY Zenon DEF Mid, Bounds
    <2>3. p.state = "SYN_RCVD" => p.unread = 0  BY Zenon DEF Mid, Whole
    <2> QED  BY <1>2, <1>3, <1>4, <2>1, <2>2, <2>3, Zenon DEF Moves
  <1>6. Mid(q, h, k, v, y)  BY <1>4, <1>5, MovedKeeps, Zenon
  <1> QED  BY <1>1, <1>2, <1>4, <1>6, Zenon

\* Put moves unsent on and tells the wire.
LEMMA PutShape ==
    ASSUME NEW p \in Pcbs, NEW h, NEW k, NEW w \in Wires, NEW y, NEW n
    PROVE  Put(Srv(p, h, k, w, y), n)
             = IF n = 0 THEN Srv(p, h, k, w, y)
               ELSE Srv(Advanced(p, p.unsent + n), h, k, Carries(p, w, p.unsent + n), y)
PROOF
  <1>1. PICK s : s = Srv(p, h, k, w, y)  OBVIOUS
  <1>2. s.pcb = p  BY <1>1 DEF Srv
  <1>3. PICK x : x = p.unsent + n  OBVIOUS
  <1>4. PICK v : v = Carries(p, w, x)  OBVIOUS
  <1>5. PICK c : c = Srv(p, h, k, v, y)  OBVIOUS
  <1>6. Carried(s, x) = c
    <2>1. Carried(Srv(p, h, k, w, y), x) = Srv(p, h, k, Carries(p, w, x), y)  BY CarriedShape
    <2> QED  BY <1>1, <1>4, <1>5, <2>1, Zenon
  <1>7. PICK u : u = [c EXCEPT !.pcb.unsent = @ + n, !.pcb.rtime = TRUE]  OBVIOUS
  <1>8. u = Srv(Advanced(p, x), h, k, v, y)
    <2>1. IsSrv(u)  BY <1>5, <1>7, SrvDomain, Zenon DEF IsSrv
    <2>2. u.hs = h /\ u.pool = k /\ u.wire = v /\ u.why = y  BY <1>5, <1>7, SMT DEF Srv
    <2>3. u.pcb = [p EXCEPT !.unsent = @ + n, !.rtime = TRUE]  BY <1>5, <1>7, SMT DEF Srv
    <2>4. u.pcb = Advanced(p, x)  BY <1>3, <2>3, Zenon DEF Advanced
    <2> QED  BY <2>1, <2>2, <2>4, Rebuilt, Zenon
  <1>9. Put(s, n) = IF n = 0 THEN s ELSE u  BY <1>2, <1>3, <1>6, <1>7, Zenon DEF Put
  <1> QED  BY <1>1, <1>3, <1>4, <1>8, <1>9, Zenon

\* A step's output does not undo what the step did.
LEMMA PutReturns ==
    ASSUME ClientTyped, NEW s, NEW h \in HttpStates, NEW k, NEW y, Returned(s, h, k, y), NEW n \in 0..Unsent(s)
    PROVE  Returned(Put(s, n), h, k, y)
PROOF
  <1>1. PICK p \in Pcbs, g \in HttpStates, m \in Int, w \in Wires, z \in SUBSET Causes :
             /\ p = s.pcb /\ g = s.hs /\ m = s.pool /\ w = s.wire /\ z = s.why /\ s = Srv(p, g, m, w, z)
             /\ Mid(p, g, m, w, z) /\ Steady(p)
    BY GoodIsSrv, Zenon DEF Returned, Good
  <1>2. PICK r : r = Put(s, n)  OBVIOUS
  <1>3. r = IF n = 0 THEN s ELSE Srv(Advanced(p, p.unsent + n), g, m, Carries(p, w, p.unsent + n), z)
    <2>1. Put(Srv(p, g, m, w, z), n)
             = IF n = 0 THEN Srv(p, g, m, w, z) ELSE Srv(Advanced(p, p.unsent + n), g, m, Carries(p, w, p.unsent + n), z)
      BY PutShape
    <2> QED  BY <1>1, <1>2, <2>1, Zenon
  <1>4. CASE n = 0  BY <1>2, <1>3, <1>4, Zenon
  <1>5. CASE n # 0
    <2>1. p.unsent \in Nat /\ p.snd_lbb \in Nat  BY PcbFields
    <2>2. p.state \in Active /\ n \in Nat /\ n <= p.snd_lbb - p.unsent
      <3>1. Unsent(s) = IF p.state \in Active THEN p.snd_lbb - p.unsent ELSE 0  BY <1>1, Zenon DEF Unsent
      <3> QED  BY <1>5, <2>1, <3>1
    <2>3. PICK x \in Nat : x = p.unsent + n /\ p.unsent <= x /\ x <= p.snd_lbb  BY <2>1, <2>2
    <2>4. PICK q \in Pcbs, v \in Wires : q = Advanced(p, x) /\ v = Carries(p, w, x)  BY <1>1, <2>2, <2>3, PutKeeps, Zenon
    <2>5. q.state = p.state /\ q.cb = p.cb /\ q.unread = p.unread /\ Mid(q, g, m, v, z)
      <3>1. /\ Advanced(p, x).state = p.state /\ Advanced(p, x).cb = p.cb /\ Advanced(p, x).unread = p.unread
            /\ Mid(Advanced(p, x), g, m, Carries(p, w, x), z)
        <4>1. Mid(p, g, m, w, z)  BY <1>1, Zenon
        <4> QED  BY <2>2, <2>3, <4>1, PutKeeps, Zenon
      <3> QED  BY <2>4, <3>1, Zenon
    <2>6. r = Srv(q, g, m, v, z)  BY <1>3, <1>5, <2>3, <2>4, Zenon
    <2>7. Good(r)  BY <2>5, <2>6, GoodParts, Zenon
    <2>8. r.pcb = q /\ r.hs = g /\ r.pool = m /\ r.why = z  BY <2>6 DEF Srv
    <2>9. Steady(r.pcb)  BY <1>1, <2>5, <2>8, Zenon DEF Steady
    <2>10. Net(r) = Net(s)  BY <1>1, <2>8, Zenon DEF Net
    <2>11. Net(s) = k - h.req \/ (h.handle /\ "done" \in s.why \ y /\ s.pcb.state = "CLOSED")
      BY Zenon DEF Returned
    <2>12. Returned(r, h, k, y)  BY <1>1, <2>5, <2>7, <2>8, <2>9, <2>10, <2>11, Zenon DEF Returned
    <2> QED  BY <1>2, <2>12, Zenon
  <1> QED  BY <1>4, <1>5, Zenon

\* Nor does a change of counters at the end of a step.
LEMMA TweakReturns ==
    ASSUME NEW p \in Pcbs, NEW q \in Pcbs, NEW g \in HttpStates, NEW m \in Int, NEW w \in Wires, NEW z,
           z \subseteq Causes, NEW h, NEW k, NEW y, Returned(Srv(p, g, m, w, z), h, k, y),
           p.state # "CLOSED", Tweaked(p, q)
    PROVE  Returned(Srv(q, g, m, w, z), h, k, y)
PROOF
  <1>1. PICK s : s = Srv(p, g, m, w, z)  OBVIOUS
  <1>2. s.pcb = p /\ s.hs = g /\ s.pool = m /\ s.wire = w /\ s.why = z  BY <1>1 DEF Srv
  <1>3. Returned(s, h, k, y)  BY <1>1, Zenon
  <1>4. Mid(p, g, m, w, z) /\ Steady(p)  BY <1>2, <1>3, Zenon DEF Returned, Good
  <1>5. Mid(q, g, m, w, z) /\ Steady(q)  BY <1>4, TweakKeeps, Zenon
  <1>6. PICK r : r = Srv(q, g, m, w, z)  OBVIOUS
  <1>7. r.pcb = q /\ r.hs = g /\ r.pool = m  BY <1>6 DEF Srv
  <1>8. Good(r)  BY <1>5, <1>6, GoodParts, Zenon
  <1>9. Net(r) = k - h.req  BY <1>2, <1>3, <1>7, Zenon DEF Returned, Net
  <1>10. Returned(r, h, k, y)  BY <1>5, <1>7, <1>8, <1>9, Zenon DEF Returned
  <1> QED  BY <1>6, <1>10, Zenon

\* tcp_output, whether the first segment fits or not.
LEMMA OutputKeeps ==
    ASSUME ClientTyped, NEW s, NEW h \in HttpStates, NEW k, NEW y, Returned(s, h, k, y), NEW fits, NEW n,
           fits => n \in 0..Unsent(s)
    PROVE  Returned(tcp_output(s, n, fits), h, k, y)
PROOF
  <1>1. PICK p \in Pcbs, g \in HttpStates, m \in Int, w \in Wires, z \in SUBSET Causes :
             /\ p = s.pcb /\ g = s.hs /\ m = s.pool /\ w = s.wire /\ z = s.why /\ s = Srv(p, g, m, w, z)
             /\ Mid(p, g, m, w, z) /\ Steady(p)
    BY GoodIsSrv, Zenon DEF Returned, Good
  <1>2. PICK a, b : /\ a = [s EXCEPT !.pcb.persist = FALSE]
                    /\ b = [s EXCEPT !.pcb.persist = TRUE, !.pcb.probe = 0]
    OBVIOUS
  <1>3. PICK r : r = tcp_output(s, n, fits)  OBVIOUS
  <1>4. \/ r = s
        \/ Pending(p) /\ fits /\ r = Put(a, n)
        \/ Pending(p) /\ r = b
    <2>1. CASE ~Pending(p)  BY <1>1, <1>3, <2>1 DEF tcp_output
    <2>2. CASE Pending(p) /\ fits  BY <1>1, <1>2, <1>3, <2>2 DEF tcp_output
    <2>3. CASE Pending(p) /\ ~fits  BY <1>1, <1>2, <1>3, <2>3 DEF tcp_output
    <2> QED  BY <2>1, <2>2, <2>3
  <1>5. CASE r = s  BY <1>3, <1>5, Zenon
  <1>6. ASSUME Pending(p) PROVE p.state # "CLOSED"
    <2>1. p.unsent < p.snd_lbb  BY <1>6, Zenon DEF Pending
    <2>2. p # NoPcb  BY <2>1, NoFields
    <2> QED  BY <1>1, <2>2, Zenon DEF Mid, Order
  <1>7. z \subseteq Causes /\ Returned(Srv(p, g, m, w, z), h, k, y)  BY <1>1, Zenon
  <1>8. CASE Pending(p) /\ fits /\ r = Put(a, n)
    <2>1. PICK q \in Pcbs : Tweaked(p, q) /\ q = [p EXCEPT !.persist = FALSE]  BY <1>1, Tweaks, Zenon
    <2>2. a = Srv(q, g, m, w, z)
      <3>1. s = Srv(p, g, m, w, z)  BY <1>1
      <3>2. IsSrv(a)  BY <1>2, <3>1, SrvDomain, Zenon DEF IsSrv
      <3>3. a.hs = g /\ a.pool = m /\ a.wire = w /\ a.why = z  BY <1>2, <3>1, SMT DEF Srv
      <3>4. a.pcb = q  BY <1>2, <2>1, <3>1, SMT DEF Srv
      <3> QED  BY <3>2, <3>3, <3>4, Rebuilt, Zenon
    <2>3. Returned(a, h, k, y)  BY <1>6, <1>7, <1>8, <2>1, <2>2, TweakReturns, Zenon
    <2>4. Unsent(a) = Unsent(s)
      <3>1. a.pcb = q  BY <2>2 DEF Srv
      <3>2. q.state = p.state /\ q.snd_lbb = p.snd_lbb /\ q.unsent = p.unsent  BY <2>1 DEF Pcbs
      <3> QED  BY <1>1, <3>1, <3>2, Zenon DEF Unsent
    <2>5. n \in 0..Unsent(a)  BY <1>8, <2>4, Zenon
    <2>6. Returned(Put(a, n), h, k, y)  BY <2>3, <2>5, PutReturns, Zenon
    <2> QED  BY <1>3, <1>8, <2>6, Zenon
  <1>9. CASE Pending(p) /\ r = b
    <2>1. PICK q \in Pcbs : Tweaked(p, q) /\ q = [p EXCEPT !.persist = TRUE, !.probe = 0]  BY <1>1, Tweaks, Zenon
    <2>2. b = Srv(q, g, m, w, z)
      <3>1. s = Srv(p, g, m, w, z)  BY <1>1
      <3>2. IsSrv(b)  BY <1>2, <3>1, SrvDomain, Zenon DEF IsSrv
      <3>3. b.hs = g /\ b.pool = m /\ b.wire = w /\ b.why = z  BY <1>2, <3>1, SMT DEF Srv
      <3>4. b.pcb = q  BY <1>2, <2>1, <3>1, SMT DEF Srv
      <3> QED  BY <3>2, <3>3, <3>4, Rebuilt, Zenon
    <2>3. Returned(b, h, k, y)  BY <1>6, <1>7, <1>9, <2>1, <2>2, TweakReturns, Zenon
    <2> QED  BY <1>3, <1>9, <2>3, Zenon
  <1> QED  BY <1>4, <1>5, <1>8, <1>9, Zenon

-----------------------------------------------------------------------------
(* From what a function returns to the next state.                         *)

\* What PbufsReturned says of a step.
Freed ==
    \/ pool' - hs'.req = pool - hs.req
    \/ hs.handle /\ "done" \in why' \ why /\ pcb'.state = "CLOSED"
    \/ pool' = 0 /\ why' = {"listening"}

\* The server's variables are its five parts.
LEMMA ServerIs == Server = Srv(pcb, hs, pool, wire, why)
PROOF BY DEF Server, Srv

\* The types, one by one.
LEMMA TypedParts ==
    ASSUME Typed
    PROVE  /\ pcb \in Pcbs /\ hs \in HttpStates /\ pool \in Int /\ wire \in Wires /\ why \subseteq Causes
           /\ ClientTyped
PROOF BY Zenon DEF Typed, ClientTyped

\* The invariant's parts speak of the client; they hold of the next state when
\* the client has not moved.
LEMMA Restated ==
    ASSUME client' = client, Mid(pcb', hs', pool', wire', why')
    PROVE  Mid(pcb, hs, pool, wire, why)'
PROOF
  <1>1. Own(pcb, hs)'  BY Zenon DEF Mid, Own
  <1>2. Order(pcb, wire)'  BY Zenon DEF Mid, Order
  <1>3. Buffer(pcb)'  BY Zenon DEF Mid, Buffer
  <1>4. Bounds(pcb, hs)'  BY Zenon DEF Mid, Bounds
  <1>5. Whole(pcb, hs, wire, why)'  BY Zenon DEF Mid, Whole
  <1>6. Reasons(pcb, hs, wire, why)'  BY Zenon DEF Mid, Reasons, Excused
  <1>7. (pool >= hs.req)'  BY Zenon DEF Mid
  <1> QED  BY <1>1, <1>2, <1>3, <1>4, <1>5, <1>6, <1>7, Zenon DEF Mid

\* The invariant of the next state from that of its parts.
LEMMA PartsKeep ==
    ASSUME Typed, client' = client, pcb' \in Pcbs, hs' \in HttpStates, pool' \in Int, wire' \in Wires,
           why' \subseteq Causes, Mid(pcb', hs', pool', wire', why'), Steady(pcb')
    PROVE  Inv'
PROOF
  <1>1. Mid(pcb, hs, pool, wire, why)'  BY Restated, Zenon
  <1>2. Typed'  BY Zenon DEF Typed
  <1>3. Steady(pcb)'  BY Zenon DEF Steady
  <1> QED  BY <1>1, <1>2, <1>3, Zenon DEF Inv

\* A step that ends with what a function returned keeps the invariant.
LEMMA ReturnKeeps ==
    ASSUME Typed, NEW r, Returned(r, hs, pool, why), Return(r), client' = client
    PROVE  Inv' /\ Freed
PROOF
  <1>1. pcb' = r.pcb /\ hs' = r.hs /\ pool' = r.pool /\ wire' = r.wire /\ why' = r.why
    BY Zenon DEF Return
  <1>2. /\ pcb' \in Pcbs /\ hs' \in HttpStates /\ pool' \in Int /\ wire' \in Wires /\ why' \subseteq Causes
        /\ Mid(pcb', hs', pool', wire', why') /\ Steady(pcb')
    BY <1>1, Zenon DEF Returned, Good
  <1>3. Inv'  BY <1>2, PartsKeep, Zenon
  <1>4. Freed  BY <1>1, Zenon DEF Returned, Net, Freed
  <1> QED  BY <1>3, <1>4

\* The output at the end of a step.
Output(s) ==
    \E fits \in Fits(s.pcb) : \E n \in 0..(IF fits THEN Unsent(s) ELSE 0) : Return(tcp_output(s, n, fits))

\* So does one that ends with tcp_output.
LEMMA OutputStep ==
    ASSUME Typed, NEW s, Returned(s, hs, pool, why), Output(s), client' = client
    PROVE  Inv' /\ Freed
PROOF
  <1>1. PICK fits, n : (fits => n \in 0..Unsent(s)) /\ Return(tcp_output(s, n, fits))
    BY Zenon DEF Output
  <1>2. hs \in HttpStates /\ pool \in Int /\ why \subseteq Causes /\ ClientTyped  BY TypedParts
  <1>3. PICK h \in HttpStates, k \in Int, y \in SUBSET Causes : h = hs /\ k = pool /\ y = why  BY <1>2
  <1>4. Returned(s, h, k, y)  BY <1>3, Zenon
  <1>5. Returned(tcp_output(s, n, fits), h, k, y)  BY <1>1, <1>2, <1>4, OutputKeeps, Zenon
  <1>6. PICK r : r = tcp_output(s, n, fits)  OBVIOUS
  <1>7. Returned(r, hs, pool, why) /\ Return(r)  BY <1>1, <1>3, <1>5, <1>6, Zenon
  <1> QED  BY <1>7, ReturnKeeps, Zenon

\* A server that listens, whatever it has lost.
Fresh ==
    /\ pcb = NoPcb /\ hs = NoState /\ pool \in Nat /\ wire = Silent /\ why = {"listening"}
    /\ client \in Clients

\* It satisfies the invariant, ...
LEMMA FreshInv == Fresh => Inv
PROOF
  <1> SUFFICES ASSUME Fresh PROVE Inv  OBVIOUS
  <1>1. /\ pcb = NoPcb /\ hs = NoState /\ pool \in Nat /\ wire = Silent /\ why = {"listening"}
        /\ client \in [snd : {1}, fin : {FALSE}, rcv : {0}, ask : Answers]
    BY Zenon DEF Fresh, Clients
  <1>2. Silent.top = 0 /\ Silent.fin = FALSE /\ Silent.rst = FALSE  BY DEF Silent
  <1>3. client.rcv = 0 /\ client \in [snd : Nat, fin : BOOLEAN, rcv : Nat, ask : Answers]
    <2>1. client.rcv = 0  BY <1>1
    <2>2. 1 \in Nat /\ 0 \in Nat  OBVIOUS
    <2>3. client \in [snd : Nat, fin : BOOLEAN, rcv : Nat, ask : Answers]  BY <1>1, <2>2, Zenon
    <2> QED  BY <2>1, <2>3
  <1>4. Typed
    <2>1. why \subseteq Causes  BY <1>1 DEF Causes
    <2> QED  BY <1>1, <1>3, <2>1, NoTypes DEF Typed
  <1>5. Own(pcb, hs)  BY <1>1, NoFields, Zenon DEF Own
  <1>6. Order(pcb, wire)  BY <1>1, <1>2, <1>3, NoFields DEF Order, Fins
  <1>7. Buffer(pcb)  BY <1>1, NoFields DEF Buffer, Active
  <1>8. Bounds(pcb, hs)  BY <1>1, NoFields, Sizes DEF Bounds
  <1>9. Whole(pcb, hs, wire, why)  BY <1>1, <1>2, NoFields DEF Whole
  <1>10. Reasons(pcb, hs, wire, why)  BY <1>1, <1>2, NoFields DEF Reasons
  <1>11. pool >= hs.req  BY <1>1, NoFields
  <1>12. Steady(pcb)  BY <1>1, NoFields, Zenon DEF Steady
  <1> QED  BY <1>4, <1>5, <1>6, <1>7, <1>8, <1>9, <1>10, <1>11, <1>12, Zenon DEF Inv, Mid

\* ... also as the next state.
LEMMA FreshNext == Fresh' => Inv'
PROOF BY FreshInv, PTL

\* The client moves and the server does not.
LEMMA ClientKeeps ==
    ASSUME Inv, UNCHANGED <<pcb, hs, pool, wire, why>>,
           client' \in [snd : Nat, fin : BOOLEAN, rcv : Nat, ask : Answers],
           client'.ask = client.ask, client'.rcv <= wire.top, client.snd <= client'.snd,
           client.fin => client'.fin
    PROVE  Inv' /\ Freed
PROOF
  <1>1. Typed /\ Mid(pcb, hs, pool, wire, why) /\ Steady(pcb)  BY Zenon DEF Inv
  <1>2. pcb' = pcb /\ hs' = hs /\ pool' = pool /\ wire' = wire /\ why' = why  OBVIOUS
  <1>3. Typed'  BY <1>1, <1>2, Zenon DEF Typed
  <1>4. Steady(pcb)'  BY <1>1, <1>2, Zenon DEF Steady
  <1>5. Own(pcb, hs)'  BY <1>1, <1>2, Zenon DEF Mid, Own
  <1>6. Order(pcb, wire)'  BY <1>1, <1>2, Zenon DEF Mid, Order
  <1>7. Buffer(pcb)'  BY <1>1, <1>2, Zenon DEF Mid, Buffer
  <1>8. Bounds(pcb, hs)'  BY <1>1, <1>2, Zenon DEF Mid, Bounds
  <1>9. Whole(pcb, hs, wire, why)'  BY <1>1, <1>2, Zenon DEF Mid, Whole
  <1>10. Excused(why) => Excused(why)'
    <2>1. client.snd \in Nat /\ client'.snd \in Nat /\ ReqLen \in Nat  BY <1>1, TypedParts, ClientFields, Sizes
    <2>2. client.snd > ReqLen + 1 => client'.snd > ReqLen + 1  BY <2>1
    <2> QED  BY <1>2, <2>2, Zenon DEF Excused
  <1>11. Reasons(pcb, hs, wire, why)'  BY <1>1, <1>2, <1>10, Zenon DEF Mid, Reasons
  <1>12. (pool >= hs.req)'  BY <1>1, <1>2, Zenon DEF Mid
  <1>13. Mid(pcb, hs, pool, wire, why)'
    BY <1>5, <1>6, <1>7, <1>8, <1>9, <1>11, <1>12, Zenon DEF Mid
  <1>14. Freed  BY <1>2, Zenon DEF Freed
  <1> QED  BY <1>3, <1>4, <1>13, <1>14, Zenon DEF Inv

-----------------------------------------------------------------------------
(* The actions.                                                            *)

\* The invariant, part by part.
LEMMA InvParts ==
    ASSUME Inv
    PROVE  /\ pcb \in Pcbs /\ hs \in HttpStates /\ pool \in Int /\ wire \in Wires /\ why \subseteq Causes
           /\ ClientTyped /\ Typed /\ Mid(pcb, hs, pool, wire, why) /\ Steady(pcb)
PROOF BY TypedParts, Zenon DEF Inv

\* Fields of the pcb for a SYN.
LEMMA NewPcbFields ==
    /\ NewPcb \in Pcbs /\ NewPcb.state = "SYN_RCVD" /\ NewPcb.lastack = 0 /\ NewPcb.unsent = 0
    /\ NewPcb.snd_lbb = 1 /\ NewPcb.fin = FALSE /\ NewPcb.rcv_nxt = 1 /\ NewPcb.unread = 0
    /\ NewPcb.rxclosed = FALSE /\ NewPcb.closepend = FALSE /\ NewPcb.cb = FALSE
    /\ NewPcb.nrtx = 0 /\ NewPcb.idle = 0 /\ NewPcb.probe = 0
PROOF BY DEF NewPcb, NoPcb, Pcbs, TcpStates, Active

\* tcp_listen_input.
LEMMA SynKeeps ==
    ASSUME Inv, Syn
    PROVE  Inv' /\ Freed
PROOF
  <1>1. /\ pcb \in Pcbs /\ hs \in HttpStates /\ pool \in Int /\ wire \in Wires
        /\ ClientTyped /\ Typed /\ Mid(pcb, hs, pool, wire, why)
    BY InvParts, Zenon
  <1>2. why = {"listening"} /\ client' = client /\ Outputs({[Server EXCEPT !.pcb = NewPcb, !.why = {}]})
    BY Zenon DEF Syn
  <1>3. pcb = NoPcb /\ wire = Silent /\ hs = NoState
    <2>1. pcb = NoPcb /\ wire = Silent  BY <1>1, <1>2, Zenon DEF Mid, Reasons
    <2> QED  BY <1>1, <2>1, NoFields, Zenon DEF Mid, Own
  <1>4. PICK s : s = [Server EXCEPT !.pcb = NewPcb, !.why = {}]  OBVIOUS
  <1>5. s = Srv(NewPcb, hs, pool, wire, {})
    <2>1. IsSrv(s)  BY <1>4, ServerIs, SrvDomain, Zenon DEF IsSrv
    <2>2. s.pcb = NewPcb /\ s.hs = hs /\ s.pool = pool /\ s.wire = wire /\ s.why = {}  BY <1>4, ServerIs DEF Srv
    <2> QED  BY <2>1, <2>2, Rebuilt, Zenon
  <1>6. Mid(NewPcb, hs, pool, wire, {})
    <2>1. wire.top = 0 /\ wire.fin = FALSE /\ wire.rst = FALSE  BY <1>3 DEF Silent
    <2>2. client.rcv <= wire.top /\ pool >= hs.req  BY <1>1, Zenon DEF Mid, Order
    <2>3. Own(NewPcb, hs)  BY <1>3, NewPcbFields, NoFields, Zenon DEF Own
    <2>4. Order(NewPcb, wire)  BY <2>1, <2>2, NewPcbFields DEF Order, Fins
    <2>5. Buffer(NewPcb)
      <3>1. Queued(NewPcb) = 0  BY NewPcbFields, QueuedNone
      <3> QED  BY <3>1, Sizes DEF Buffer
    <2>6. Bounds(NewPcb, hs)  BY <1>3, NewPcbFields, NoFields, Sizes DEF Bounds
    <2>7. Whole(NewPcb, hs, wire, {})  BY <2>1, NewPcbFields DEF Whole
    <2>8. Reasons(NewPcb, hs, wire, {})  BY <2>1, NewPcbFields DEF Reasons
    <2> QED  BY <2>2, <2>3, <2>4, <2>5, <2>6, <2>7, <2>8, Zenon DEF Mid
  <1>7. Returned(s, hs, pool, why)
    <2>1. Good(s)
      <3>1. PICK h \in HttpStates, k \in Int, w \in Wires, y \in SUBSET Causes : h = hs /\ k = pool /\ w = wire /\ y = {}  BY <1>1
      <3>2. y \subseteq Causes /\ Mid(NewPcb, h, k, w, y)  BY <1>6, <3>1, Zenon
      <3>3. Good(Srv(NewPcb, h, k, w, y))  BY <3>2, NewPcbFields, GoodParts, Zenon
      <3> QED  BY <1>5, <3>1, <3>3, Zenon
    <2>2. s.pcb = NewPcb /\ s.hs = hs /\ s.pool = pool  BY <1>5 DEF Srv
    <2>3. Steady(s.pcb)  BY <2>2, NewPcbFields, Zenon DEF Steady
    <2> QED  BY <2>1, <2>2, <2>3, Zenon DEF Returned, Net
  <1>8. Output(s)  BY <1>2, <1>4, Zenon DEF Outputs, Output
  <1> QED  BY <1>1, <1>2, <1>7, <1>8, OutputStep, Zenon

\* A step that tweaks the pcb.
LEMMA PcbKeeps ==
    ASSUME Inv, NEW q \in Pcbs, Tweaked(pcb, q), pcb.state # "CLOSED", pcb' = q,
           UNCHANGED <<hs, pool, wire, why, client>>
    PROVE  Inv' /\ Freed
PROOF
  <1>1. /\ pcb \in Pcbs /\ hs \in HttpStates /\ pool \in Int /\ wire \in Wires /\ why \subseteq Causes
        /\ Typed /\ Mid(pcb, hs, pool, wire, why) /\ Steady(pcb)
    BY InvParts, Zenon
  <1>2. hs' = hs /\ pool' = pool /\ wire' = wire /\ why' = why /\ client' = client  OBVIOUS
  <1>3. Mid(q, hs, pool, wire, why) /\ Steady(q)
    <2>1. PICK p \in Pcbs, h \in HttpStates, k \in Int, w \in Wires, y \in SUBSET Causes :
             p = pcb /\ h = hs /\ k = pool /\ w = wire /\ y = why
      BY <1>1
    <2>2. Mid(p, h, k, w, y) /\ Steady(p) /\ p.state # "CLOSED" /\ Tweaked(p, q)  BY <1>1, <2>1, Zenon
    <2>3. Mid(q, h, k, w, y) /\ Steady(q)  BY <2>2, TweakKeeps, Zenon
    <2> QED  BY <2>1, <2>3, Zenon
  <1>4. Mid(pcb', hs', pool', wire', why') /\ Steady(pcb')  BY <1>2, <1>3, Zenon
  <1>5. pcb' \in Pcbs /\ hs' \in HttpStates /\ pool' \in Int /\ wire' \in Wires /\ why' \subseteq Causes
    BY <1>1, <1>2, Zenon
  <1>6. Inv'  BY <1>1, <1>2, <1>4, <1>5, PartsKeep, Zenon
  <1>7. Freed  BY <1>2, Zenon DEF Freed
  <1> QED  BY <1>6, <1>7

\* tcp_rexmit.
LEMMA RexmitKeeps ==
    ASSUME Inv, tcp_rexmit
    PROVE  Inv' /\ Freed
PROOF
  <1>1. /\ pcb \in Pcbs /\ hs \in HttpStates /\ pool \in Int /\ wire \in Wires /\ why \subseteq Causes
        /\ Typed /\ Mid(pcb, hs, pool, wire, why) /\ Steady(pcb)
    BY InvParts, Zenon
  <1>2. PICK p \in Pcbs, h \in HttpStates, k \in Int, w \in Wires, y \in SUBSET Causes :
           p = pcb /\ h = hs /\ k = pool /\ w = wire /\ y = why
    BY <1>1
  <1>3. PICK s : s = [Server EXCEPT !.pcb.nrtx = Min({@ + 1, TCP_MAXRTX}),
                                    !.pcb.idle = IF p.rxclosed THEN @ ELSE 0,
                                    !.pcb.probe = 0,
                                    !.pcb.unsent = IF @ = p.lastack + 1 THEN p.lastack ELSE @]
    OBVIOUS
  <1>4. p.state # "CLOSED" /\ client' = client /\ Output(s)
    <2>1. p.state \in Active  BY <1>2, Zenon DEF tcp_rexmit
    <2>2. client' = client /\ Outputs({s})  BY <1>2, <1>3, Zenon DEF tcp_rexmit
    <2>3. Output(s)  BY <2>2, Zenon DEF Outputs, Output
    <2> QED  BY <2>1, <2>2, <2>3 DEF Active
  <1>5. Mid(p, h, k, w, y) /\ Steady(p)  BY <1>1, <1>2, Zenon
  <1>6. PICK la \in Nat, u \in Nat, n \in Nat, i \in Nat, t \in Nat :
           la = p.lastack /\ u = p.unsent /\ n = p.nrtx /\ i = p.idle /\ t = p.polltmr
    BY PcbFields
  <1>7. la <= u /\ n <= TCP_MAXRTX /\ i <= TCP_TIMEOUT + 1 /\ p.probe <= TCP_MAXRTX
    BY <1>5, <1>6, Zenon DEF Mid, Order, Bounds
  <1>8. PICK n1 \in Nat : n1 = Min({n + 1, TCP_MAXRTX}) /\ n1 <= TCP_MAXRTX  BY Sizes, Capped
  <1>9. PICK i0 \in Nat : i0 = (IF p.rxclosed THEN i ELSE 0) /\ i0 <= TCP_TIMEOUT + 1  BY <1>7, Sizes
  <1>10. PICK u1 \in Nat : u1 = (IF u = la + 1 THEN la ELSE u) /\ la <= u1 /\ u1 <= u  BY <1>7
  <1>11. PICK b \in Pcbs : Tweaked(p, b) /\ b = Set(p, u1, n1, i0, t)
    BY <1>6, <1>7, <1>8, <1>9, <1>10, SetTweaks, Zenon
  <1>12. PICK q \in Pcbs : Tweaked(p, q) /\ q = [b EXCEPT !.probe = 0]
    <2>1. Mid(b, h, k, w, y)  BY <1>4, <1>5, <1>11, TweakKeeps, Zenon
    <2>2. PICK e \in BOOLEAN : e = b.persist  BY PcbFields
    <2>3. 0 \in Nat /\ 0 <= TCP_MAXRTX  BY Sizes
    <2>4. PICK q \in Pcbs : Tweaked(b, q) /\ q = SetPersist(b, e, 0)  BY <2>1, <2>3, SetPersistTweaks, Zenon
    <2>5. q = [b EXCEPT !.probe = 0]  BY <2>2, <2>4, SetSame
    <2>6. Tweaked(p, q)  BY <1>11, <2>4, TweakedTwice, Zenon
    <2> QED  BY <2>5, <2>6, Zenon
  <1>13. s = Srv(q, h, k, w, y)
    <2>1. IsSrv(s)  BY <1>3, ServerIs, SrvDomain, Zenon DEF IsSrv
    <2>2. s.hs = h /\ s.pool = k /\ s.wire = w /\ s.why = y  BY <1>2, <1>3, ServerIs, SMT DEF Srv
    <2>3. s.pcb = [p EXCEPT !.nrtx = Min({@ + 1, TCP_MAXRTX}), !.idle = IF p.rxclosed THEN @ ELSE 0, !.probe = 0,
                            !.unsent = IF @ = p.lastack + 1 THEN p.lastack ELSE @]
      BY <1>2, <1>3, ServerIs, SMT DEF Srv
    <2>4. s.pcb = [p EXCEPT !.nrtx = n1, !.idle = i0, !.probe = 0, !.unsent = u1]
      BY <1>6, <1>8, <1>9, <1>10, <2>3, SMT DEF Pcbs
    <2>5. [Set(p, u1, n1, i0, p.polltmr) EXCEPT !.probe = 0]
             = [p EXCEPT !.nrtx = n1, !.idle = i0, !.probe = 0, !.unsent = u1]
      BY DEF Set, Pcbs
    <2>6. s.pcb = q  BY <1>6, <1>11, <1>12, <2>4, <2>5, Zenon
    <2> QED  BY <2>1, <2>2, <2>6, Rebuilt, Zenon
  <1>14. y \subseteq Causes /\ Mid(q, h, k, w, y) /\ Steady(q)  BY <1>1, <1>2, <1>4, <1>5, <1>12, TweakKeeps, Zenon
  <1>15. Returned(Srv(q, h, k, w, y), h, k, y)  BY <1>14, SameReturned, Zenon
  <1>16. Returned(s, hs, pool, why)  BY <1>2, <1>13, <1>15, Zenon
  <1> QED  BY <1>1, <1>4, <1>16, OutputStep, Zenon

\* tcp_timewait_input.
LEMMA TimeWaitKeeps ==
    ASSUME Inv, tcp_timewait_input
    PROVE  Inv' /\ Freed
PROOF
  <1>1. pcb \in Pcbs /\ Mid(pcb, hs, pool, wire, why)  BY InvParts
  <1>2. /\ pcb.state = "TIME_WAIT" /\ UNCHANGED <<hs, pool, wire, why, client>>
        /\ pcb' = [pcb EXCEPT !.idle = 0]
    BY Zenon DEF tcp_timewait_input
  <1>3. PICK q \in Pcbs : Tweaked(pcb, q) /\ q = [pcb EXCEPT !.idle = 0]  BY <1>1, Tweaks, Zenon
  <1>4. pcb.state # "CLOSED"  BY <1>2
  <1> QED  BY <1>2, <1>3, <1>4, PcbKeeps, Zenon

\* A segment for a connection.
LEMMA SegmentReturns ==
    ASSUME Inv, NEW p \in Pcbs, NEW h \in HttpStates, Mid(p, h, pool, wire, why), Steady(p), h.req = hs.req,
           p.state \in Active \ {"SYN_RCVD"}, h.handle => hs.handle, NEW seg \in Segments, NEW mem \in Mem
    PROVE  Returned(tcp_input(Srv(p, h, pool, wire, why), seg, mem), hs, pool, why)
PROOF
  <1>1. pool \in Int /\ wire \in Wires /\ why \subseteq Causes /\ ClientTyped  BY InvParts, Zenon
  <1>2. mem \in Nat  BY Sizes DEF Mem
  <1>3. PICK k \in Int, y \in SUBSET Causes : k = pool /\ y = why  BY <1>1
  <1>4. Returned(tcp_input(Srv(p, h, k, wire, y), seg, mem), h, k, y)
    BY <1>1, <1>2, <1>3, InputKeeps, Zenon
  <1>5. PICK r : r = tcp_input(Srv(p, h, k, wire, y), seg, mem)  OBVIOUS
  <1>6. Returned(r, hs, k, y)  BY <1>4, <1>5, Zenon DEF Returned
  <1> QED  BY <1>3, <1>5, <1>6, Zenon

\* tcp_input for a connection that is set up.
LEMMA SegmentKeeps ==
    ASSUME Inv, Segment
    PROVE  Inv' /\ Freed
PROOF
  <1>1. /\ pcb \in Pcbs /\ hs \in HttpStates /\ Typed /\ Mid(pcb, hs, pool, wire, why) /\ Steady(pcb)
    BY InvParts, Zenon
  <1>2. pcb.state \in Active \ {"SYN_RCVD"} /\ client' = client  BY Zenon DEF Segment
  <1>3. PICK seg \in Segments, mem \in Mem : Output(tcp_input(Server, seg, mem))
    <2>1. Outputs(Inputs(Server, Segments))  BY Zenon DEF Segment
    <2> QED  BY <2>1, SMT DEF Inputs, Outputs, Output
  <1>4. PICK s : s = tcp_input(Srv(pcb, hs, pool, wire, why), seg, mem)  OBVIOUS
  <1>5. Returned(s, hs, pool, why)  BY <1>1, <1>2, <1>4, SegmentReturns, Zenon
  <1>6. Output(s)  BY <1>3, <1>4, ServerIs, Zenon
  <1> QED  BY <1>1, <1>2, <1>5, <1>6, OutputStep, Zenon

\* The handshake ends.
Established(p) == [p EXCEPT !.state = "ESTABLISHED"]
Accepted(p) == [p EXCEPT !.state = "ESTABLISHED", !.cb = TRUE]
NewState == [NoState EXCEPT !.used = TRUE]

\* Its fields.
LEMMA NewStateFields ==
    /\ NewState \in HttpStates /\ NewState.used = TRUE /\ NewState.handle = FALSE
    /\ NewState.retries = 0 /\ NewState.req = 0
PROOF BY DEF NewState, NoState, HttpStates

\* The pcb and the new http_state keep the invariant.
LEMMA AcceptedKeeps ==
    ASSUME NEW p \in Pcbs, NEW h \in HttpStates, NEW k \in Int, NEW w \in Wires, NEW y,
           Mid(p, h, k, w, y), p.state = "SYN_RCVD"
    PROVE  /\ Accepted(p) \in Pcbs /\ Mid(Accepted(p), NewState, k, w, y) /\ Steady(Accepted(p))
           /\ Accepted(p).state = "ESTABLISHED"
PROOF
  <1>1. PICK q \in Pcbs : q = Accepted(p)
    <2>1. "ESTABLISHED" \in TcpStates  BY DEF TcpStates, Active
    <2> QED  BY <2>1, Zenon DEF Pcbs, Accepted
  <1>2. /\ q.state = "ESTABLISHED" /\ q.lastack = p.lastack /\ q.unsent = p.unsent /\ q.snd_lbb = p.snd_lbb
        /\ q.rcv_nxt = p.rcv_nxt /\ q.nrtx = p.nrtx /\ q.idle = p.idle /\ q.probe = p.probe /\ q.closepend = p.closepend
        /\ q.fin = p.fin /\ q.cb = TRUE /\ q.rxclosed = p.rxclosed /\ q.unread = p.unread
    BY <1>1, SMT DEF Accepted, Pcbs
  <1>3. p.snd_lbb = 1 /\ ~p.rxclosed /\ ~p.closepend /\ p.unread = 0 /\ y = {}
    BY Zenon DEF Mid, Whole, Reasons
  <1>4. /\ q.state \in Open /\ q.state # "SYN_RCVD" /\ q.state # "CLOSED" /\ p.state # "CLOSED"
        /\ q.state \notin Fins /\ p.state \notin Fins /\ q.state \notin {"FIN_WAIT_2", "TIME_WAIT"}
        /\ q.state \notin {"CLOSE_WAIT", "LAST_ACK", "CLOSING", "TIME_WAIT"}
        /\ q.state \notin {"CLOSED", "SYN_RCVD"}
    BY <1>2 DEF Open, Fins
  <1>5. Own(q, NewState)  BY <1>2, <1>3, <1>4, NewStateFields, Zenon DEF Own
  <1>6. Order(q, w)  BY <1>2, <1>4, Zenon DEF Mid, Order
  <1>7. Buffer(q)
    <2>1. Queued(q) = 0  BY <1>2, <1>3, QueuedNone
    <2> QED  BY <2>1, Sizes DEF Buffer
  <1>8. Bounds(q, NewState)
    <2>1. NewState.retries < HTTPD_MAX_RETRIES /\ NewState.req <= LWIP_HTTPD_REQ_QUEUELEN
      BY NewStateFields, Sizes
    <2> QED  BY <1>2, <2>1, Zenon DEF Mid, Bounds
  <1>9. ~w.fin  BY <1>4, Zenon DEF Mid, Order
  <1>10. Whole(q, NewState, w, y)  BY <1>2, <1>3, <1>4, <1>9, NewStateFields, Zenon DEF Whole
  <1>11. Reasons(q, NewState, w, y)  BY <1>2, <1>3, <1>4, NewStateFields, Zenon DEF Mid, Reasons
  <1>12. k >= NewState.req
    <2>1. k >= h.req  BY Zenon DEF Mid
    <2> QED  BY <2>1, HsFields, NewStateFields
  <1>13. Mid(q, NewState, k, w, y)
    BY <1>5, <1>6, <1>7, <1>8, <1>10, <1>11, <1>12, Zenon DEF Mid
  <1>14. Steady(q)  BY <1>2, <1>3, Zenon DEF Steady
  <1> QED  BY <1>1, <1>2, <1>13, <1>14, Zenon

\* One more reason.
Because(s, c) == [s EXCEPT !.why = @ \cup c]
BecauseForm(r, p, h, k, w, y, c) == r = Srv(p, h, k, w, y \cup c)

\* Another reason touches why only.
LEMMA BecauseShape ==
    ASSUME NEW p, NEW h, NEW k, NEW w, NEW y, NEW c
    PROVE  BecauseForm(Because(Srv(p, h, k, w, y), c), p, h, k, w, y, c)
PROOF
  <1>1. PICK s : s = Srv(p, h, k, w, y)  OBVIOUS
  <1>2. PICK r : r = [s EXCEPT !.why = @ \cup c]  OBVIOUS
  <1>3. IsSrv(r)  BY <1>1, <1>2, SrvDomain, Zenon DEF IsSrv
  <1>4. r.pcb = p /\ r.hs = h /\ r.pool = k /\ r.wire = w  BY <1>1, <1>2, SMT DEF Srv
  <1>5. r.why = y \cup c  BY <1>1, <1>2, SMT DEF Srv
  <1> QED  BY <1>1, <1>2, <1>3, <1>4, <1>5, Rebuilt, Zenon DEF Because, BecauseForm

\* http_accept, then tcp_input for the rest of the segment.
LEMMA AcceptKeeps ==
    ASSUME Inv, http_accept
    PROVE  Inv' /\ Freed
PROOF
  <1>1. /\ pcb \in Pcbs /\ hs \in HttpStates /\ pool \in Int /\ wire \in Wires /\ why \subseteq Causes
        /\ Typed /\ Mid(pcb, hs, pool, wire, why)
    BY InvParts, Zenon
  <1>2. PICK s : s = [Server EXCEPT !.pcb.state = "ESTABLISHED"]  OBVIOUS
  <1>3. PICK a : a = [s EXCEPT !.hs = [NoState EXCEPT !.used = TRUE], !.pcb.cb = TRUE]  OBVIOUS
  <1>4. pcb.state = "SYN_RCVD" /\ client' = client  BY Zenon DEF http_accept
  <1>5. \/ Return([tcp_abort(s) EXCEPT !.why = @ \cup {"no memory"}])
        \/ \E seg \in Segments, mem \in Mem : Output(tcp_input(a, seg, mem))
    <2>1. PICK segs : segs = {seg \in Segments : Acks(pcb, seg)}  OBVIOUS
    <2>2. \/ Return([tcp_abort(s) EXCEPT !.why = @ \cup {"no memory"}])
          \/ Outputs(Inputs(a, segs))
      BY <1>2, <1>3, <2>1, Zenon DEF http_accept
    <2>3. \A seg \in segs : seg \in Segments  BY <2>1, Zenon
    <2>4. Outputs(Inputs(a, segs)) => \E seg \in segs, mem \in Mem : Output(tcp_input(a, seg, mem))
      BY SMT DEF Inputs, Outputs, Output
    <2> QED  BY <2>2, <2>3, <2>4, Zenon
  <1>6. hs = NoState /\ ~pcb.cb /\ pcb.state # "CLOSED"
    <2>1. ~pcb.cb
      <3>1. pcb.cb => pcb.state \in Open  BY <1>1, Zenon DEF Mid, Own
      <3> QED  BY <1>4, <3>1 DEF Open
    <2>2. hs = NoState  BY <1>1, <2>1, Zenon DEF Mid, Own
    <2> QED  BY <1>4, <2>1, <2>2
  <1>7. PICK p \in Pcbs, h \in HttpStates, k \in Int, w \in Wires, y \in SUBSET Causes :
           p = pcb /\ h = hs /\ k = pool /\ w = wire /\ y = why
    BY <1>1
  <1>8. s = Srv(Established(p), h, k, w, y)
    <2>1. IsSrv(s)  BY <1>2, ServerIs, SrvDomain, Zenon DEF IsSrv
    <2>2. s.hs = hs /\ s.pool = pool /\ s.wire = wire /\ s.why = why  BY <1>2, ServerIs, SMT DEF Srv
    <2>3. s.pcb = Established(pcb)  BY <1>2, ServerIs, SMT DEF Srv, Established
    <2> QED  BY <1>7, <2>1, <2>2, <2>3, Rebuilt, Zenon
  <1>9. CASE Return([tcp_abort(s) EXCEPT !.why = @ \cup {"no memory"}])
    <2>1. PICK e \in Pcbs : e = Established(p) /\ e.cb = p.cb
      <3>1. "ESTABLISHED" \in TcpStates  BY DEF TcpStates, Active
      <3>2. PICK e \in Pcbs : e = Established(p)  BY <3>1, Zenon DEF Pcbs, Established
      <3>3. e.cb = p.cb  BY <3>2 DEF Established, Pcbs
      <3> QED  BY <3>2, <3>3, Zenon
    <2>2. PICK b : b = tcp_abort(s)  OBVIOUS
    <2>3. PICK v \in Wires : v.top = w.top /\ v.fin = w.fin /\ b = Srv(NoPcb, h, k, v, y)
      <3>1. CASE b = Srv(NoPcb, h, k, w, y)  BY <3>1, Zenon
      <3>2. CASE b = Srv(NoPcb, h, k, [w EXCEPT !.rst = TRUE], y)
        <4>1. PICK v \in Wires : v = [w EXCEPT !.rst = TRUE]  BY RstSent
        <4>2. v.top = w.top /\ v.fin = w.fin  BY <4>1, RstSent, Zenon
        <4> QED  BY <3>2, <4>1, <4>2, Zenon
      <3>3. ~e.cb  BY <1>6, <1>7, <2>1, Zenon
      <3>4. b = Srv(NoPcb, h, k, w, y) \/ b = Srv(NoPcb, h, k, [w EXCEPT !.rst = TRUE], y)
        <4>1. b = tcp_abort(Srv(e, h, k, w, y))  BY <1>8, <2>1, <2>2, Zenon
        <4> QED  BY <3>3, <4>1, AbortShape
      <3> QED  BY <3>1, <3>2, <3>4, Zenon
    <2>4. PICK r : r = [b EXCEPT !.why = @ \cup {"no memory"}]  OBVIOUS
    <2>5. PICK z : z = y \cup {"no memory"}  OBVIOUS
    <2>6. r = Srv(NoPcb, h, k, v, z)
      <3>1. b = Srv(NoPcb, h, k, v, y)  BY <2>3, Zenon
      <3>2. BecauseForm(Because(Srv(NoPcb, h, k, v, y), {"no memory"}), NoPcb, h, k, v, y, {"no memory"})
        BY BecauseShape, Zenon
      <3> QED  BY <2>4, <2>5, <3>1, <3>2, Zenon DEF Because, BecauseForm
    <2>7. y \subseteq z /\ "listening" \notin z /\ Excused(z) /\ z \subseteq Causes
      <3>1. "listening" \notin y  BY <1>1, <1>6, <1>7, NoFields, Zenon DEF Mid, Reasons
      <3>2. "no memory" # "listening" /\ "no memory" \in Causes /\ "no memory" \in Told  BY DEF Causes, Told
      <3>3. Excused(z)  BY <2>5, <3>2, Zenon DEF Excused
      <3> QED  BY <1>1, <1>7, <2>5, <3>1, <3>2, <3>3, Zenon
    <2>8. Mid(p, h, k, w, y) /\ h = NoState  BY <1>1, <1>6, <1>7, Zenon
    <2>9. Mid(NoPcb, NoState, k - h.req, v, z)  BY <2>3, <2>7, <2>8, GoneKeeps, Zenon
    <2>10. k - h.req = k  BY <2>8, NoFields
    <2>11. Mid(NoPcb, h, k, v, z)  BY <2>8, <2>9, <2>10, Zenon
    <2>12. Good(r)  BY <2>6, <2>7, <2>11, NoTypes, GoodParts, Zenon
    <2>13. r.pcb = NoPcb /\ r.hs = h /\ r.pool = k  BY <2>6 DEF Srv
    <2>14. Steady(r.pcb)  BY <2>13, NoFields, Zenon DEF Steady
    <2>15. Returned(r, hs, pool, why)  BY <1>7, <2>12, <2>13, <2>14, Zenon DEF Returned, Net
    <2>16. Return(r)  BY <1>9, <2>2, <2>4, Zenon
    <2> QED  BY <1>1, <1>4, <2>15, <2>16, ReturnKeeps, Zenon
  <1>10. CASE \E seg \in Segments, mem \in Mem : Output(tcp_input(a, seg, mem))
    <2>1. PICK seg \in Segments, mem \in Mem : Output(tcp_input(a, seg, mem))  BY <1>10, Zenon
    <2>2. PICK q \in Pcbs : q = Accepted(p)  BY <1>1, <1>4, <1>7, AcceptedKeeps, Zenon
    <2>3. Mid(q, NewState, pool, wire, why) /\ Steady(q) /\ q.state = "ESTABLISHED"
      <3>1. Mid(p, h, k, w, y) /\ p.state = "SYN_RCVD"  BY <1>1, <1>4, <1>7, Zenon
      <3>2. Mid(Accepted(p), NewState, k, w, y) /\ Steady(Accepted(p)) /\ Accepted(p).state = "ESTABLISHED"
        BY <3>1, AcceptedKeeps, Zenon
      <3> QED  BY <1>7, <2>2, <3>2, Zenon
    <2>4. a = Srv(q, NewState, pool, wire, why)
      <3>1. IsSrv(a)  BY <1>3, <1>8, SrvDomain, Zenon DEF IsSrv
      <3>2. a.hs = NewState /\ a.pool = k /\ a.wire = w /\ a.why = y  BY <1>3, <1>8, SMT DEF Srv, NewState
      <3>3. a.pcb = [Established(p) EXCEPT !.cb = TRUE]  BY <1>3, <1>8, SMT DEF Srv
      <3>4. a.pcb = Accepted(p)  BY <3>3 DEF Established, Accepted, Pcbs
      <3> QED  BY <1>7, <2>2, <3>1, <3>2, <3>4, Rebuilt, Zenon
    <2>5. q.state \in Active \ {"SYN_RCVD"}  BY <2>3 DEF Active
    <2>6. NewState.req = hs.req /\ ~NewState.handle  BY <1>6, NewStateFields, NoFields, Zenon
    <2>7. Returned(tcp_input(Srv(q, NewState, pool, wire, why), seg, mem), hs, pool, why)
      BY <2>3, <2>5, <2>6, NewStateFields, SegmentReturns, Zenon
    <2>8. PICK r : r = tcp_input(a, seg, mem)  OBVIOUS
    <2>9. Returned(r, hs, pool, why) /\ Output(r)  BY <2>1, <2>4, <2>7, <2>8, Zenon
    <2> QED  BY <1>1, <1>4, <2>9, OutputStep, Zenon
  <1> QED  BY <1>5, <1>9, <1>10, Zenon

\* The RST for nobody's segment.
LEMMA OrphanKeeps ==
    ASSUME Inv, Orphan
    PROVE  Inv' /\ Freed
PROOF
  <1>1. /\ pcb \in Pcbs /\ hs \in HttpStates /\ pool \in Int /\ wire \in Wires /\ why \subseteq Causes
        /\ ClientTyped /\ Typed /\ Mid(pcb, hs, pool, wire, why)
    BY InvParts, Zenon
  <1>2. /\ pcb.state = "CLOSED" /\ Segments # {} /\ wire' = [wire EXCEPT !.rst = TRUE]
        /\ pcb' = pcb /\ hs' = hs /\ pool' = pool /\ why' = why /\ client' = client
    BY DEF Orphan
  <1>3. pcb = NoPcb /\ hs = NoState
    <2>1. pcb = NoPcb  BY <1>1, <1>2, Zenon DEF Mid, Order
    <2> QED  BY <1>1, <2>1, NoFields, Zenon DEF Mid, Own
  <1>4. client.rcv > 0
    <2>1. PICK seg \in Segments : TRUE  BY <1>2, Zenon
    <2>2. seg.ackno \in 1..client.rcv
      <3>1. seg \in [seqno : 1..client.snd, end : 1..client.snd, fin : BOOLEAN, ackno : 1..client.rcv,
                 wnd : BOOLEAN]
        BY Zenon DEF Segments
      <3> QED  BY <3>1
    <2> QED  BY <1>1, <2>2, ClientFields
  <1>5. "listening" \notin why
    <2>1. "listening" \in why => wire = Silent  BY <1>1, Zenon DEF Mid, Reasons
    <2>2. client.rcv <= wire.top  BY <1>1, Zenon DEF Mid, Order
    <2>3. wire # Silent  BY <1>1, <1>4, <2>2, ClientFields DEF Silent
    <2> QED  BY <2>1, <2>3, Zenon
  <1>6. Excused(why)  BY <1>1, <1>2, <1>5, Zenon DEF Mid, Reasons
  <1>7. PICK v \in Wires : v = [wire EXCEPT !.rst = TRUE] /\ v.top = wire.top /\ v.fin = wire.fin
    BY <1>1, RstSent, Zenon
  <1>8. Mid(NoPcb, NoState, pool - hs.req, v, why)  BY <1>1, <1>5, <1>6, <1>7, GoneKeeps, Zenon
  <1>9. pool - hs.req = pool  BY <1>1, <1>3, NoFields
  <1>10. Mid(pcb', hs', pool', wire', why')  BY <1>2, <1>3, <1>7, <1>8, <1>9, Zenon
  <1>11. Steady(pcb')  BY <1>2, <1>3, NoFields, Zenon DEF Steady
  <1>12. pcb' \in Pcbs /\ hs' \in HttpStates /\ pool' \in Int /\ wire' \in Wires /\ why' \subseteq Causes
    BY <1>1, <1>2, <1>7, Zenon
  <1>13. Inv'  BY <1>1, <1>2, <1>10, <1>11, <1>12, PartsKeep, Zenon
  <1>14. Freed  BY <1>2, Zenon DEF Freed
  <1> QED  BY <1>13, <1>14

\* The connection goes: a RST came, it is given up, or its pcb is needed.
LEMMA GoneStep ==
    ASSUME Inv, NEW p \in Pcbs, NEW w \in Wires, Mid(p, hs, pool, w, why), p.state # "CLOSED", NEW c \in Told,
           Return(Removed(Srv(p, hs, pool, w, why), {c})), client' = client
    PROVE  Inv' /\ Freed
PROOF
  <1>1. /\ hs \in HttpStates /\ pool \in Int /\ why \subseteq Causes /\ Typed
    BY InvParts, Zenon
  <1>2. PICK h \in HttpStates, k \in Int, y \in SUBSET Causes : h = hs /\ k = pool /\ y = why  BY <1>1
  <1>3. Mid(p, h, k, w, y) /\ y \subseteq Causes  BY <1>1, <1>2, Zenon
  <1>4. Returned(Removed(Srv(p, h, k, w, y), {c}), h, k, y)  BY <1>3, RemovedKeeps, Zenon
  <1>5. PICK r : r = Removed(Srv(p, h, k, w, y), {c})  OBVIOUS
  <1>6. Returned(r, hs, pool, why) /\ Return(r)  BY <1>2, <1>4, <1>5, Zenon
  <1> QED  BY <1>1, <1>6, ReturnKeeps, Zenon

\* A RST from the client.
LEMMA RstKeeps ==
    ASSUME Inv, Rst
    PROVE  Inv' /\ Freed
PROOF
  <1>1. pcb \in Pcbs /\ wire \in Wires /\ Mid(pcb, hs, pool, wire, why)  BY InvParts
  <1>2. pcb.state \in Active /\ client' = client /\ Return(Removed(Server, {"client reset"}))
    BY Zenon DEF Rst
  <1>3. "client reset" \in Told  BY DEF Told
  <1>4. pcb.state # "CLOSED"  BY <1>2 DEF Active
  <1>5. Return(Removed(Srv(pcb, hs, pool, wire, why), {"client reset"}))  BY <1>2, ServerIs, Zenon
  <1> QED  BY <1>1, <1>2, <1>3, <1>4, <1>5, GoneStep, Zenon

\* The second attempt to close, as a step.
LEMMA RecloseStep ==
    ASSUME Inv, pcb.closepend, NEW mem, Output(Reclosed(mem)), client' = client
    PROVE  Inv' /\ Freed
PROOF
  <1>1. /\ pcb \in Pcbs /\ hs \in HttpStates /\ pool \in Int /\ wire \in Wires /\ why \subseteq Causes /\ Typed
        /\ Mid(pcb, hs, pool, wire, why)
    BY InvParts, Zenon
  <1>2. PICK p \in Pcbs, h \in HttpStates, k \in Int, w \in Wires, y \in SUBSET Causes :
           p = pcb /\ h = hs /\ k = pool /\ w = wire /\ y = why
    BY <1>1
  <1>3. Mid(p, h, k, w, y) /\ y \subseteq Causes /\ p.closepend  BY <1>1, <1>2, Zenon
  <1>4. Returned(Again(Srv(p, h, k, w, y), mem), h, k, y)  BY <1>3, RecloseKeeps, Zenon
  <1>5. PICK r : r = Again(Srv(p, h, k, w, y), mem)  OBVIOUS
  <1>6. r = Reclosed(mem)  BY <1>2, <1>5, ServerIs, Zenon DEF Reclosed, Again
  <1>7. Returned(r, hs, pool, why) /\ Output(r)  BY <1>2, <1>4, <1>5, <1>6, Zenon
  <1> QED  BY <1>1, <1>7, OutputStep, Zenon

\* tcp_fasttmr.
LEMMA FastKeeps ==
    ASSUME Inv, tcp_fasttmr(Mem)
    PROVE  Inv' /\ Freed
PROOF
  <1>1. pcb.closepend /\ client' = client /\ Outputs({Reclosed(mem) : mem \in Mem})  BY Zenon DEF tcp_fasttmr
  <1>2. PICK mem \in Mem : Output(Reclosed(mem))  BY <1>1, Zenon DEF Outputs, Output
  <1> QED  BY <1>1, <1>2, RecloseStep, Zenon

\* tcp_alloc, for another connection.
LEMMA AllocKeeps ==
    ASSUME Inv, tcp_alloc
    PROVE  Inv' /\ Freed
PROOF
  <1>1. client' = client  BY Zenon DEF tcp_alloc
  <1>2. CASE pcb.closepend /\ Outputs({Reclosed(mem) : mem \in Mem})
    <2>1. PICK mem \in Mem : Output(Reclosed(mem))  BY <1>2, Zenon DEF Outputs, Output
    <2> QED  BY <1>1, <1>2, <2>1, RecloseStep, Zenon
  <1>3. CASE pcb.state \in {"TIME_WAIT", "LAST_ACK", "CLOSING"} /\ Return(Removed(Server, {"lost"}))
    <2>1. pcb \in Pcbs /\ wire \in Wires /\ Mid(pcb, hs, pool, wire, why)  BY InvParts
    <2>2. "lost" \in Told  BY DEF Told
    <2>3. pcb.state # "CLOSED"  BY <1>3
    <2>4. Return(Removed(Srv(pcb, hs, pool, wire, why), {"lost"}))  BY <1>3, ServerIs, Zenon
    <2> QED  BY <1>1, <2>1, <2>2, <2>3, <2>4, GoneStep, Zenon
  <1> QED  BY <1>2, <1>3, Zenon DEF tcp_alloc

\* What the timers of a tick leave: the connection, with its queues in order.
Ticked(s, h, k, y) ==
    \E p \in Pcbs, w \in Wires :
        s = Srv(p, h, k, w, y) /\ Mid(p, h, k, w, y) /\ Steady(p) /\ p.state # "CLOSED"

\* A probe of a closed window.
LEMMA ProbeKeeps ==
    ASSUME ClientTyped, NEW p \in Pcbs, NEW h \in HttpStates, NEW k \in Int, NEW w \in Wires, NEW y,
           Mid(p, h, k, w, y), Steady(p), p.state # "CLOSED", NEW n \in 0..1
    PROVE  Ticked(tcp_zero_window_probe(Srv(p, h, k, w, y), n), h, k, y)
PROOF
  <1>1. PICK s : s = Srv(p, h, k, w, y)  OBVIOUS
  <1>2. s.pcb = p  BY <1>1 DEF Srv
  <1>3. PICK r : r = tcp_zero_window_probe(s, n)  OBVIOUS
  <1>4. CASE ~Pending(p)
    <2>1. r = s  BY <1>2, <1>3, <1>4, Zenon DEF tcp_zero_window_probe
    <2> QED  BY <1>1, <1>3, <2>1, Zenon DEF Ticked
  <1>5. CASE Pending(p)
    <2>1. PICK x \in Nat : x = p.unsent + n /\ x <= p.snd_lbb
      <3>1. p.unsent < p.snd_lbb  BY <1>5, Zenon DEF Pending
      <3> QED  BY <3>1, PcbFields
    <2>2. PICK v \in Wires : v = Carries(p, w, x) /\ Mid(p, h, k, v, y)  BY <2>1, CarriesKeeps, Zenon
    <2>3. PICK c : c = Srv(p, h, k, v, y)  OBVIOUS
    <2>4. r = [c EXCEPT !.pcb.probe = Min({@ + 1, TCP_MAXRTX})]
      <3>1. Carried(Srv(p, h, k, w, y), x) = Srv(p, h, k, Carries(p, w, x), y)  BY CarriedShape
      <3>2. Carried(s, x) = c  BY <1>1, <2>2, <2>3, <3>1, Zenon
      <3> QED  BY <1>2, <1>3, <1>5, <2>1, <3>2, Zenon DEF tcp_zero_window_probe
    <2>5. PICK q \in Pcbs : Tweaked(p, q) /\ q = [p EXCEPT !.probe = Min({@ + 1, TCP_MAXRTX})]
      BY Tweaks, Zenon
    <2>6. r = Srv(q, h, k, v, y)
      <3>1. IsSrv(r)  BY <2>3, <2>4, SrvDomain, Zenon DEF IsSrv
      <3>2. r.hs = h /\ r.pool = k /\ r.wire = v /\ r.why = y  BY <2>3, <2>4, SMT DEF Srv
      <3>3. r.pcb = q  BY <2>3, <2>4, <2>5, SMT DEF Srv
      <3> QED  BY <3>1, <3>2, <3>3, Rebuilt, Zenon
    <2>7. Mid(q, h, k, v, y) /\ Steady(q)  BY <2>2, <2>5, TweakKeeps, Zenon
    <2>8. q.state # "CLOSED"  BY <2>5, Zenon DEF Tweaked
    <2> QED  BY <1>1, <1>3, <2>6, <2>7, <2>8, Zenon DEF Ticked
  <1> QED  BY <1>4, <1>5, Zenon

\* Whichever timer runs out.
LEMMA ExpiredKeeps ==
    ASSUME ClientTyped, NEW p \in Pcbs, NEW h \in HttpStates, NEW k \in Int, NEW w \in Wires, NEW y,
           Mid(p, h, k, w, y), Steady(p), p.state # "CLOSED", NEW s \in Expired(Srv(p, h, k, w, y))
    PROVE  Ticked(s, h, k, y)
PROOF
  <1>1. PICK a : a = Srv(p, h, k, w, y)  OBVIOUS
  <1>2. a.pcb = p  BY <1>1 DEF Srv
  <1>3. \/ \E n \in 0..1 : s = tcp_zero_window_probe(a, n)
        \/ s = a
        \/ s = [a EXCEPT !.pcb = Retransmit(@)]
    <2>1. s \in Expired(a)  BY <1>1, Zenon
    <2>2. CASE p.persist /\ ~p.wnd
      <3>1. s \in {tcp_zero_window_probe(a, n) : n \in 0..1}  BY <1>2, <2>1, <2>2 DEF Expired
      <3> QED  BY <3>1
    <2>3. CASE p.persist /\ p.wnd
      <3>1. s \in {a}  BY <1>2, <2>1, <2>3 DEF Expired
      <3> QED  BY <3>1
    <2>4. CASE ~p.persist
      <3>1. s \in {[a EXCEPT !.pcb = Retransmit(@)]}  BY <1>2, <2>1, <2>4 DEF Expired
      <3> QED  BY <3>1
    <2> QED  BY <2>2, <2>3, <2>4
  <1>4. CASE \E n \in 0..1 : s = tcp_zero_window_probe(a, n)  BY <1>1, <1>4, ProbeKeeps, Zenon
  <1>5. CASE s = a  BY <1>1, <1>5, Zenon DEF Ticked
  <1>6. CASE s = [a EXCEPT !.pcb = Retransmit(@)]
    <2>1. PICK u \in Pcbs : Tweaked(p, u) /\ u = Retransmit(p)  BY Tweaks, Zenon
    <2>2. s = [a EXCEPT !.pcb = u]  BY <1>2, <1>6, <2>1, Zenon
    <2>3. s = Srv(u, h, k, w, y)
      <3>1. IsSrv(s)  BY <1>1, <2>2, SrvDomain, Zenon DEF IsSrv
      <3>2. s.pcb = u /\ s.hs = h /\ s.pool = k /\ s.wire = w /\ s.why = y  BY <1>1, <2>2, SMT DEF Srv
      <3> QED  BY <3>1, <3>2, Rebuilt, Zenon
    <2>4. Mid(u, h, k, w, y) /\ Steady(u)  BY <2>1, TweakKeeps, Zenon
    <2>5. u.state # "CLOSED"  BY <2>1, Zenon DEF Tweaked
    <2> QED  BY <2>3, <2>4, <2>5, Zenon DEF Ticked
  <1> QED  BY <1>3, <1>4, <1>5, <1>6, Zenon

\* tcp_slowtmr: the timers, giving up, or the poll callback.
LEMMA SlowKeeps ==
    ASSUME Inv, NEW expired \in BOOLEAN, tcp_slowtmr(Mem, expired)
    PROVE  Inv' /\ Freed
PROOF
  <1>1. /\ pcb \in Pcbs /\ hs \in HttpStates /\ pool \in Int /\ wire \in Wires /\ why \subseteq Causes /\ Typed
        /\ Mid(pcb, hs, pool, wire, why) /\ Steady(pcb) /\ ClientTyped
    BY InvParts, Zenon
  <1>2. pcb.state # "CLOSED" /\ client' = client  BY Zenon DEF tcp_slowtmr
  <1>3. PICK t \in Pcbs : Tweaked(pcb, t) /\ t = [pcb EXCEPT !.idle = Min({@ + 1, TCP_TIMEOUT + 1})]
    BY <1>1, Tweaks, Zenon
  <1>4. PICK b \in Pcbs, h \in HttpStates, k \in Int, w \in Wires, y \in SUBSET Causes :
           b = pcb /\ h = hs /\ k = pool /\ w = wire /\ y = why
    BY <1>1
  <1>5. Mid(t, h, k, w, y) /\ Steady(t) /\ t.state # "CLOSED"
    <2>1. Mid(b, h, k, w, y) /\ Steady(b) /\ b.state # "CLOSED" /\ Tweaked(b, t)  BY <1>1, <1>2, <1>3, <1>4, Zenon
    <2>2. t.state # "CLOSED"  BY <2>1, Zenon DEF Tweaked
    <2> QED  BY <2>1, <2>2, TweakKeeps, Zenon
  <1>6. PICK a : a = [Server EXCEPT !.pcb.idle = Min({@ + 1, TCP_TIMEOUT + 1})]  OBVIOUS
  <1>7. a = Srv(t, h, k, w, y)
    <2>1. IsSrv(a)  BY <1>6, ServerIs, SrvDomain, Zenon DEF IsSrv
    <2>2. a.hs = hs /\ a.pool = pool /\ a.wire = wire /\ a.why = why  BY <1>6, ServerIs, SMT DEF Srv
    <2>3. a.pcb = t  BY <1>3, <1>6, ServerIs, SMT DEF Srv
    <2> QED  BY <1>4, <2>1, <2>2, <2>3, Rebuilt, Zenon
  <1>8. PICK lost, due : /\ lost = (Lost(pcb) \/ TimedOut(a.pcb))
                         /\ due = (expired /\ (pcb.rtime \/ pcb.persist))
    OBVIOUS
  <1>9. PICK output : output = (PollDue(pcb) \/ (due /\ (pcb.wnd \/ ~pcb.persist)))  OBVIOUS
  <1>10. PICK S : S = IF due /\ ~Lost(pcb) THEN Expired(a) ELSE {a}  OBVIOUS
  <1>11. \A s \in S : Ticked(s, h, k, y)
    <2>1. Ticked(a, h, k, y)  BY <1>5, <1>7, Zenon DEF Ticked
    <2>2. \A s \in Expired(a) : Ticked(s, h, k, y)  BY <1>1, <1>5, <1>7, ExpiredKeeps, Zenon
    <2> QED  BY <1>10, <2>1, <2>2, Zenon
  <1>12. PICK s \in S : CASE lost -> Return(Removed(s, {"lost"}))
                          [] ~lost /\ output -> Outputs({Polled(s, mem) : mem \in Mem})
                          [] OTHER -> Return(Polled(s, 0))
    BY <1>6, <1>8, <1>9, <1>10, Zenon DEF tcp_slowtmr
  <1>13. PICK p \in Pcbs, v \in Wires :
            s = Srv(p, h, k, v, y) /\ Mid(p, h, k, v, y) /\ Steady(p) /\ p.state # "CLOSED"
    BY <1>11, Zenon DEF Ticked
  <1>14. CASE lost
    <2>1. "lost" \in Told  BY DEF Told
    <2>2. Return(Removed(s, {"lost"}))  BY <1>12, <1>14
    <2>3. Mid(p, hs, pool, v, why) /\ Return(Removed(Srv(p, hs, pool, v, why), {"lost"}))
      BY <1>4, <1>13, <2>2, Zenon
    <2> QED  BY <1>2, <1>13, <2>1, <2>3, GoneStep, Zenon
  <1>15. ASSUME NEW mem \in Nat PROVE Returned(Polled(s, mem), hs, pool, why)
    <2>1. y \subseteq Causes  BY <1>1, <1>4
    <2>2. Returned(Polled(Srv(p, h, k, v, y), mem), h, k, y)  BY <1>1, <1>13, <2>1, PolledKeeps, Zenon
    <2> QED  BY <1>4, <1>13, <2>2, Zenon
  <1>16. CASE ~lost /\ output
    <2>1. Outputs({Polled(s, mem) : mem \in Mem})  BY <1>12, <1>16
    <2>2. PICK mem \in Mem : Output(Polled(s, mem))  BY <2>1, Zenon DEF Outputs, Output
    <2>3. mem \in Nat  BY Sizes DEF Mem
    <2>4. PICK r : r = Polled(s, mem)  OBVIOUS
    <2>5. Returned(r, hs, pool, why) /\ Output(r)  BY <1>15, <2>2, <2>3, <2>4, Zenon
    <2> QED  BY <1>1, <1>2, <2>5, OutputStep, Zenon
  <1>17. CASE ~lost /\ ~output
    <2>1. 0 \in Nat /\ Return(Polled(s, 0))  BY <1>12, <1>17
    <2>2. PICK r : r = Polled(s, 0)  OBVIOUS
    <2>3. Returned(r, hs, pool, why) /\ Return(r)  BY <1>15, <2>1, <2>2, Zenon
    <2> QED  BY <1>1, <1>2, <2>3, ReturnKeeps, Zenon
  <1> QED  BY <1>14, <1>16, <1>17, Zenon

\* Nothing moves.
LEMMA SameKeeps ==
    ASSUME Inv, UNCHANGED vars
    PROVE  Inv' /\ Freed
PROOF
  <1>1. ClientTyped /\ Mid(pcb, hs, pool, wire, why)  BY InvParts
  <1>2. client' = client /\ UNCHANGED <<pcb, hs, pool, wire, why>>  BY DEF vars
  <1>3. client' \in [snd : Nat, fin : BOOLEAN, rcv : Nat, ask : Answers] /\ client'.ask = client.ask
    BY <1>1, <1>2, Zenon DEF ClientTyped
  <1>4. client'.rcv <= wire.top /\ (client.fin => client'.fin)  BY <1>1, <1>2, Zenon DEF Mid, Order
  <1>5. client.snd <= client'.snd  BY <1>1, <1>2, ClientFields
  <1> QED  BY <1>2, <1>3, <1>4, <1>5, ClientKeeps, Zenon

\* A frame without a pbuf: lost, or the processor starts again.
LEMMA NullPbufKeeps ==
    ASSUME Inv, NullPbuf
    PROVE  Inv' /\ Freed
PROOF
  <1>1. CASE UNCHANGED vars
    BY <1>1, SameKeeps, Zenon
  <1>2. CASE /\ pcb' = NoPcb /\ hs' = NoState /\ pool' = 0
             /\ wire' = Silent /\ why' = {"listening"} /\ client' \in Clients
    <2>1. 0 \in Nat  OBVIOUS
    <2>2. Fresh'  BY <1>2, <2>1, Zenon DEF Fresh
    <2>3. Freed  BY <1>2, Zenon DEF Freed
    <2> QED  BY <2>2, <2>3, FreshNext
  <1> QED  BY <1>1, <1>2, Zenon DEF NullPbuf

\* The next client finds the server as the last one left it.
LEMMA NextClientKeeps ==
    ASSUME Inv, NextClient
    PROVE  Inv' /\ Freed
PROOF
  <1>1. /\ pcb \in Pcbs /\ hs \in HttpStates /\ pool \in Int /\ Mid(pcb, hs, pool, wire, why)
    BY InvParts, Zenon
  <1>2. /\ pcb.state = "CLOSED" /\ wire' = Silent /\ why' = {"listening"} /\ client' \in Clients
        /\ pcb' = pcb /\ hs' = hs /\ pool' = pool
    BY Zenon DEF NextClient
  <1>3. pcb = NoPcb  BY <1>1, <1>2, Zenon DEF Mid, Order
  <1>4. hs = NoState  BY <1>1, <1>3, NoFields, Zenon DEF Mid, Own
  <1>5. pool \in Nat
    <2>1. pool >= hs.req  BY <1>1, Zenon DEF Mid
    <2> QED  BY <1>1, <1>4, <2>1, NoFields
  <1>6. Fresh'  BY <1>2, <1>3, <1>4, <1>5, Zenon DEF Fresh
  <1>7. Freed  BY <1>2, Zenon DEF Freed
  <1> QED  BY <1>6, <1>7, FreshNext

\* The client's own steps.
LEMMA ReceivesKeeps ==
    ASSUME Inv, ClientReceives
    PROVE  Inv' /\ Freed
PROOF
  <1>1. ClientTyped /\ wire \in Wires  BY InvParts
  <1>2. client.rcv < wire.top /\ client' = [client EXCEPT !.rcv = @ + 1]  BY Zenon DEF ClientReceives
  <1>3. UNCHANGED <<pcb, hs, pool, wire, why>>  BY Zenon DEF ClientReceives
  <1>4. client.rcv \in Nat /\ wire.top \in Nat  BY <1>1, ClientFields, WireFields
  <1>5. PICK n \in Nat : n = client.rcv + 1  BY <1>4
  <1>6. n <= wire.top  BY <1>2, <1>4, <1>5
  <1>7. client' = [client EXCEPT !.rcv = n]  BY <1>2, <1>5, Zenon
  <1>8. client' \in [snd : Nat, fin : BOOLEAN, rcv : Nat, ask : Answers]
    BY <1>1, <1>7, Zenon DEF ClientTyped
  <1>9. client'.ask = client.ask /\ client'.rcv = n /\ client'.snd = client.snd /\ client'.fin = client.fin
    BY <1>1, <1>7 DEF ClientTyped
  <1>10. client'.rcv <= wire.top /\ client.snd <= client'.snd /\ (client.fin => client'.fin)
    BY <1>1, <1>6, <1>9, ClientFields
  <1> QED  BY <1>3, <1>8, <1>9, <1>10, ClientKeeps, Zenon

\* It sends one unit more, ...
LEMMA SendsKeeps ==
    ASSUME Inv, ClientSends
    PROVE  Inv' /\ Freed
PROOF
  <1>1. ClientTyped /\ Mid(pcb, hs, pool, wire, why)  BY InvParts
  <1>2. client' = [client EXCEPT !.snd = @ + 1] /\ client.rcv <= wire.top
    BY <1>1, Zenon DEF ClientSends, Mid, Order
  <1>3. UNCHANGED <<pcb, hs, pool, wire, why>>  BY Zenon DEF ClientSends
  <1>4. client.snd \in Nat  BY <1>1, ClientFields
  <1>5. PICK n \in Nat : n = client.snd + 1  BY <1>4
  <1>6. client' = [client EXCEPT !.snd = n]  BY <1>2, <1>5, Zenon
  <1>7. client' \in [snd : Nat, fin : BOOLEAN, rcv : Nat, ask : Answers]
    BY <1>1, <1>6, Zenon DEF ClientTyped
  <1>8. client'.ask = client.ask /\ client'.rcv = client.rcv /\ client'.snd = n /\ client'.fin = client.fin
    BY <1>1, <1>6 DEF ClientTyped
  <1>9. client'.rcv <= wire.top /\ client.snd <= client'.snd /\ (client.fin => client'.fin)
    BY <1>2, <1>4, <1>5, <1>8
  <1> QED  BY <1>3, <1>7, <1>8, <1>9, ClientKeeps, Zenon

\* ... or closes.
LEMMA ClosesKeeps ==
    ASSUME Inv, ClientCloses
    PROVE  Inv' /\ Freed
PROOF
  <1>1. ClientTyped /\ Mid(pcb, hs, pool, wire, why)  BY InvParts
  <1>2. client' = [client EXCEPT !.fin = TRUE] /\ client.rcv <= wire.top
    BY <1>1, Zenon DEF ClientCloses, Mid, Order
  <1>3. UNCHANGED <<pcb, hs, pool, wire, why>>  BY Zenon DEF ClientCloses
  <1>4. client' \in [snd : Nat, fin : BOOLEAN, rcv : Nat, ask : Answers]
    BY <1>1, <1>2, Zenon DEF ClientTyped
  <1>5. client'.ask = client.ask /\ client'.rcv = client.rcv /\ client'.snd = client.snd /\ client'.fin = TRUE
    BY <1>1, <1>2 DEF ClientTyped
  <1>6. client'.rcv <= wire.top /\ client.snd <= client'.snd /\ (client.fin => client'.fin)
    BY <1>1, <1>2, <1>5, ClientFields
  <1> QED  BY <1>3, <1>4, <1>5, <1>6, ClientKeeps, Zenon

-----------------------------------------------------------------------------
(* The invariant is inductive.                                             *)

\* It holds at first, ...
LEMMA InitInv == Init => Inv
PROOF
  <1>1. 0 \in Nat  OBVIOUS
  <1>2. Init => Fresh  BY <1>1, Zenon DEF Init, Fresh
  <1> QED  BY <1>2, FreshInv

\* ... and every step keeps it and frees what it should.
LEMMA NextKeeps == Inv /\ Next => Inv' /\ Freed
PROOF
  <1> SUFFICES ASSUME Inv, Next PROVE Inv' /\ Freed  OBVIOUS
  <1>1. CASE Syn  BY <1>1, SynKeeps
  <1>2. CASE tcp_rexmit  BY <1>2, RexmitKeeps
  <1>3. CASE http_accept  BY <1>3, AcceptKeeps
  <1>4. CASE Segment  BY <1>4, SegmentKeeps
  <1>5. CASE tcp_timewait_input  BY <1>5, TimeWaitKeeps
  <1>6. CASE Orphan  BY <1>6, OrphanKeeps
  <1>7. CASE Rst  BY <1>7, RstKeeps
  <1>8. CASE NullPbuf  BY <1>8, NullPbufKeeps
  <1>9. CASE tcp_fasttmr(Mem)  BY <1>9, FastKeeps
  <1>10. CASE tcp_alloc  BY <1>10, AllocKeeps
  <1>11. ASSUME NEW expired \in BOOLEAN, tcp_slowtmr(Mem, expired) PROVE Inv' /\ Freed
    BY <1>11, SlowKeeps, Zenon
  <1>12. CASE ClientReceives  BY <1>12, ReceivesKeeps
  <1>13. CASE ClientSends  BY <1>13, SendsKeeps
  <1>14. CASE ClientCloses  BY <1>14, ClosesKeeps
  <1>15. CASE NextClient  BY <1>15, NextClientKeeps
  <1> QED
    BY <1>1, <1>2, <1>3, <1>4, <1>5, <1>6, <1>7, <1>8, <1>9, <1>10, <1>11, <1>12, <1>13, <1>14, <1>15,
       Zenon DEF Next

\* The invariant holds in every state, and a step frees what PbufsReturned says.
LEMMA Invariant == Spec => [](Inv) /\ [][Freed]_vars
PROOF
  <1>1. Inv /\ UNCHANGED vars => Inv'  BY SameKeeps
  <1> QED  BY <1>1, InitInv, NextKeeps, PTL DEF Spec

\* It implies each invariant of the module Httpd.
LEMMA InvTypeOK == Inv => TypeOK
PROOF
  <1> SUFFICES ASSUME Inv PROVE TypeOK  OBVIOUS
  <1>1. /\ pcb \in Pcbs /\ hs \in HttpStates /\ pool \in Int /\ wire \in Wires /\ why \subseteq Causes
        /\ Own(pcb, hs) /\ Order(pcb, wire) /\ Buffer(pcb) /\ Bounds(pcb, hs) /\ pool >= hs.req
    BY InvParts, Zenon DEF Mid
  <1>2. pcb.state \in Active \cup {"CLOSED", "TIME_WAIT"}  BY <1>1, PcbFields, Zenon DEF TcpStates
  <1>3. 0 <= pcb.lastack /\ pcb.nrtx \in Nat /\ pcb.idle \in Nat /\ pcb.probe \in Nat  BY <1>1, PcbFields
  <1>4. pcb.lastack <= pcb.unsent /\ pcb.unsent <= pcb.snd_lbb /\ client.rcv <= wire.top
    BY <1>1, Zenon DEF Order
  <1>5. pcb.state # "CLOSED" => pcb.unsent <= wire.top  BY <1>1, Zenon DEF Order
  <1>6. pcb.state \in Active => Queued(pcb) \in 0..TCP_SND_BUF
    <2>1. Queued(pcb) \in Nat  BY <1>1, QueuedFinite
    <2>2. pcb.state \in Active => Queued(pcb) <= TCP_SND_BUF  BY <1>1, Zenon DEF Buffer
    <2> QED  BY <2>1, <2>2, Sizes
  <1>7. pcb.nrtx \in 0..TCP_MAXRTX /\ pcb.probe \in 0..TCP_MAXRTX /\ pcb.idle \in 0..(TCP_TIMEOUT + 1)
    <2>1. pcb.nrtx <= TCP_MAXRTX /\ pcb.idle <= TCP_TIMEOUT + 1 /\ pcb.probe <= TCP_MAXRTX  BY <1>1, Zenon DEF Bounds
    <2> QED  BY <1>3, <2>1, Sizes
  <1>8. hs.retries \in Nat /\ hs.left \in Nat /\ hs.req \in Nat  BY <1>1, HsFields
  <1>9. hs.retries \in 0..(HTTPD_MAX_RETRIES - 1) /\ hs.req \in 0..LWIP_HTTPD_REQ_QUEUELEN
    <2>1. hs.retries < HTTPD_MAX_RETRIES /\ hs.req <= LWIP_HTTPD_REQ_QUEUELEN  BY <1>1, Zenon DEF Bounds
    <2> QED  BY <1>8, <2>1, Sizes
  <1>10. pool \in Nat  BY <1>1, <1>8
  <1> QED  BY <1>1, <1>2, <1>3, <1>4, <1>5, <1>6, <1>7, <1>8, <1>9, <1>10, Zenon DEF TypeOK

\* The callbacks are those of an established connection because it is steady.
LEMMA InvHsOwned == Inv => HsOwned
PROOF
  <1> SUFFICES ASSUME Inv PROVE HsOwned  OBVIOUS
  <1>1. pcb \in Pcbs /\ hs \in HttpStates /\ Own(pcb, hs) /\ Steady(pcb)  BY InvParts, Zenon DEF Mid
  <1>2. pcb.cb \in BOOLEAN /\ hs.used \in BOOLEAN  BY <1>1, PcbFields, HsFields
  <1> QED  BY <1>1, <1>2, Zenon DEF HsOwned, Own, Steady

\* A FIN is only sent with the whole file written.
LEMMA InvEndMeansWhole == Inv => EndMeansWhole
PROOF
  <1> SUFFICES ASSUME Inv, wire.fin, client.rcv = wire.top,
                      why \cap {"gave up", "refused", "client closed"} = {}
               PROVE  client.ask # Bad /\ client.rcv = client.ask + 2
    BY Zenon DEF EndMeansWhole
  <1>1. Whole(pcb, hs, wire, why)  BY InvParts, Zenon DEF Mid
  <1>2. client.ask \in Nat /\ wire.top = client.ask + 2  BY <1>1, Zenon DEF Whole, Early
  <1> QED  BY <1>2, ConstantsAssumption

\* A RST is only sent with a reason.
LEMMA InvResetExplained == Inv => ResetExplained
PROOF
  <1> SUFFICES ASSUME Inv PROVE ResetExplained  OBVIOUS
  <1>1. Reasons(pcb, hs, wire, why)  BY InvParts, Zenon DEF Mid
  <1> QED  BY <1>1, Zenon DEF ResetExplained, Reasons, Excused, Told

-----------------------------------------------------------------------------
(* The theorems.                                                           *)

\* The queues, the send buffer, the counters and the request's queue keep their
\* bounds, whatever the network and the client do (tcp_write,
\* tcp_free_acked_segments, http_parse_request, http_poll).
THEOREM TypeCorrect == Spec => []TypeOK
PROOF BY Invariant, InvTypeOK, PTL

\* The http_state and the callbacks are set up and torn down together, on every
\* way a connection can end (http_close_conn, http_err, tcp_abandon).
THEOREM StateOwned == Spec => []HsOwned
PROOF BY Invariant, InvHsOwned, PTL

\* A client that has received an orderly end has the file it asked for, however
\* its segments were cut, lost and repeated (http_send, tcp_enqueue_flags).
THEOREM OrderlyEnd == Spec => []EndMeansWhole
PROOF BY Invariant, InvEndMeansWhole, PTL

\* A client that sends its request and waits is not reset without a reason
\* (tcp_close_shutdown, tcp_input).
THEOREM NoIdleReset == Spec => []ResetExplained
PROOF BY Invariant, InvResetExplained, PTL

\* No step keeps a pbuf of received data but as part of the request, except the
\* one in which http_sent ends the connection (tcp_input, http_recv).
THEOREM PbufsFreed == Spec => PbufsReturned
PROOF BY Invariant, PTL DEF PbufsReturned, Freed
=============================================================================
