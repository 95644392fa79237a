------------------------------- MODULE Httpd --------------------------------
(***************************************************************************)
(* One connection to the HTTP server: lwIP's httpd (apps/http/httpd.c) on  *)
(* lwIP's TCP (core/tcp.c, tcp_in.c, tcp_out.c), from the SYN to the       *)
(* release of the pcb, as this firmware builds them: no keep-alive, no     *)
(* POST, no SSI, no out-of-order queue, two segments of send buffer.       *)
(*                                                                         *)
(* Sequence numbers count units: the SYN is 0, then the data, then the     *)
(* FIN.  The network loses, repeats and reorders in both directions: the   *)
(* client may receive anything ever sent, the server any segment that the  *)
(* client could have sent so far.  The client may stop at any time.        *)
(*                                                                         *)
(* The server runs on the super-loop: a segment (tcp_input with all the    *)
(* callbacks it makes) or a timer tick is one step.  How much memory a     *)
(* step finds free (mem), and how many of the unsent units it sends, is    *)
(* left open: other connections and the congestion window decide.  The     *)
(* client opens and closes its window as it likes.                         *)
(***************************************************************************)
EXTENDS Integers, FiniteSets, FiniteSetsExt

CONSTANTS
    TCP_SND_BUF,              \* units that may be written and not acknowledged
    TCP_MAXRTX,
    TCP_TIMEOUT,              \* ticks of 2 TCP_MSL, TCP_FIN_WAIT_TIMEOUT and
                              \* TCP_SYN_RCVD_TIMEOUT
    HTTPD_MAX_RETRIES, HTTPD_POLL_INTERVAL,
    LWIP_HTTPD_REQ_QUEUELEN,  \* pbufs a request may be spread over
    LWIP_HTTPD_REQ_BUFSIZE,   \* units of a request that are looked at
    PBUF_POOL_SIZE,           \* pbufs for everything that is received
    LineLen, ReqLen,          \* units up to the end of a request's first line and
                              \* up to the empty line that ends it
    MaxSend,                  \* units the client may send
    Answers,                  \* lengths of the files; 0: there is no such file
    Bad                       \* the answer to a request that is not a GET

ASSUME ConstantsAssumption ==
    /\ {TCP_SND_BUF, TCP_MAXRTX, HTTPD_MAX_RETRIES, HTTPD_POLL_INTERVAL,
        LWIP_HTTPD_REQ_QUEUELEN, LWIP_HTTPD_REQ_BUFSIZE, PBUF_POOL_SIZE, LineLen,
        ReqLen} \subseteq Nat \ {0}
    /\ TCP_TIMEOUT \in Nat /\ MaxSend \in Nat /\ LineLen <= ReqLen /\ ReqLen <= MaxSend
    /\ Bad \notin Nat /\ Answers \subseteq Nat \cup {Bad}

VARIABLES
    pcb,     \* the tcp_pcb, "CLOSED" when there is none
    hs,      \* the http_state
    pool,    \* pbufs with client data that have not been freed
    wire,    \* what has been sent: units, whether the last is a FIN, a RST
    why,     \* the reasons so far for ending the connection (history)
    client   \* its units sent and received, whether it closed, what it asks for

vars == <<pcb, hs, pool, wire, why, client>>

Active == {"SYN_RCVD", "ESTABLISHED", "FIN_WAIT_1", "FIN_WAIT_2", "CLOSE_WAIT",
           "CLOSING", "LAST_ACK"}

\* Freed memory, as the model writes it.
NoPcb == [state |-> "CLOSED", lastack |-> 0, unsent |-> 0, snd_lbb |-> 0, fin |-> FALSE,
          rcv_nxt |-> 0, unread |-> 0, rxclosed |-> FALSE, closepend |-> FALSE, cb |-> FALSE,
          rtime |-> FALSE, nrtx |-> 0, idle |-> 0, polltmr |-> 0,
          wnd |-> TRUE, persist |-> FALSE, probe |-> 0]
NoState == [used |-> FALSE, handle |-> FALSE, left |-> 0, retries |-> 0, req |-> 0]

\* tcp_alloc and tcp_listen_input: a pcb for a SYN, with SYN and ACK enqueued.
\* The window the SYN offers (wnd: it is not zero) is replaced by the first ACK's.
NewPcb == [NoPcb EXCEPT !.state = "SYN_RCVD", !.snd_lbb = 1, !.rcv_nxt = 1]

Silent == [top |-> 0, fin |-> FALSE, rst |-> FALSE]
Clients == [snd : {1}, fin : {FALSE}, rcv : {0}, ask : Answers]

Init ==
    /\ pcb = NoPcb /\ hs = NoState /\ pool = 0
    /\ wire = Silent /\ why = {"listening"} /\ client \in Clients

\* What the functions below take and return.
Server == [pcb |-> pcb, hs |-> hs, pool |-> pool, wire |-> wire, why |-> why]
Return(s) ==
    /\ pcb' = s.pcb /\ hs' = s.hs /\ pool' = s.pool /\ wire' = s.wire /\ why' = s.why

-----------------------------------------------------------------------------
(* tcp_out.c and the ends of a connection in tcp.c.                        *)

Pending(p) == p.unsent < p.snd_lbb   \* pcb->unsent # NULL
InFlight(p) == p.lastack < p.unsent  \* pcb->unacked # NULL

\* Data units that are written and not acknowledged; neither SYN nor FIN.
Queued(p) ==
    LET data == {u \in p.lastack..(p.snd_lbb - 1) : u # 0 /\ ~(p.fin /\ u = p.snd_lbb - 1)}
    IN  Cardinality(data)

\* The units before next are on the wire: snd_nxt and the client's view of it.
Carried(s, next) ==
    [s EXCEPT !.wire.top = Max({@, next}),
              !.wire.fin = @ \/ (s.pcb.fin /\ next = s.pcb.snd_lbb)]

\* What is unsent goes out as far as window and memory allow: n units, perhaps none.
Put(s, n) ==
    IF n = 0 THEN s
    ELSE [Carried(s, s.pcb.unsent + n) EXCEPT !.pcb.unsent = @ + n, !.pcb.rtime = TRUE]

\* tcp_output: when the first segment does not fit into the window and nothing is
\* in flight, the persist timer starts; when it fits, the timer stops.
tcp_output(s, n, fits) ==
    CASE ~Pending(s.pcb) -> s
      [] Pending(s.pcb) /\ fits -> Put([s EXCEPT !.pcb.persist = FALSE], n)
      [] OTHER -> IF InFlight(s.pcb) \/ s.pcb.persist THEN s
                  ELSE [s EXCEPT !.pcb.persist = TRUE, !.pcb.probe = 0]
Unsent(s) == IF s.pcb.state \in Active THEN s.pcb.snd_lbb - s.pcb.unsent ELSE 0

\* Whether the first segment fits into the window: a lone SYN or FIN always does,
\* nothing else fits into a closed one, and into one that is not, it may or may not.
Lone(p) == p.lastack + 1 = p.snd_lbb /\ (p.fin \/ p.lastack = 0)
Fits(p) == IF Lone(p) THEN {TRUE} ELSE {FALSE, p.wnd}

\* http_state_free, with the request it keeps; http_err for the http_state a pcb
\* points to.
http_state_free(s) == [s EXCEPT !.hs = NoState, !.pool = @ - s.hs.req]
http_err(s) == IF s.pcb.cb THEN http_state_free(s) ELSE s

\* Mutant: the application is not told.
removed_no_err(s, cause) == [s EXCEPT !.pcb = NoPcb, !.why = @ \cup cause]

\* The pcb is removed and freed, then the application is told.
Removed(s, cause) == [http_err(s) EXCEPT !.pcb = NoPcb, !.why = @ \cup cause]

\* tcp_abandon; a pcb in TIME-WAIT is released silently.
tcp_abort(s) ==
    IF s.pcb.state = "TIME_WAIT" THEN [s EXCEPT !.pcb = NoPcb]
    ELSE [Removed(s, {}) EXCEPT !.wire.rst = TRUE]

\* Mutant: a close without memory is forgotten.
close_not_pending(s, mem) ==
    IF s.pcb.state \notin {"ESTABLISHED", "CLOSE_WAIT"} \/ (mem = 0 /\ ~Pending(s.pcb)) THEN s
    ELSE [s EXCEPT !.pcb.state = IF @ = "ESTABLISHED" THEN "FIN_WAIT_1" ELSE "LAST_ACK",
                   !.pcb.snd_lbb = @ + 1, !.pcb.fin = TRUE]

\* A FIN travels with the last unsent segment, or takes memory for its own.
\* Without memory the close is left to tcp_fasttmr.
tcp_close_shutdown_fin(s, mem) ==
    IF s.pcb.state \notin {"ESTABLISHED", "CLOSE_WAIT"} THEN s
    ELSE IF mem = 0 /\ ~Pending(s.pcb) THEN [s EXCEPT !.pcb.closepend = TRUE]
    ELSE [s EXCEPT !.pcb.state = IF @ = "ESTABLISHED" THEN "FIN_WAIT_1" ELSE "LAST_ACK",
                   !.pcb.snd_lbb = @ + 1, !.pcb.fin = TRUE]

\* tcp_close: a window that is not all open means data nobody has taken.
tcp_close(s, mem) ==
    LET t == [s EXCEPT !.pcb.rxclosed = TRUE]
    IN  IF t.pcb.state \in {"ESTABLISHED", "CLOSE_WAIT"} /\ t.pcb.unread # 0
        THEN [t EXCEPT !.pcb = NoPcb, !.wire.rst = TRUE]
        ELSE tcp_close_shutdown_fin(t, mem)

-----------------------------------------------------------------------------
(* httpd.c.                                                                *)

\* The callbacks are removed first, so that nothing refers to the http_state.
\* The poll interval becomes 0, so that polltmr does not matter any more.
http_close_conn(s, mem, cause) ==
    tcp_close([http_state_free(s) EXCEPT !.pcb.cb = FALSE, !.pcb.polltmr = 0,
                                         !.why = @ \cup {cause}], mem)

\* Mutant: the send buffer's limit is left out.
write_no_sndbuf(s, mem) == Min({mem, s.hs.left})

\* http_write: as much as fits into the send buffer and into memory.
http_write(s, mem) == Min({mem, s.hs.left, TCP_SND_BUF - Queued(s.pcb)})

\* Mutant: what tcp_write did not take counts as written.
send_counts_all(s, mem) ==
    IF ~s.hs.handle THEN http_close_conn(s, mem, "no file")
    ELSE http_close_conn([s EXCEPT !.pcb.snd_lbb = @ + http_write(s, mem)], mem, "done")

\* http_send closes as soon as the last unit has been written.
http_send(s, mem) ==
    LET n == http_write(s, mem)
        t == [s EXCEPT !.pcb.snd_lbb = @ + n, !.hs.left = @ - n]
    IN  CASE ~s.hs.handle -> http_close_conn(s, mem, "no file")
          [] s.hs.handle /\ t.hs.left = 0 -> http_close_conn(t, mem, "done")
          [] OTHER -> t

http_sent(s, mem) ==
    IF ~s.pcb.cb THEN s ELSE http_send([s EXCEPT !.hs.retries = 0], mem)

http_poll(s, mem) ==
    LET t == [s EXCEPT !.hs.retries = @ + 1]
    IN  CASE t.hs.retries = HTTPD_MAX_RETRIES -> http_close_conn(t, mem, "gave up")
          [] t.hs.retries # HTTPD_MAX_RETRIES /\ t.hs.handle -> http_send(t, mem)
          [] OTHER -> t

\* http_parse_request, http_find_file and http_init_file.  The request is kept
\* until it is complete; one that is too long or on too many pbufs is refused, and
\* one that is not a GET as soon as its first line is there.
Seen(s, got) == IF s.hs.req = 0 THEN got ELSE Min({got, LWIP_HTTPD_REQ_BUFSIZE})
Refused(s, got) ==
    IF client.ask = Bad /\ Seen(s, got) >= LineLen THEN TRUE
    ELSE /\ Seen(s, got) < ReqLen
         /\ got > LWIP_HTTPD_REQ_BUFSIZE \/ s.hs.req + 1 > LWIP_HTTPD_REQ_QUEUELEN
Parsed(s, got, mem) ==
    LET t == [s EXCEPT !.hs.req = @ + 1]
        done == [t EXCEPT !.pool = @ - t.hs.req, !.hs.req = 0]
    IN  CASE Refused(s, got) -> http_close_conn(done, mem, "refused")
          [] ~Refused(s, got) /\ Seen(s, got) < ReqLen -> t
          [] OTHER ->
                http_send([done EXCEPT !.hs.handle = client.ask # 0, !.hs.left = client.ask,
                                       !.hs.retries = 0], mem)

\* Mutant: the window stays closed.
recved_not(s, n) == s

\* tcp_recved opens the window again.
tcp_recved(s, n) == [s EXCEPT !.pcb.unread = Max({0, @ - n})]

\* Mutant: data that comes while the file is sent is not freed.
recv_keeps(s, n, got, mem) ==
    LET t == tcp_recved(s, n) IN IF t.hs.handle THEN t ELSE Parsed(t, got, mem)

\* http_recv with a pbuf of n units, the request's first got units being there
\* now; then with none, for a FIN.
http_recv(s, n, got, mem) ==
    LET t == tcp_recved(s, n)
    IN  IF t.hs.handle THEN [t EXCEPT !.pool = @ - 1] ELSE Parsed(t, got, mem)
http_recv_fin(s, mem) ==
    IF s.pcb.cb THEN http_close_conn(s, mem, "client closed") ELSE s

-----------------------------------------------------------------------------
(* tcp_in.c.                                                               *)

\* What is new in a segment: it holds units seqno to end - 1 and perhaps a FIN.
\* What came before is cut off, what comes too early is dropped, and after a FIN
\* nothing counts.
New(p, seg) ==
    IF /\ p.state \in {"ESTABLISHED", "FIN_WAIT_1", "FIN_WAIT_2"}
       /\ seg.seqno <= p.rcv_nxt
       /\ p.rcv_nxt < seg.end + (IF seg.fin THEN 1 ELSE 0)
    THEN [data |-> seg.end - p.rcv_nxt, fin |-> seg.fin]
    ELSE [data |-> 0, fin |-> FALSE]
Length(new) == new.data + (IF new.fin THEN 1 ELSE 0)

Acks(p, seg) == p.lastack < seg.ackno /\ seg.ackno <= wire.top

\* The units acknowledged leave both queues.
Acked(p, seg) ==
    LET unsent == Max({p.unsent, seg.ackno})
    IN  IF ~Acks(p, seg) THEN p
        ELSE [p EXCEPT !.lastack = seg.ackno, !.unsent = unsent, !.nrtx = 0, !.polltmr = 0,
                       !.rtime = seg.ackno < unsent]

\* tcp_receive: the window, the acknowledgement, then the data that comes next.  An
\* old segment leaves the window as it is, like a new one with the same window.
tcp_receive(p, seg) ==
    LET new == New(p, seg)
    IN  [Acked(p, seg) EXCEPT !.rcv_nxt = @ + Length(new), !.unread = @ + Length(new),
                              !.wnd = seg.wnd]

\* The states; ackno = snd_nxt with nothing unsent means that all is acknowledged.
AllAcked(p, seg) == seg.ackno = wire.top /\ ~Pending(p)
NextState(state, p, new, seg) ==
    CASE state = "ESTABLISHED" -> IF new.fin THEN "CLOSE_WAIT" ELSE state
      [] state = "FIN_WAIT_1" ->
            IF new.fin THEN (IF AllAcked(p, seg) THEN "TIME_WAIT" ELSE "CLOSING")
            ELSE IF AllAcked(p, seg) THEN "FIN_WAIT_2" ELSE state
      [] state = "FIN_WAIT_2" -> IF new.fin THEN "TIME_WAIT" ELSE state
      [] state = "CLOSING" -> IF AllAcked(p, seg) THEN "TIME_WAIT" ELSE state
      [] state = "LAST_ACK" -> IF AllAcked(p, seg) THEN "CLOSED" ELSE state
      [] OTHER -> state

\* tcp_process: purged in TIME-WAIT, released by the last ACK.  The age is not
\* reset any more once the connection is closed (TF_RXCLOSED), the count of
\* unanswered probes always is.  TIME-WAIT has no timer but its age.
tcp_process(p, seg) ==
    LET new == New(p, seg)
        t == [tcp_receive(p, seg) EXCEPT !.idle = IF p.rxclosed THEN @ ELSE 0, !.probe = 0]
        state == NextState(p.state, t, new, seg)
    IN  CASE state = "CLOSED" -> NoPcb
          [] state = "TIME_WAIT" ->
                [t EXCEPT !.state = state, !.unsent = t.snd_lbb, !.lastack = t.snd_lbb,
                          !.rtime = FALSE, !.persist = FALSE, !.wnd = TRUE]
          [] OTHER -> [t EXCEPT !.state = state]

\* tcp_input after tcp_process: the callbacks, each only while there is a pcb.
\* A pcb that http_sent closed takes the received data with it.
Sent(s, acked, mem) == IF acked THEN http_sent(s, mem) ELSE s
Received(s, new, seg, mem) ==
    CASE s.pcb.state = "CLOSED" \/ new.data = 0 -> s
      [] s.pcb.state # "CLOSED" /\ new.data > 0 /\ s.pcb.rxclosed ->
            [tcp_abort(s) EXCEPT !.pool = @ - 1]
      [] OTHER -> http_recv(s, new.data, seg.end - 1, mem)
Finished(s, new, mem) ==
    IF s.pcb.state = "CLOSED" \/ ~new.fin THEN s ELSE http_recv_fin(tcp_recved(s, 1), mem)

tcp_input(s, seg, mem) ==
    LET new == New(s.pcb, seg)
        p == tcp_process(s.pcb, seg)
        acked == Acks(s.pcb, seg) /\ Queued(p) < Queued(s.pcb)
        t == [s EXCEPT !.pcb = p, !.pool = IF new.data > 0 THEN @ + 1 ELSE @]
    IN  Finished(Received(Sent(t, acked, mem), new, seg, mem), new, mem)

\* The segments the client may have sent: units seqno to end - 1 of its data,
\* its FIN after the last, an acknowledgement of what it had received, and any
\* window.
Segments ==
    {seg \in [seqno : 1..client.snd, end : 1..client.snd, fin : BOOLEAN, ackno : 1..client.rcv,
              wnd : BOOLEAN] :
        /\ seg.seqno <= seg.end
        /\ seg.seqno = seg.end => seg.end = client.snd
        /\ seg.fin => client.fin /\ seg.end = client.snd}

-----------------------------------------------------------------------------
(* The server's steps.                                                     *)

\* The units of memory a step may find free.
Mem == 0..TCP_SND_BUF

\* A step ends with tcp_output, in one of the states its function may return.
Outputs(S) ==
    \E s \in S : \E fits \in Fits(s.pcb) : \E n \in 0..(IF fits THEN Unsent(s) ELSE 0) :
        Return(tcp_output(s, n, fits))

\* tcp_input with any of the segments.
Inputs(s, segs) == {tcp_input(s, seg, mem) : seg \in segs, mem \in Mem}

\* low_level_input finds a pbuf for a frame.
Room == pool < PBUF_POOL_SIZE

\* Without one it returns NULL, which ethernetif_input passes on: undefined.
\* The frame is lost, or the processor faults and the watchdog restarts it.
NullPbuf ==
    /\ ~Room
    /\ \/ UNCHANGED vars
       \/ /\ pcb' = NoPcb /\ hs' = NoState /\ pool' = 0
          /\ wire' = Silent /\ why' = {"listening"} /\ client' \in Clients

\* tcp_listen_input; without memory the SYN is ignored.
Syn ==
    /\ Room /\ why = {"listening"}
    /\ Outputs({[Server EXCEPT !.pcb = NewPcb, !.why = {}]})
    /\ UNCHANGED client

\* tcp_rexmit, for the SYN again or for a third duplicate acknowledgement.  The
\* first unit becomes unsent; with others in flight behind it, it counts as one
\* of them whether tcp_output finds a way for it or not.
tcp_rexmit ==
    /\ Room /\ pcb.state \in Active /\ pcb.rtime /\ InFlight(pcb)
    /\ pcb.state # "SYN_RCVD" => pcb.lastack <= client.rcv
    /\ Outputs({[Server EXCEPT !.pcb.nrtx = Min({@ + 1, TCP_MAXRTX}),
                               !.pcb.idle = IF pcb.rxclosed THEN @ ELSE 0,
                               !.pcb.probe = 0,
                               !.pcb.unsent = IF @ = pcb.lastack + 1 THEN pcb.lastack ELSE @]})
    /\ UNCHANGED client

\* The handshake ends: http_accept, which needs an http_state.
http_accept ==
    /\ Room /\ pcb.state = "SYN_RCVD"
    /\ LET s == [Server EXCEPT !.pcb.state = "ESTABLISHED"]
           accepted == [s EXCEPT !.hs = [NoState EXCEPT !.used = TRUE], !.pcb.cb = TRUE]
           segs == {seg \in Segments : Acks(pcb, seg)}
       IN  \/ segs # {} /\ Return([tcp_abort(s) EXCEPT !.why = @ \cup {"no memory"}])
           \/ Outputs(Inputs(accepted, segs))
    /\ UNCHANGED client

Segment ==
    /\ Room /\ pcb.state \in Active \ {"SYN_RCVD"}
    /\ Outputs(Inputs(Server, Segments))
    /\ UNCHANGED client

\* tcp_timewait_input: a FIN again starts the wait again.
tcp_timewait_input ==
    /\ Room /\ pcb.state = "TIME_WAIT" /\ client.fin
    /\ pcb' = [pcb EXCEPT !.idle = 0]
    /\ UNCHANGED <<hs, pool, wire, why, client>>

\* Nobody's segment: the listening pcb answers with a RST.
Orphan ==
    /\ Room /\ pcb.state = "CLOSED" /\ Segments # {}
    /\ wire' = [wire EXCEPT !.rst = TRUE]
    /\ UNCHANGED <<pcb, hs, pool, why, client>>

\* A RST counts when it is exactly the next unit.
Rst ==
    /\ Room /\ pcb.state \in Active /\ client.rcv > 0
    /\ pcb.rcv_nxt = client.snd + (IF client.fin THEN 1 ELSE 0)
    /\ Return(Removed(Server, {"client reset"}))
    /\ UNCHANGED client

\* tcp_fasttmr tries again to close.
Reclosed(mem) == tcp_close_shutdown_fin([Server EXCEPT !.pcb.closepend = FALSE], mem)
tcp_fasttmr(M) ==
    /\ pcb.closepend
    /\ Outputs({Reclosed(mem) : mem \in M})
    /\ UNCHANGED client

\* tcp_slowtmr, its parts: the retransmission timer, ...
Retransmit(p) ==
    IF InFlight(p) \/ Pending(p)
    THEN [p EXCEPT !.unsent = p.lastack, !.nrtx = Min({@ + 1, TCP_MAXRTX})]
    ELSE p
\* ... a probe of a closed window, which carries the next unit (n = 1), or only a
\* part of it, or nothing, and counts anyway, ...
tcp_zero_window_probe(s, n) ==
    IF ~Pending(s.pcb) THEN s
    ELSE [Carried(s, s.pcb.unsent + n) EXCEPT !.pcb.probe = Min({@ + 1, TCP_MAXRTX})]
\* ... what one of the two timers does when it runs out (a window that is not
\* closed gets the part of the first segment that fits: tcp_output), ...
Expired(s) ==
    CASE s.pcb.persist /\ ~s.pcb.wnd -> {tcp_zero_window_probe(s, n) : n \in 0..1}
      [] s.pcb.persist /\ s.pcb.wnd -> {s}
      [] OTHER -> {[s EXCEPT !.pcb = Retransmit(@)]}
\* ... the conditions for giving the connection up, ...
TimedOut(p) ==
    /\ \/ p.state = "FIN_WAIT_2" /\ p.rxclosed
       \/ p.state \in {"SYN_RCVD", "LAST_ACK", "TIME_WAIT"}
    /\ p.idle > TCP_TIMEOUT
\* ... and the poll callback; a closed connection has none and interval 0.
PollDue(p) == ~p.cb \/ p.polltmr + 1 >= HTTPD_POLL_INTERVAL
Polled(s, mem) ==
    IF ~PollDue(s.pcb) THEN [s EXCEPT !.pcb.polltmr = @ + 1]
    ELSE LET t == [s EXCEPT !.pcb.polltmr = 0]
         IN  IF t.pcb.cb THEN http_poll(t, mem) ELSE t

Lost(p) == p.nrtx >= TCP_MAXRTX \/ (p.persist /\ p.probe >= TCP_MAXRTX)

tcp_slowtmr(M, expired) ==
    /\ pcb.state # "CLOSED"
    /\ LET ticked == [Server EXCEPT !.pcb.idle = Min({@ + 1, TCP_TIMEOUT + 1})]
           lost == Lost(pcb) \/ TimedOut(ticked.pcb)
           due == expired /\ (pcb.rtime \/ pcb.persist)
           S == IF due /\ ~Lost(pcb) THEN Expired(ticked) ELSE {ticked}
           output == PollDue(pcb) \/ (due /\ (pcb.wnd \/ ~pcb.persist))
       IN  \E s \in S :
             CASE lost -> Return(Removed(s, {"lost"}))
               [] ~lost /\ output -> Outputs({Polled(s, mem) : mem \in M})
               [] OTHER -> Return(Polled(s, 0))
    /\ UNCHANGED client

\* tcp_alloc, when other connections have used all pcbs up: the close that
\* waits is tried, then the oldest TIME-WAIT, LAST-ACK or CLOSING is taken.
tcp_alloc ==
    /\ \/ pcb.closepend /\ Outputs({Reclosed(mem) : mem \in Mem})
       \/ /\ pcb.state \in {"TIME_WAIT", "LAST_ACK", "CLOSING"}
          /\ Return(Removed(Server, {"lost"}))
    /\ UNCHANGED client

-----------------------------------------------------------------------------
(* The client's steps.                                                     *)

ClientReceives ==
    /\ client.rcv < wire.top
    /\ client' = [client EXCEPT !.rcv = @ + 1]
    /\ UNCHANGED <<pcb, hs, pool, wire, why>>

ClientSends ==
    /\ client.rcv > 0 /\ ~client.fin /\ client.snd <= MaxSend
    /\ client' = [client EXCEPT !.snd = @ + 1]
    /\ UNCHANGED <<pcb, hs, pool, wire, why>>

ClientCloses ==
    /\ client.rcv > 0 /\ ~client.fin
    /\ client' = [client EXCEPT !.fin = TRUE]
    /\ UNCHANGED <<pcb, hs, pool, wire, why>>

\* The next client, from another port; this one's segments are no more.
NextClient ==
    /\ pcb.state = "CLOSED" /\ why # {"listening"}
    /\ wire' = Silent /\ why' = {"listening"} /\ client' \in Clients
    /\ UNCHANGED <<pcb, hs, pool>>

Next ==
    \/ Syn \/ tcp_rexmit \/ http_accept \/ Segment \/ tcp_timewait_input \/ Orphan \/ Rst
    \/ NullPbuf
    \/ tcp_fasttmr(Mem) \/ tcp_alloc \/ \E expired \in BOOLEAN : tcp_slowtmr(Mem, expired)
    \/ ClientReceives \/ ClientSends \/ ClientCloses \/ NextClient

\* The super-loop calls tcp_tmr for ever, the timers of a connection run out, and
\* memory, to close or to send a segment, is there again and again.  Of a window
\* that is not closed nothing more is needed to send a part of the first segment,
\* at the latest when the persist timer has run out and split it.  Nothing is
\* assumed of the client.
Plenty == {TCP_SND_BUF}
Sends == pcb'.state \in Active /\ pcb'.wnd /\ Pending(pcb') => InFlight(pcb')
Fairness ==
    /\ WF_vars(tcp_fasttmr(Plenty))
    /\ WF_vars(tcp_slowtmr(Plenty, TRUE))
    /\ WF_vars(tcp_slowtmr(Plenty, TRUE) /\ Sends)

Spec == Init /\ [][Next]_vars /\ Fairness

-----------------------------------------------------------------------------
(* Properties.                                                             *)

Causes == {"listening", "done", "no file", "refused", "client closed", "gave up",
           "no memory", "client reset", "lost"}

\* The queues are in order within what was written, the send buffer and the
\* queue for the request keep their limits, and every counter stays within its
\* bound (tcp_write, tcp_free_acked_segments, http_parse_request, http_poll).
TypeOK ==
    /\ pcb.state \in Active \cup {"CLOSED", "TIME_WAIT"}
    /\ 0 <= pcb.lastack /\ pcb.lastack <= pcb.unsent /\ pcb.unsent <= pcb.snd_lbb
    /\ pcb.state # "CLOSED" => pcb.unsent <= wire.top
    /\ pcb.state \in Active => Queued(pcb) \in 0..TCP_SND_BUF
    /\ pcb.nrtx \in 0..TCP_MAXRTX /\ pcb.probe \in 0..TCP_MAXRTX /\ pcb.idle \in 0..(TCP_TIMEOUT + 1)
    /\ hs.retries \in 0..(HTTPD_MAX_RETRIES - 1) /\ hs.left \in Nat
    /\ hs.req \in 0..LWIP_HTTPD_REQ_QUEUELEN /\ pool \in Nat
    /\ why \subseteq Causes /\ client.rcv <= wire.top

\* An http_state is in use exactly while the callbacks of a connection refer to
\* it, on every way a connection can end: the peer's RST or FIN, the last unit
\* written, retries and retransmissions used up, a refused request.  It is
\* neither leaked nor used after http_state_free.
HsOwned ==
    /\ hs.used = pcb.cb
    /\ pcb.cb => pcb.state = "ESTABLISHED" /\ ~pcb.rxclosed
    /\ ~hs.used => hs = NoState

\* A client that sees an orderly end (FIN) has the whole file, no more and no
\* less, unless the server gave the connection up (http_poll), refused the
\* request, or saw the client close first (http_recv).
EndMeansWhole ==
    wire.fin /\ client.rcv = wire.top /\ why \cap {"gave up", "refused", "client closed"} = {}
        => client.ask # Bad /\ client.rcv = client.ask + 2

\* A client that sends its request and nothing more, and does not close first,
\* is never reset, unless the request was refused, there was no memory for it, or
\* the server gave up or forgot the connection: tcp_close finds all data taken,
\* and nothing arrives after it (tcp_close_shutdown, tcp_input).
ResetExplained ==
    wire.rst =>
        \/ client.fin \/ client.snd > ReqLen + 1
        \/ why \cap {"refused", "no memory", "gave up", "lost", "client reset"} # {}

\* Every pbuf with client data is freed or kept as part of the request, except
\* where http_sent ends the connection in the step that received it: then
\* tcp_input forgets recv_data (tcp_in.c:475, 565).  Only a restart finds it.
PbufsReturned ==
    [][\/ pool' - hs'.req = pool - hs.req
       \/ hs.handle /\ "done" \in why' \ why /\ pcb'.state = "CLOSED"
       \/ pool' = 0 /\ why' = {"listening"}]_vars

\* Whatever the client does or fails to do, its http_state is released, and its
\* connection leaves the list of active ones; there is one exception.  A client that
\* closes its window and answers the probes, again and again, keeps a pcb for ever:
\* each answer sets persist_probe back (tcp_in.c:848), so that tcp_slowtmr never
\* counts TCP_MAXRTX of them, and FIN-WAIT-1 has no other end.
Answered == pcb.persist /\ ~pcb.wnd /\ pcb.probe = 0
ConnectionEnds ==
    /\ []<>(~hs.used)
    /\ []<>(pcb.state \notin Active) \/ []<>Answered
=============================================================================
