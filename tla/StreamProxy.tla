---------------------------- MODULE StreamProxy ----------------------------
(***************************************************************************)
(* One session of the stream proxy (src/stream/ngx_stream_proxy_module.c)  *)
(* with the write filter below it: the name is resolved, servers are tried *)
(* in turn, the connection may be a TLS one and begin with a PROXY         *)
(* protocol header, and then the two directions are relayed until one side *)
(* ends.  The client may send before the server is connected.              *)
(*                                                                         *)
(* Read events are edge-triggered: a `ready` flag is set by an event and   *)
(* cleared by a recv() that finds less than it asked for.  A handler runs to its end      *)
(* before another one starts, in the steps of s.call; the network moves    *)
(* between the steps.  Bytes are numbered by their sender; 0 is the        *)
(* PROXY header.  UDP datagrams are one byte long and never empty.         *)
(***************************************************************************)
EXTENDS Integers, Sequences, SequencesExt, FiniteSets, FiniteSetsExt

CONSTANTS Udp,         \* the listening socket is a datagram socket
          Resolve,     \* the server's name is resolved per session
          Ssl,         \* proxy_ssl
          Header,      \* proxy_protocol
          Preread,     \* bytes the preread phase left in c->buffer
          MaxC, MaxP,  \* bytes the client and the servers send
          Buf,         \* proxy_buffer_size
          Up, Down,    \* proxy_upload_rate and proxy_download_rate, 0 for none
          Responses,   \* proxy_responses; Unlimited is NGX_MAX_INT32_VALUE
          Tries,       \* proxy_next_upstream_tries, at most the number of servers
          Connects,    \* the results ngx_event_connect_peer() may have
          SendFails,   \* send() may fail
          MaxTime      \* seconds that may pass

VARIABLE s

Unlimited == 9

Side == [ready |-> FALSE, eof |-> FALSE, delayed |-> FALSE, rtimer |-> FALSE, wtimer |-> FALSE,
         wready |-> TRUE, rdhup |-> FALSE,
         sent |-> 0, closed |-> FALSE]          \* what its owner sent, and whether it closed
Way == [out |-> <<>>, flt |-> <<>>, last |-> 0, got |-> <<>>, received |-> 0]

SideOf(from) == IF from = "up" THEN "p" ELSE "c"
Other(side) == IF side = "c" THEN "p" ELSE "c"

\* The session starts with ngx_stream_proxy_handler().
Start ==
    [c |-> [Side EXCEPT !.sent = Preread, !.ready = ~Udp], p |-> Side,
     toP |-> [Way EXCEPT !.received = Preread], toC |-> Way,
     phase |-> IF Resolve THEN "resolving" ELSE "connect", connected |-> FALSE, proxy |-> Header,
     ssl |-> FALSE, tries |-> Tries, attempts |-> 0, held |-> FALSE, responses |-> 0,
     posted |-> IF Udp THEN {} ELSE {"cr"}, events |-> {},
     call |-> IF Resolve THEN "" ELSE "connect", from |-> "", write |-> FALSE,
     now |-> 0, late |-> FALSE, exiting |-> FALSE, pending |-> FALSE, rc |-> "", why |-> ""]

-----------------------------------------------------------------------------
(* The end of a session and of an attempt. *)

\* ngx_stream_proxy_finalize().
ngx_stream_proxy_finalize(x, rc) ==
    [x EXCEPT !.rc = rc, !.phase = "done", !.call = "", !.events = {}, !.posted = {}, !.held = FALSE]

\* ngx_stream_proxy_next_upstream().  peer.free() with NGX_PEER_FAILED takes one try.
ngx_stream_proxy_next_upstream(x) ==
    IF x.toP.out # <<>> \/ x.toP.flt # <<>>
    THEN ngx_stream_proxy_finalize([x EXCEPT !.pending = TRUE], "500")
    ELSE LET y == IF x.held THEN [x EXCEPT !.held = FALSE, !.tries = @ - 1] ELSE x
         IN IF y.tries = 0 \/ y.late THEN ngx_stream_proxy_finalize(y, "502")
            ELSE [y EXCEPT !.call = "connect", !.phase = "connect", !.p = Side,
                           !.toC = [Way EXCEPT !.received = y.toC.received], !.toP.got = <<>>,
                           !.ssl = FALSE, !.events = @ \ {"pr", "pw"},
                           !.posted = @ \ {"pr"}]

-----------------------------------------------------------------------------
(* Connecting. *)

\* ngx_stream_proxy_resolve_handler().
ngx_stream_proxy_resolve_handler(x, ok) ==
    IF ~ok THEN ngx_stream_proxy_finalize(x, "500")
    ELSE [x EXCEPT !.phase = "connect", !.call = "connect"]

\* ngx_stream_proxy_connect() with the result rc of ngx_event_connect_peer().
ngx_stream_proxy_connect(x, rc) ==
    LET y == [x EXCEPT !.connected = FALSE, !.proxy = Header, !.attempts = @ + 1,
                       !.held = rc # "busy"]
    IN CASE rc = "error"    -> ngx_stream_proxy_finalize(y, "500")
         [] rc = "busy"     -> ngx_stream_proxy_finalize(y, "502")
         [] rc = "declined" -> [y EXCEPT !.call = "next"]
         [] rc = "ok"       -> [y EXCEPT !.call = "init"]
         [] rc = "again"    -> [y EXCEPT !.phase = "connecting", !.p.wtimer = TRUE, !.call = ""]

\* ngx_stream_proxy_connect_handler(): a timeout, or the result of the connect().
ngx_stream_proxy_connect_handler(x, rc) ==
    LET y == [x EXCEPT !.p.wtimer = FALSE]
    IN IF rc = "ok" THEN [y EXCEPT !.call = "init"] ELSE [y EXCEPT !.call = "next"]

\* ngx_stream_proxy_send_proxy_protocol(), before the handshake.
ngx_stream_proxy_send_proxy_protocol(x, rc) ==
    CASE rc = "ok"    -> [x EXCEPT !.proxy = FALSE, !.toP.got = Append(@, 0)]
      [] rc = "again" -> [x EXCEPT !.phase = "connecting", !.p.wtimer = TRUE, !.call = ""]
      [] rc = "error" -> ngx_stream_proxy_finalize(x, "ok")
      [] rc = "part"  -> ngx_stream_proxy_finalize(x, "500")

\* ngx_stream_proxy_ssl_init_connection().
ngx_stream_proxy_ssl_init_connection(x) ==
    [x EXCEPT !.ssl = TRUE, !.phase = "handshake", !.p.wtimer = TRUE, !.call = ""]

\* ngx_stream_proxy_ssl_handshake(), with the verification of the certificate.
ngx_stream_proxy_ssl_handshake(x, ok) ==
    IF ok THEN [x EXCEPT !.p.wtimer = FALSE, !.call = "init"] ELSE [x EXCEPT !.call = "next"]

\* What the server gets before the bytes read from the client.
First(x) ==
    (IF x.proxy THEN <<0>> ELSE <<>>) \o (IF Udp THEN <<1>> ELSE [k \in 1..Preread |-> k])

\* The end of ngx_stream_proxy_init_upstream().
Connected(x) ==
    LET y == [x EXCEPT !.toP.out = First(x) \o @, !.proxy = FALSE, !.connected = TRUE,
                       !.phase = "connected",
                       !.p.eof = Udp /\ Responses = 0]
    IN [y EXCEPT !.posted = IF y.p.ready \/ y.p.eof THEN @ \cup {"pr"} ELSE @,
                 !.call = "process", !.from = "down", !.write = TRUE]

\* ngx_stream_proxy_init_upstream(); rc is the result of sending the PROXY header.
ngx_stream_proxy_init_upstream(x, rc) ==
    IF Ssl /\ x.proxy
    THEN LET y == ngx_stream_proxy_send_proxy_protocol(x, rc)
         IN IF rc # "ok" THEN y
            ELSE IF ~y.ssl THEN ngx_stream_proxy_ssl_init_connection(y) ELSE Connected(y)
    ELSE IF Ssl /\ ~x.ssl THEN ngx_stream_proxy_ssl_init_connection(x)
    ELSE Connected(x)

-----------------------------------------------------------------------------
(* Relaying. *)

WayOf(x, from) == IF from = "up" THEN x.toC ELSE x.toP
SetWay(x, from, w) == IF from = "up" THEN [x EXCEPT !.toC = w] ELSE [x EXCEPT !.toP = w]

Rate(from) == IF from = "up" THEN Down ELSE Up

\* ngx_stream_write_filter() and ngx_chain_update_chains(): the saved chain and the new
\* one are sent, k bytes are taken; the buffer is rewound when nothing of it is left.
ngx_stream_write_filter(w, k) ==
    LET all == w.flt \o w.out
    IN [w EXCEPT !.out = <<>>, !.flt = SubSeq(all, k + 1, Len(all)),
                 !.got = @ \o SubSeq(all, 1, k), !.last = IF k = Len(all) THEN 0 ELSE @]

\* The bytes of `from` that have not been read.
Waiting(x, from) == x[SideOf(from)].sent - WayOf(x, from).received

\* How much the rate allows now.
Limit(x, from) == IF Rate(from) = 0 THEN Buf
                  ELSE Max({0, Rate(from) * (x.now + 1) - WayOf(x, from).received})

\* The room of the buffer a direction reads into; there is none for UDP clients.
Room(x, from) == IF Udp THEN IF from = "up" THEN Buf - x.toC.last ELSE 0
                 ELSE Buf - WayOf(x, from).last

\* Reading n bytes of at most `size`; n = 0 is the end.
Received(x, from, n, size) ==
    LET d == SideOf(from)
        w == WayOf(x, from)
        r == w.received
        y == SetWay(x, from, [w EXCEPT !.out = @ \o [k \in 1..n |-> r + k], !.last = @ + n,
                                       !.received = @ + n])
        lim == Rate(from) > 0 /\ n > 0
        count == Udp /\ x.responses + 1 = Responses
    IN [y EXCEPT ![d].eof = @ \/ n = 0 \/ count, ![d].ready = @ /\ n > 0 /\ ~count /\ (Udp \/ n = size \/ x[d].rdhup),
                 ![d].delayed = @ \/ lim, ![d].rtimer = @ \/ lim,
                 !.responses = IF Udp THEN @ + 1 ELSE @, !.write = TRUE]

\* A mutant: the end of one side ends the session although its bytes still wait.
ReadyToEndAtOnce(x, from) == x[SideOf(from)].eof /\ x.connected

\* Is the session over, seen from the direction just handled?
ReadyToEnd(x, from) ==
    /\ x[SideOf(from)].eof
    /\ x.connected
    /\ x[Other(SideOf(from))].eof \/ WayOf(x, from).flt = <<>>

\* The end of ngx_stream_proxy_process().
AfterLoop(x, from) ==
    IF ReadyToEnd(x, from)
    THEN ngx_stream_proxy_finalize([x EXCEPT !.why = from], "ok")
    ELSE IF x.connected
    THEN [x EXCEPT !.c.wtimer = ~x.c.delayed /\ ~x.p.delayed, !.call = ""]
    ELSE [x EXCEPT !.call = ""]

\* The loop of ngx_stream_proxy_process(): what is there is written, k bytes of it, ...
Writes(x, from, k) ==
    LET y == SetWay(x, from, ngx_stream_write_filter(WayOf(x, from), k))
        all == Len(WayOf(x, from).flt) + Len(WayOf(x, from).out)
    IN IF k < all /\ Udp /\ from = "up" THEN ngx_stream_proxy_finalize(y, "ok")   \* shared, busy
       ELSE [y EXCEPT ![Other(SideOf(from))].wready = k = all, !.call = "read"]

WriteFails(x, from) ==
    IF Udp /\ from = "down" THEN [x EXCEPT !.call = "next"] ELSE ngx_stream_proxy_finalize(x, "ok")

\* ... and what has arrived is read.
Reads(x, from, failed) ==
    LET d == SideOf(from)
        size == Min({Room(x, from), Limit(x, from)})
        n == IF Udp THEN Min({1, Waiting(x, from)}) ELSE Min({size, Waiting(x, from)})
    IN IF Room(x, from) = 0 \/ ~x[d].ready \/ x[d].delayed THEN AfterLoop(x, from)
       ELSE IF size = 0 THEN AfterLoop([x EXCEPT ![d].delayed = TRUE, ![d].rtimer = TRUE], from)
       ELSE IF failed /\ Udp /\ x.toC.received = 0 THEN [x EXCEPT !.call = "next"]
       ELSE IF failed THEN [Received(x, from, 0, size) EXCEPT !.call = "process"]
       ELSE IF n = 0 /\ ~x[d].closed THEN AfterLoop([x EXCEPT ![d].ready = FALSE], from)
       ELSE [Received(x, from, n, size) EXCEPT !.call = "process"]

\* ngx_stream_proxy_process() is entered.
Process(x, from, write) ==
    IF Udp /\ x.exiting THEN ngx_stream_proxy_finalize(x, "ok")
    ELSE [x EXCEPT !.call = "process", !.from = from, !.write = write]

\* ngx_stream_proxy_process_connection() with a timeout.
TimedOut(x, e) ==
    LET d == IF e \in {"cr", "cw"} THEN "c" ELSE "p"
        from == IF d = "p" THEN "up" ELSE "down"
    IN IF e \in {"cr", "pr"}
       THEN LET y == [x EXCEPT ![d].delayed = FALSE, ![d].rtimer = FALSE]
            IN IF ~y[d].ready
               THEN IF y.connected /\ ~y.c.delayed /\ ~y.p.delayed
                    THEN [y EXCEPT !.c.wtimer = TRUE] ELSE y
               ELSE IF d = "p" /\ ~y.connected THEN y ELSE Process(y, from, FALSE)
       ELSE LET y == [x EXCEPT !.c.wtimer = FALSE]
            IN IF Udp /\ Responses = Unlimited
               THEN Process([y EXCEPT !.p.ready = FALSE, !.p.eof = TRUE], "up", FALSE)
               ELSE IF Udp /\ y.toC.received = 0 THEN [y EXCEPT !.call = "next"]
               ELSE ngx_stream_proxy_finalize(y, "ok")

\* ngx_stream_proxy_process_connection() with an event.
ngx_stream_proxy_process_connection(x, e) ==
    CASE e = "cr" -> IF x.c.delayed THEN x ELSE Process(x, "down", FALSE)
      [] e = "cw" -> IF x.connected THEN Process(x, "up", TRUE) ELSE x
      [] e = "pr" -> IF x.p.delayed \/ ~x.connected THEN x ELSE Process(x, "up", FALSE)
      [] e = "pw" -> Process(x, "down", TRUE)

-----------------------------------------------------------------------------

Init == s = Start

Running == s.rc = ""
Idle == Running /\ s.call = ""

\* The steps of a handler.
Connect == /\ Running /\ s.call = "connect"
           /\ \E rc \in Connects : s' = ngx_stream_proxy_connect(s, rc)
InitUpstream ==
    /\ Running /\ s.call = "init"
    /\ \E rc \in {"ok", "again", "error", "part"} :
         /\ ~(Ssl /\ s.proxy) => rc = "ok"
         /\ s' = ngx_stream_proxy_init_upstream(s, rc)
NextUpstream == Running /\ s.call = "next" /\ s' = ngx_stream_proxy_next_upstream(s)

ProcessWrites ==
    /\ Running /\ s.call = "process"
    /\ LET w == WayOf(s, s.from)
           d == Other(SideOf(s.from))
           all == Len(w.flt) + Len(w.out)
       IN IF s.write /\ s.connected /\ all > 0
          THEN \/ \E k \in 0..all : /\ ~s[d].wready => k = 0
                                    /\ s' = Writes(s, s.from, k)
               \/ SendFails /\ s[d].wready /\ s' = WriteFails(s, s.from)
          ELSE s' = [s EXCEPT !.call = "read"]
ProcessReads ==
    /\ Running /\ s.call = "read"
    /\ \E failed \in IF SendFails THEN BOOLEAN ELSE {FALSE} : s' = Reads(s, s.from, failed)

\* The events.
Resolved == Idle /\ s.posted = {} /\ s.phase = "resolving"
            /\ \E ok \in BOOLEAN : s' = ngx_stream_proxy_resolve_handler(s, ok)
ConnectDone == Idle /\ s.posted = {} /\ s.phase = "connecting"
               /\ \E rc \in {"ok", "failed", "timedout"} : s' = ngx_stream_proxy_connect_handler(s, rc)
HandshakeDone == Idle /\ s.posted = {} /\ s.phase = "handshake"
                 /\ \E ok \in BOOLEAN : s' = ngx_stream_proxy_ssl_handshake(s, ok)
\* Posted events are handled before the kernel is asked for more.
Posted == /\ Idle
          /\ \E e \in s.posted :
               s' = ngx_stream_proxy_process_connection([s EXCEPT !.posted = @ \ {e}], e)
Occurred(x, e) == CASE e = "cr" -> [x EXCEPT !.c.ready = TRUE, !.c.rdhup = x.c.closed]
                    [] e = "pr" -> [x EXCEPT !.p.ready = TRUE, !.p.rdhup = x.p.closed]
                    [] e = "cw" -> [x EXCEPT !.c.wready = TRUE]
                    [] e = "pw" -> [x EXCEPT !.p.wready = TRUE]
Event == /\ Idle /\ s.posted = {}
         /\ \E e \in s.events :
              s' = ngx_stream_proxy_process_connection(Occurred([s EXCEPT !.events = @ \ {e}], e), e)
Timeout ==
    /\ Idle /\ s.posted = {}
    /\ \E e \in {"cr", "cw", "pr"} :
         /\ CASE e = "cr" -> s.c.rtimer [] e = "cw" -> s.c.wtimer [] e = "pr" -> s.p.rtimer
         /\ s' = TimedOut(s, e)

\* The client and the server.  An event follows what they do.
ClientSends == /\ Running /\ ~Udp /\ ~s.c.closed /\ s.c.sent < Preread + MaxC
               /\ s' = [s EXCEPT !.c.sent = @ + 1, !.events = @ \cup {"cr"}]
ClientCloses == /\ Running /\ ~Udp /\ ~s.c.closed
                /\ s' = [s EXCEPT !.c.closed = TRUE, !.events = @ \cup {"cr"}]
ServerSends == /\ Running /\ s.phase = "connected" /\ ~s.p.closed /\ s.p.sent < MaxP
               /\ ~(Udp /\ Responses = 0)
               /\ s' = [s EXCEPT !.p.sent = @ + 1, !.events = @ \cup {"pr"}]
ServerCloses == /\ Running /\ ~Udp /\ s.phase = "connected" /\ ~s.p.closed
                /\ s' = [s EXCEPT !.p.closed = TRUE, !.events = @ \cup {"pr"}]
Writable == /\ Running /\ s.phase = "connected"
            /\ \E d \in {"c", "p"} :
                 /\ ~s[d].wready
                 /\ s' = [s EXCEPT !.events = @ \cup {IF d = "c" THEN "cw" ELSE "pw"}]
Second == Idle /\ s.now < MaxTime /\ s' = [s EXCEPT !.now = @ + 1]
Late == Idle /\ ~s.late /\ ~s.connected /\ s' = [s EXCEPT !.late = TRUE]
Exit == Idle /\ Udp /\ ~s.exiting /\ s' = [s EXCEPT !.exiting = TRUE]

Next == \/ Connect \/ InitUpstream \/ NextUpstream \/ ProcessWrites \/ ProcessReads
        \/ Resolved \/ ConnectDone \/ HandshakeDone \/ Posted \/ Event \/ Timeout
        \/ ClientSends \/ ClientCloses \/ ServerSends \/ ServerCloses \/ Writable
        \/ Second \/ Late \/ Exit

Spec == Init /\ [][Next]_s

-----------------------------------------------------------------------------

\* Every server gets the PROXY header exactly once and first, then what the client sent
\* from its first byte on, in order, whatever arrived before the connection and however
\* often a socket was not writable.
UpInOrder ==
    LET head == IF Header THEN <<0>> ELSE <<>>
        bytes == IF Udp THEN <<1>> ELSE [k \in 1..s.c.sent |-> k]
    IN IsPrefix(s.toP.got, head \o bytes)

\* The client gets what the server sent, in order.
DownInOrder == IsPrefix(s.toC.got, [k \in 1..s.p.sent |-> k])

\* A session that ends because one side closed has first passed on everything that side
\* sent, unless the other side has closed too.
EofDelivers ==
    s.rc = "ok" /\ s.why # "" /\ ~Udp /\ ~SendFails =>
        LET d == SideOf(s.why)
        IN ~s[Other(d)].eof =>
             IF s.why = "up" THEN Len(s.toC.got) = s.p.sent
             ELSE Len(s.toP.got) = s.c.sent + IF Header THEN 1 ELSE 0

\* When no event is to be handled, no rate holds a side back and the sockets are writable,
\* everything sent has been passed on: no read event is lost between the connection, the
\* full buffer and the delays.
NotStalled ==
    Idle /\ s.connected /\ s.events = {} /\ s.posted = {} /\ s.c.wready /\ s.p.wready
        /\ ~s.c.delayed /\ ~s.p.delayed
    => /\ Len(s.toC.got) = s.p.sent
       /\ Udp \/ Len(s.toP.got) = s.c.sent + IF Header THEN 1 ELSE 0
       /\ ~s.c.closed /\ ~s.p.closed

\* A session that waits has a timer, or the resolver's, that will end the wait.
TimerSet ==
    Idle => \/ s.phase = "resolving" \/ s.p.wtimer
            \/ s.c.wtimer \/ s.c.rtimer \/ s.p.rtimer \/ s.posted # {}

\* A server taken from the balancer is given back, and never more are tried than
\* proxy_next_upstream_tries allows.
Released == (s.rc # "" => ~s.held) /\ s.attempts <= Tries

\* proxy_upload_rate and proxy_download_rate: in n seconds no more than n + 1 times the
\* rate is read.
RateKept ==
    /\ Up > 0 => s.toP.received - Preread <= Up * (s.now + 1)
    /\ Down > 0 => s.toC.received <= Down * (s.now + 1)

\* The client of a UDP service gets no more responses than proxy_responses.
ResponsesKept == Udp => Len(s.toC.got) <= Responses

=============================================================================
