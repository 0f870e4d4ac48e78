-------------------------- MODULE UpstreamRequest ---------------------------
(***************************************************************************)
(* A request passed to an upstream server: sending it and the retries up   *)
(* to the header of a response, and how the response then passes to the    *)
(* client, as it comes (the unbuffered ways) or through the buffers and    *)
(* files of the event pipe.                                                *)
(***************************************************************************)
EXTENDS Integers, Sequences, SequencesExt, FiniteSets

(* One request passed to an upstream (ngx_http_upstream.c): resolving,     *)
(* connecting, the SSL handshake, sending the request with a buffered or   *)
(* an unbuffered body, reading the response header, and the move to the    *)
(* next server after an error, a timeout or a bad answer.  The handlers    *)
(* call each other; s.call is a call still to be made within the event     *)
(* that is being handled, and no other event comes before it.              *)

CONSTANTS Confs,        (* records of configuration, see MCUpstreams *)
          RequestBody,         (* pieces of the request body *)
          Answer        (* pieces of the response after its header *)

VARIABLE u

(* The request in pieces: 0 is its header.                                 *)
Pieces == [i \in 1..(RequestBody + 1) |-> i - 1]

(* Of an unbuffered body a piece may have come with the request header.    *)
RequestInit == \E c \in Confs : \E h \in 0..1 :
           u = [conf |-> c, call |-> "init_request", timers |-> {}, tries |-> 0,
                conn |-> "none", ssl |-> FALSE, wready |-> FALSE, rready |-> FALSE,
                request_sent |-> FALSE, request_body_sent |-> FALSE, header_sent |-> FALSE,
                write_event_handler |-> "send", read_event_handler |-> "header",
                client |-> IF c.nobuf THEN "none" ELSE "broken",  (* r->read_event_handler *)
                bufs |-> <<>>,         (* u->output and u->writer: what waits to be sent *)
                unread |-> IF c.nobuf THEN RequestBody - h ELSE 0,  (* of the body, r->reading_body *)
                held |-> IF c.nobuf THEN SubSeq(Pieces, 2, h + 1) ELSE <<>>,  (* r->request_body->bufs *)
                got |-> <<>>,          (* what the current server received *)
                sent_to |-> 0, headers |-> 0, ends |-> 0, left |-> Answer, status |-> 0]

Waiting == u.call = "" /\ u.ends = 0

Calling(f) == u.call = f /\ u.ends = 0

Call(t, f) == [t EXCEPT !.call = f]

Set(t, x) == [t EXCEPT !.timers = @ \cup {x}]

Del(t, x) == [t EXCEPT !.timers = @ \ {x}]

-----------------------------------------------------------------------------

(* The end of an attempt and of the request.                               *)

Close(t) == [t EXCEPT !.conn = "none", !.ssl = FALSE, !.wready = FALSE, !.rready = FALSE,
                      !.timers = @ \ {"write", "read"}]

ngx_http_upstream_finalize_request(t, rc) ==
    [Close(t) EXCEPT !.call = "", !.ends = @ + 1, !.timers = {}, !.status = rc]

(* The failures the configuration sends on, with the requests that may be  *)
(* repeated.                                                               *)
NextRepeats(t, ft) ==
    IF t.tries = 0 \/ ~({ft} \subseteq t.conf.next_upstream)
    THEN ngx_http_upstream_finalize_request(t, 502)
    ELSE Call(Close(t), "connect")

ngx_http_upstream_next(t, ft) ==
    LET types == {ft} \cup IF t.request_sent /\ t.conf.post THEN {"non_idempotent"} ELSE {}
    IN IF t.tries = 0 \/ ~(types \subseteq t.conf.next_upstream) \/ (t.request_sent /\ t.conf.nobuf)
       THEN ngx_http_upstream_finalize_request(t, IF ft = "timeout" THEN 504 ELSE 502)
       ELSE Call(Close(t), "connect")

(* ngx_http_upstream_next() frees the peer first, which takes a try.       *)
Freed(t) == [t EXCEPT !.tries = IF @ = 0 THEN 0 ELSE @ - 1]

-----------------------------------------------------------------------------

(* The start.                                                              *)

(* An address or an upstream{} block is used at once; a name is resolved.  *)
ngx_http_upstream_init_request ==
    /\ Calling("init_request")
    /\ IF u.conf.resolve
       THEN u' = Set(Call(u, ""), "resolve")
       ELSE u' = [Call(u, "connect") EXCEPT !.tries = u.conf.tries]

ngx_http_upstream_resolve_handler ==
    /\ Waiting /\ "resolve" \in u.timers
    /\ \/ u' = ngx_http_upstream_finalize_request(u, 502)
       \/ u' = [Del(Call(u, "connect"), "resolve") EXCEPT !.tries = u.conf.tries]

(* A request that was sent before starts from its beginning.               *)
ngx_http_upstream_reinit(t) == [t EXCEPT !.got = <<>>, !.bufs = <<>>]

ngx_http_upstream_connect ==
    /\ Calling("connect")
    /\ \/ u' = ngx_http_upstream_finalize_request(u, 500)
       \/ u' = ngx_http_upstream_next(u, "nolive")
       \/ u' = ngx_http_upstream_next(Freed(u), "error")
       \/ \E rc \in {"ok", "again", "cached"} :
             LET r == IF u.request_sent THEN ngx_http_upstream_reinit(u) ELSE u
                 t == [r EXCEPT !.conn = IF rc = "again" THEN "connecting" ELSE "open",
                                !.ssl = (rc = "cached"), !.wready = (rc # "again"),
                                !.write_event_handler = "send",
                                !.read_event_handler = "header",
                                !.request_sent = FALSE, !.request_body_sent = FALSE]
             IN u' = IF rc = "again" THEN Set(Call(t, ""), "write")
                     ELSE IF u.conf.ssl /\ ~t.ssl THEN Call(t, "ssl_init_connection")
                     ELSE Call(t, "send_request")

(* The result of connect() is asked for before the first use.              *)
ngx_http_upstream_ssl_init_connection ==
    /\ Calling("ssl_init_connection")
    /\ \/ u' = ngx_http_upstream_next(Freed(u), "error")
       \/ u' = ngx_http_upstream_finalize_request(u, 500)
       \/ u' = [Set(Call(u, ""), "write") EXCEPT !.conn = "handshake"]
       \/ u' = Call(u, "ssl_handshake")

HandshakeEvent ==
    /\ Waiting /\ u.conn = "handshake"
    /\ u' = Call(u, "ssl_handshake")

(* The certificate is checked and the request sent; the timer of the       *)
(* handshake is still set.                                                 *)
ngx_http_upstream_ssl_handshake ==
    /\ Calling("ssl_handshake")
    /\ \/ u' = [Call(u, "send_request") EXCEPT !.ssl = TRUE, !.conn = "open", !.wready = TRUE]
       \/ u' = ngx_http_upstream_next(Freed(u), "error")
       \/ "write" \in u.timers /\ u' = ngx_http_upstream_next(Freed(u), "timeout")

-----------------------------------------------------------------------------

(* Sending the request.                                                    *)

(* ngx_output_chain(): any part of what waits is taken by the server.      *)
Output(t, n) ==
    [t EXCEPT !.got = @ \o SubSeq(t.bufs, 1, n), !.bufs = SubSeq(@, n + 1, Len(@)),
              !.wready = (n = Len(t.bufs)) /\ @]

(* ngx_http_read_unbuffered_request_body(): pieces come while none of the  *)
(* former ones is still waiting; the client's timer runs while the body    *)
(* is incomplete and not held up by the server.                            *)
ReadBody(t, n) ==
    IF t.bufs # <<>> THEN Del(t, "client")
    ELSE LET r == [t EXCEPT !.unread = @ - n,
                            !.bufs = SubSeq(Pieces, RequestBody + 2 - t.unread, RequestBody + 1 - t.unread + n)]
         IN IF r.unread = 0 THEN Del(r, "client") ELSE Set(r, "client")

(* What is sent at first: everything, or what was read of the body so far. *)
Begin(t) ==
    IF t.request_sent THEN t
    ELSE [t EXCEPT !.request_sent = TRUE, !.sent_to = @ + 1,
                   !.bufs = IF t.conf.nobuf THEN <<0>> \o t.held ELSE Pieces, !.held = <<>>,
                   !.client = IF t.conf.nobuf THEN "body" ELSE @]

(* The client is watched for a close once its body is complete.            *)
Watch(t) == IF t.conf.nobuf /\ t.unread = 0 THEN [t EXCEPT !.client = "broken"] ELSE t

(* The results of one round of ngx_http_upstream_send_request_body():      *)
(* n pieces are sent, m pieces read from the client, k of these sent.      *)
SendBody(t, write, n, m, k) ==
    LET b == Begin(t)
        o == IF write THEN Output(b, n) ELSE b
        r == IF o.unread > 0 THEN ReadBody(o, m) ELSE o
        w == IF o.unread > 0 /\ o.bufs = <<>> THEN Output(r, k) ELSE r
    IN Watch(IF w.unread > 0 /\ w.bufs # <<>> THEN Del(w, "client") ELSE w)

SendDone(t) == t.bufs = <<>> /\ t.unread = 0

RequestSent(t) ==
           LET d == Set([Del(t, "write") EXCEPT !.request_body_sent = TRUE,
                                                !.write_event_handler = "dummy"], "read")
           IN IF d.rready THEN Call(d, "process_header") ELSE Call(d, "")

(* Not all is sent: wait for the server, or for the client only.           *)
Blocked(t) == Call(IF t.wready THEN Del(t, "write") ELSE Set(t, "write"), "")

ngx_http_upstream_send_request(write) ==
    \/ ~u.request_sent /\ u' = ngx_http_upstream_next(Freed(u), "error")
    \/ u' = ngx_http_upstream_next(Freed([u EXCEPT !.request_sent = TRUE,
                                          !.sent_to = IF u.request_sent THEN @ ELSE @ + 1]), "error")
    \/ u.conf.nobuf /\ u.unread > 0 /\ u' = ngx_http_upstream_finalize_request(u, 400)
    \/ \E n \in 0..Len(Begin(u).bufs), m, k \in 0..u.unread :
          LET t == SendBody(u, write, n, m, k)
          IN /\ k <= m /\ (n + k > 0 => u.wready)
             /\ u' = IF SendDone(t) THEN RequestSent(t) ELSE Blocked(t)

SendRequest ==
    \/ Calling("send_request") /\ ngx_http_upstream_send_request(TRUE)
    \/ Calling("send_request_0") /\ ngx_http_upstream_send_request(FALSE)

-----------------------------------------------------------------------------

(* Events.                                                                 *)

(* The socket of the server can be written to.                             *)
ngx_http_upstream_send_request_handler ==
    /\ Waiting /\ u.conn \in {"connecting", "open"} /\ ~u.wready
    /\ u' = IF u.write_event_handler = "dummy" THEN [u EXCEPT !.wready = TRUE]
            ELSE IF u.conf.ssl /\ ~u.ssl
            THEN [Call(u, "ssl_init_connection") EXCEPT !.wready = TRUE]
            ELSE IF u.header_sent THEN [u EXCEPT !.wready = TRUE, !.write_event_handler = "dummy"]
            ELSE [Call(u, "send_request") EXCEPT !.wready = TRUE, !.conn = "open"]

(* A connect() that fails is an event for reading or for writing, and both *)
(* handlers ask for its result first.                                      *)
ngx_http_upstream_test_connect ==
    /\ Waiting /\ u.conn = "connecting"
    /\ u' = ngx_http_upstream_next(Freed(u), "error")

WriteTimeout ==
    /\ Waiting /\ "write" \in u.timers
    /\ u' = IF u.conn = "handshake" THEN Call(u, "ssl_handshake")
            ELSE IF u.write_event_handler = "dummy" THEN Del(u, "write")
            ELSE ngx_http_upstream_next(Freed(u), "timeout")

(* More of the body came, its timeout passed, or the client went away.     *)
ngx_http_upstream_read_request_handler ==
    /\ Waiting /\ u.client = "body" /\ u.unread > 0
    /\ \/ u' = Call(u, "send_request_0")
       \/ "client" \in u.timers /\ u' = ngx_http_upstream_finalize_request(u, 408)

ngx_http_upstream_check_broken_connection ==
    /\ Waiting /\ u.client = "broken"
    /\ u' = ngx_http_upstream_finalize_request(u, 499)

(* The server has sent something.                                          *)
RequestReadEvent ==
           /\ Waiting /\ u.conn = "open" /\ u.read_event_handler = "header"
           /\ u' = Call([u EXCEPT !.rready = TRUE], "process_header")

ReadTimeout ==
    /\ Waiting /\ "read" \in u.timers
    /\ u' = IF u.read_event_handler = "header" THEN ngx_http_upstream_next(Freed(u), "timeout")
            ELSE ngx_http_upstream_finalize_request(u, 502)

(* The end of the header: an answer that the configuration sends to the    *)
(* next server, one that is intercepted, or one that is passed on.         *)
ngx_http_upstream_test_next(t) ==
    IF t.tries > 1 /\ "http" \in t.conf.next_upstream
    THEN {ngx_http_upstream_next(Freed(t), "http")} ELSE {}

(* ngx_http_send_header() refuses a second header.                         *)
ngx_http_upstream_send_response(t) ==
    LET h == [t EXCEPT !.headers = @ + 1, !.header_sent = TRUE]
    IN IF t.header_sent THEN ngx_http_upstream_finalize_request(h, 500)
       ELSE [Set(Call(h, ""), "read") EXCEPT !.read_event_handler = "body"]

ngx_http_upstream_process_header ==
    /\ Calling("process_header")
    /\ \/ u' = [Call(u, "") EXCEPT !.rready = FALSE]
       \/ u' = ngx_http_upstream_next(Freed(u), "error")
       \/ u' = ngx_http_upstream_next(Freed(u), "invalid_header")
       \/ u' = ngx_http_upstream_finalize_request(u, 500)
       \/ u' \in ngx_http_upstream_test_next(u)
       \/ u' = ngx_http_upstream_finalize_request(u, 404)
       \/ \E more \in BOOLEAN :
             u' = [ngx_http_upstream_send_response(u) EXCEPT !.rready = more]

(* The body of the answer is passed on; what the client does not take is   *)
(* left in the socket, which then stays readable.                          *)
ngx_http_upstream_process_upstream_request ==
            /\ Waiting /\ u.read_event_handler = "body"
            /\ \/ u.left > 0 /\ \E more \in BOOLEAN :
                     u' = [u EXCEPT !.left = @ - 1, !.rready = more]
               \/ u' = ngx_http_upstream_finalize_request(u, 200)

RequestNext == \/ ngx_http_upstream_init_request \/ ngx_http_upstream_resolve_handler
               \/ ngx_http_upstream_connect \/ ngx_http_upstream_ssl_init_connection
               \/ HandshakeEvent \/ ngx_http_upstream_ssl_handshake \/ SendRequest
               \/ ngx_http_upstream_send_request_handler \/ WriteTimeout
               \/ ngx_http_upstream_test_connect
               \/ ngx_http_upstream_read_request_handler
               \/ ngx_http_upstream_check_broken_connection
               \/ RequestReadEvent \/ ReadTimeout \/ ngx_http_upstream_process_header
               \/ ngx_http_upstream_process_upstream_request

RequestSpec == RequestInit /\ [][RequestNext]_u

-----------------------------------------------------------------------------

(* Properties.                                                             *)

(* While a request waits for its answer some timer runs for it: on the     *)
(* resolver, on the server it connects to, writes to or reads from, or on  *)
(* the client whose body it needs.  No server and no client can hold it    *)
(* for ever.                                                               *)
Armed == Waiting /\ ~u.header_sent => u.timers # {}

(* Every server gets the request from its beginning, without a gap or a    *)
(* repetition: pieces of an unbuffered body that are gone with a failed    *)
(* attempt, or output left over from it, never reach the next server.      *)
WholeRequest == IsPrefix(u.got, Pieces)

(* A request that is not idempotent is sent to one server, unless          *)
(* "non_idempotent" is configured.                                         *)
SentOnce == u.conf.post /\ "non_idempotent" \notin u.conf.next_upstream => u.sent_to <= 1

(* The servers asked are no more than the tries the configuration allows.  *)
TriesBounded == u.sent_to <= u.conf.tries

(* The request that is fully sent is sent completely: the mark that lets   *)
(* the connection be reused later is never set early.                      *)
BodySentIsSent == u.request_body_sent => u.got = Pieces

-----------------------------------------------------------------------------

(* Relaying between a client and an upstream server without the event      *)
(* pipe: both ways after "101 Switching Protocols"                         *)
(* (ngx_http_upstream_process_upgraded) and one way for an unbuffered      *)
(* response (ngx_http_upstream_process_non_buffered_request).  The events  *)
(* are edge triggered: a direction that is left with something to do and   *)
(* no event to come would stand still for ever.                            *)

CONSTANTS Modes,        (* of "upgraded", "unbuffered" *)
          FromServer,   (* number of bytes the server has to send *)
          FromClient,   (* and the client, after its request *)
          Early,        (* how many of these may have come with the request *)
          Ahead,        (* bytes of the server that may follow its header at once *)
          FullHeader,   (* may the header alone fill the buffer? *)
          RelaySize          (* of the buffers *)

VARIABLE s

(* A connection: bytes in the socket, the end of file after them, an event *)
(* to be reported, and the flags of its read and write events.             *)
Conn(n) == [rest |-> n, socket |-> <<>>, fin |-> FALSE, event |-> FALSE,
            ready |-> FALSE, eof |-> FALSE, wready |-> TRUE, out |-> <<>>]

Buf(size) == [data |-> <<>>, last |-> 0, end |-> size]

(* Server bytes are 1, 2, ...; those of the client are negative.  Bytes    *)
(* read with the header lie behind it in the buffer, which ends at l.      *)
RelayInit == \E m \in Modes, h \in 0..Early, length \in {-1, FromServer}, a \in 0..Ahead, l \in 0..RelaySize :
         /\ m = "unbuffered" => h = 0
         /\ m = "upgraded" => length = -1
         /\ a <= l /\ (a = 0 /\ ~FullHeader => l < RelaySize)
         /\ s = [mode |-> m, upstream |-> Conn(FromServer - a), downstream |-> Conn(FromClient - h),
                 buffer |-> [data |-> [i \in 1..a |-> i], last |-> l, end |-> RelaySize],
                 from_client |-> Buf(RelaySize), early |-> h,
                 header_in |-> [data |-> [i \in 1..h |-> -i], last |-> h, end |-> h],
                 length |-> length, run |-> "start", do_write |-> FALSE, buf |-> "buffer",
                 timers |-> {}, rc |-> "none"]

Idle == s.run = "" /\ s.rc = "none"

Empty(b) == b.data = <<>>

(* The buffer of a direction: bytes that came with the request are in the  *)
(* buffer of the request header and go first.                              *)
BufferOf(t, from) ==
    IF from = "upstream" THEN "buffer"
    ELSE IF ~Empty(t.header_in) THEN "header_in" ELSE "from_client"

ngx_http_upstream_finalize_request_relay(t, rc) == [t EXCEPT !.rc = rc, !.run = "", !.timers = {}]

(* recv(): what fits of what there is; the end of file only after it.      *)
Recv(c, size) ==
    IF c.socket = <<>>
    THEN [n |-> 0, c |-> [c EXCEPT !.ready = FALSE, !.eof = c.fin]]
    ELSE LET n == IF Len(c.socket) < size THEN Len(c.socket) ELSE size
         IN [n |-> n, c |-> [c EXCEPT !.socket = SubSeq(@, n + 1, Len(@)),
                                      !.ready = n = size \/ c.fin]]

(* send(): k bytes of the buffer are taken; a buffer sent completely       *)
(* starts again.                                                           *)
RelaySent(b, k) == IF k = Len(b.data) THEN [b EXCEPT !.data = <<>>, !.last = 0]
                   ELSE [b EXCEPT !.data = SubSeq(@, k + 1, Len(@))]

Send(c, bytes, all) == [c EXCEPT !.out = @ \o bytes, !.wready = all]

-----------------------------------------------------------------------------

(* Upgraded connections.                                                   *)

(* The end of a call: what is to be closed, and the timers otherwise.      *)
EndUpgraded(t) ==
    IF \/ t.upstream.eof /\ Empty(t.buffer)
       \/ t.downstream.eof /\ Empty(t.from_client)
       \/ t.downstream.eof /\ t.upstream.eof
    THEN ngx_http_upstream_finalize_request_relay(t, "ok")
    ELSE [t EXCEPT !.run = "",
                   !.timers = (IF ~t.upstream.wready THEN {"upstream write"} ELSE {})
                         \cup (IF ~t.upstream.ready THEN {"upstream read"} ELSE {})
                         \cup (IF ~t.downstream.wready THEN {"downstream write"} ELSE {})]

(* One turn of the loop: write what there is, then read.  k bytes are      *)
(* taken by the destination.                                               *)
TurnUpgraded(from, k) ==
    LET src == from
        dst == IF from = "upstream" THEN "downstream" ELSE "upstream"
        bn == s.buf
        b == s[bn]
        writing == s.do_write /\ ~Empty(b) /\ s[dst].wready
        w == IF ~writing THEN s
             ELSE [s EXCEPT ![bn] = RelaySent(b, k),
                            ![dst] = Send(@, SubSeq(b.data, 1, k), k = Len(b.data))]
        size == w[bn].end - w[bn].last
        r == Recv(w[src], size)
    IN /\ k <= Len(b.data) /\ (~writing => k = 0)
       /\ s' = IF size = 0 \/ ~w[src].ready THEN EndUpgraded(w)
               ELSE IF r.n = 0 THEN EndUpgraded([w EXCEPT ![src] = r.c])
               ELSE [w EXCEPT ![src] = r.c, !.do_write = TRUE,
                              ![bn].data = @ \o SubSeq(w[src].socket, 1, r.n),
                              ![bn].last = @ + r.n]

ngx_http_upstream_process_upgraded ==
    /\ s.mode = "upgraded" /\ s.run \in {"upstream", "downstream"}
    /\ \E k \in 0..RelaySize : TurnUpgraded(s.run, k)

(* The entry of the handler.                                               *)
Enter(t, from, do_write) ==
    LET bn == BufferOf(t, from)
        e == IF bn = "header_in" THEN [t EXCEPT !.header_in.end = t.header_in.last] ELSE t
    IN [e EXCEPT !.buf = bn, !.run = from, !.do_write = do_write \/ bn = "header_in"]

(* Begin in the direction that has something; when that is the server the  *)
(* client's read event is posted.                                          *)
ngx_http_upstream_upgrade ==
    /\ s.mode = "upgraded" /\ s.run = "start"
    /\ s' = IF s.upstream.ready \/ ~Empty(s.buffer)
            THEN Enter([s EXCEPT !.downstream.event = TRUE], "upstream", TRUE)
            ELSE Enter(s, "downstream", TRUE)

-----------------------------------------------------------------------------

(* Unbuffered responses.                                                   *)

(* The input filter counts the length down when it is known.               *)
ngx_http_upstream_non_buffered_filter(t, n) ==
    IF t.length = -1 THEN t ELSE [t EXCEPT !.length = @ - n]

EndUnbuffered(t) ==
    [t EXCEPT !.run = "",
              !.timers = (IF ~t.downstream.wready THEN {"downstream write"} ELSE {})
                    \cup (IF ~t.upstream.ready THEN {"upstream read"} ELSE {})]

(* After writing: the response is complete, cut off, or goes on with an    *)
(* empty buffer.                                                           *)
Complete(t) == t.length = 0 \/ (t.upstream.eof /\ t.length = -1)

TurnUnbuffered(k) ==
    LET b == s.buffer
        writing == s.do_write /\ ~Empty(b) /\ s.downstream.wready
        w == IF ~writing THEN s
             ELSE [s EXCEPT !.buffer.data = SubSeq(@, k + 1, Len(@)),
                            !.downstream = Send(@, SubSeq(b.data, 1, k), k = Len(b.data))]
        e == IF s.do_write /\ Empty(w.buffer) THEN [w EXCEPT !.buffer = Buf(RelaySize)] ELSE w
        size == e.buffer.end - e.buffer.last
        r == Recv(e.upstream, size)
    IN /\ k <= Len(b.data) /\ (~writing => k = 0)
       /\ s' = IF s.do_write /\ Empty(w.buffer) /\ Complete(w)
               THEN ngx_http_upstream_finalize_request_relay(w, "ok")
               ELSE IF s.do_write /\ Empty(w.buffer) /\ w.upstream.eof
               THEN ngx_http_upstream_finalize_request_relay(w, "premature")
               ELSE IF size = 0 \/ ~e.upstream.ready THEN EndUnbuffered(e)
               ELSE IF r.n = 0 /\ ~r.c.eof THEN EndUnbuffered([e EXCEPT !.upstream = r.c])
               ELSE ngx_http_upstream_non_buffered_filter(
                       [e EXCEPT !.upstream = r.c, !.do_write = TRUE,
                                 !.buffer.data = @ \o SubSeq(e.upstream.socket, 1, r.n),
                                 !.buffer.last = @ + r.n], r.n)

ngx_http_upstream_process_non_buffered_request ==
    /\ s.mode = "unbuffered" /\ s.run = "upstream"
    /\ \E k \in 0..RelaySize : TurnUnbuffered(k)

EnterUnbuffered(t, do_write) ==
    [t EXCEPT !.run = "upstream", !.do_write = do_write \/ t.length = 0]

(* Bytes behind the header are written at once; without any the handler    *)
(* runs if there is something to read or nothing to wait for.              *)
StartUnbuffered ==
    /\ s.mode = "unbuffered" /\ s.run = "start"
    /\ LET n == Len(s.buffer.data)
           t == ngx_http_upstream_non_buffered_filter(s, n)
       IN s' = IF n > 0 THEN EnterUnbuffered(t, TRUE)
               ELSE IF s.upstream.ready \/ s.length = 0
               THEN EnterUnbuffered([s EXCEPT !.buffer = Buf(RelaySize)], FALSE)
               ELSE [s EXCEPT !.run = "", !.buffer = Buf(RelaySize), !.timers = {"upstream read"}]

-----------------------------------------------------------------------------

(* The peers and the events.                                               *)

RelaySends(x) ==
         /\ s.run = "" \/ s.run = "start"
         /\ s.rc = "none" /\ s[x].rest > 0 /\ ~s[x].fin
         /\ x = "downstream" => s.mode = "upgraded"
         /\ LET all == IF x = "upstream" THEN FromServer ELSE FromClient
                byte == all - s[x].rest + 1
            IN s' = [s EXCEPT ![x].rest = @ - 1, ![x].event = TRUE,
                              ![x].socket = Append(@, IF x = "upstream" THEN byte ELSE -byte)]

(* A peer may close before it has sent everything.                         *)
RelayCloses(x) ==
         /\ s.rc = "none" /\ ~s[x].fin
         /\ x = "downstream" => s.mode = "upgraded"
         /\ s' = [s EXCEPT ![x].fin = TRUE, ![x].event = TRUE]

RelayReadEvent(x) ==
         /\ Idle /\ s[x].event
         /\ LET t == [s EXCEPT ![x].event = FALSE, ![x].ready = TRUE]
            IN s' = IF s.mode = "upgraded" THEN Enter(t, x, FALSE) ELSE EnterUnbuffered(t, FALSE)

(* x becomes writable: the direction that writes to it runs.               *)
WriteEvent(x) ==
    /\ Idle /\ ~s[x].wready
    /\ LET t == [s EXCEPT ![x].wready = TRUE]
       IN s' = IF s.mode = "unbuffered" THEN EnterUnbuffered(t, TRUE)
               ELSE Enter(t, IF x = "upstream" THEN "downstream" ELSE "upstream", TRUE)

Timeout == /\ Idle /\ s.timers # {}
           /\ s' = ngx_http_upstream_finalize_request_relay(s, "timeout")

Done == s.rc # "none" /\ UNCHANGED s

RelayNext == \/ ngx_http_upstream_upgrade \/ StartUnbuffered
             \/ ngx_http_upstream_process_upgraded
             \/ ngx_http_upstream_process_non_buffered_request
             \/ \E x \in {"upstream", "downstream"} :
                   \/ RelaySends(x) \/ RelayCloses(x) \/ RelayReadEvent(x) \/ WriteEvent(x)
             \/ Timeout \/ Done

RelaySpec == RelayInit /\ [][RelayNext]_s

-----------------------------------------------------------------------------

(* Properties.                                                             *)

ServerBytes == [i \in 1..FromServer |-> i]

ClientBytes == [i \in 1..FromClient |-> -i]

(* The bytes of each peer reach the other one in their order, once, with   *)
(* those that came with the request first.                                 *)
RelayInOrder == /\ IsPrefix(s.downstream.out, ServerBytes)
                /\ IsPrefix(s.upstream.out, ClientBytes)

(* What the server sent before it closed reaches a client that is still    *)
(* there, and the reverse for a client that sent nothing ahead of the      *)
(* answer.  (Bytes read into the header buffer are not looked at when the  *)
(* client closes.)                                                         *)
NothingCutOff ==
    s.mode = "upgraded" /\ s.rc = "ok" =>
       /\ s.upstream.eof /\ ~s.downstream.eof =>
             Len(s.downstream.out) = FromServer - s.upstream.rest
       /\ s.downstream.eof /\ ~s.upstream.eof /\ s.early = 0 =>
             Len(s.upstream.out) = FromClient - s.downstream.rest

(* An unbuffered response ends well only when all of it was written, and a *)
(* response of known length that is cut off never does.                    *)
CompleteIsComplete ==
    s.mode = "unbuffered" /\ s.rc = "ok" =>
       \/ Len(s.downstream.out) = FromServer
       \/ s.length = -1 /\ Len(s.downstream.out) = FromServer - s.upstream.rest

(* When the worker waits no direction stands still: nothing is both        *)
(* readable and fits, nothing read waits for a socket that is writable,    *)
(* and a timer runs.                                                       *)
RelayNoStall ==
         Idle => /\ s.timers # {}
                 /\ ~(s.upstream.ready /\ s.buffer.last < s.buffer.end)
                 /\ ~(~Empty(s.buffer) /\ s.downstream.wready)
                 /\ s.mode = "upgraded" /\ ~s.downstream.event =>
                       ~(~Empty(s.header_in) /\ s.upstream.wready)

(* A tunnel does not hang right after the handshake, nor later: the worker *)
(* does not wait with bytes to be read from the server and none in hand.   *)
NoHang == ~(Idle /\ s.mode = "upgraded" /\ Empty(s.buffer) /\ s.upstream.ready)

-----------------------------------------------------------------------------

(* The event pipe: a buffered response on its way from an upstream server  *)
(* to the client, through a few memory buffers and, when the client is     *)
(* slow or the response is kept, a temporary file (event/ngx_event_pipe.c  *)
(* and its callers in http/ngx_http_upstream.c).                           *)
(*                                                                         *)
(* Memory is modelled as memory: a "shadow" in a chain names a part of a   *)
(* raw buffer, and what it stands for is looked up when it is sent or      *)
(* written to the file.                                                    *)

CONSTANTS Kinds,        (* of "plain", "cache", "store" *)
          Threads,      (* set of BOOLEAN: the file is written by a thread *)
          Limits,       (* set of BOOLEAN: the reading rate is limited *)
          Total,        (* bytes of the response body *)
          Num, PipeSize,    (* proxy_buffers *)
          BusySize,     (* proxy_busy_buffers_size *)
          WriteSize,    (* proxy_temp_file_write_size *)
          MaxFile       (* proxy_max_temp_file_size *)

VARIABLE ep

Raws == 0..Num          (* 0 is the buffer the header was read into *)

Header == -1            (* its first cell *)

HasFile(kind) == kind # "plain"

(* The pipe as send_response() sets it up, with n bytes read ahead.        *)
PipeInit == \E kind \in Kinds, thread \in Threads, limit \in Limits,
               length \in {-1, Total}, n \in 0..(PipeSize - 1), owner \in BOOLEAN :
        ep = [kind |-> kind, thread |-> thread, limit |-> limit,
              mem |-> [i \in Raws |-> [c \in 1..PipeSize |->
                          IF i = 0 /\ c = 1 THEN Header
                          ELSE IF i = 0 /\ c <= n + 1 THEN c - 1 ELSE 0]],
              pos |-> [i \in Raws |-> IF i = 0 THEN 1 ELSE 0],
              last |-> [i \in Raws |-> IF i = 0 THEN 1 ELSE 0],
              free_raw_bufs |-> <<>>, allocated |-> 0, in |-> <<>>, writing |-> <<>>,
              out |-> <<>>, busy |-> <<>>, preread |-> n, buf_to_file |-> kind = "cache",
              file |-> <<>>, offset |-> 0, length |-> length, known |-> length # -1,
              upstream_done |-> FALSE, upstream_error |-> FALSE, upstream_eof |-> FALSE,
              upstream_blocked |-> FALSE, downstream_error |-> FALSE, downstream_done |-> FALSE,
              read |-> FALSE, aio |-> FALSE, do_write |-> FALSE, pc |-> "read",
              rest |-> Total - n, socket |-> <<>>, fin |-> FALSE, fail |-> FALSE,
              event |-> FALSE, ready |-> FALSE, delayed |-> FALSE,
              owner |-> owner, wready |-> TRUE, got |-> <<>>,
              timers |-> {}, rc |-> "none", kept |-> FALSE, empty |-> FALSE]

Ended(q) == q.upstream_eof \/ q.upstream_error \/ q.upstream_done

(* Bytes a chain entry stands for: a part of a raw buffer, or of the file  *)
(* (raw = -1).                                                             *)
Bytes(q, e) == IF e.raw = -1 THEN SubSeq(q.file, e.a + 1, e.b)
               ELSE [c \in 1..(e.b - e.a) |-> q.mem[e.raw][e.a + c]]

ChainBytes(q, chain) == FlattenSeq([i \in DOMAIN chain |-> Bytes(q, chain[i])])

EntrySize(e) == e.b - e.a

ChainSize(chain) == FoldLeft(LAMBDA n, e : n + EntrySize(e), 0, chain)

Recycled(chain) == SelectSeq(chain, LAMBDA e : e.recycled)

-----------------------------------------------------------------------------

(* Raw buffers and the input filter.                                       *)

(* As if a partially filled first buffer could be put behind another.      *)
AddFreeBufFirst(q, i) ==
    LET start == IF q.buf_to_file /\ i = 0 THEN 1 ELSE 0
    IN [q EXCEPT !.pos[i] = start, !.last[i] = start, !.free_raw_bufs = <<i>> \o @]

ngx_event_pipe_add_free_buf(q, i) ==
    LET start == IF q.buf_to_file /\ i = 0 THEN 1 ELSE 0
        f == q.free_raw_bufs
        at == IF f = <<>> \/ q.pos[f[1]] = q.last[f[1]] THEN 1 ELSE 2
    IN [q EXCEPT !.pos[i] = start, !.last[i] = start, !.free_raw_bufs = InsertAt(f, at, i)]

(* A raw buffer is handed on as a shadow.                                  *)
ngx_event_pipe_copy_input_filter(q, i) ==
    IF q.pos[i] = q.last[i] THEN q
    ELSE [q EXCEPT !.in = Append(@, [raw |-> i, a |-> q.pos[i], b |-> q.last[i], recycled |-> TRUE]),
                   !.length = IF @ = -1 THEN -1 ELSE @ - (q.last[i] - q.pos[i])]

(* n bytes were read into a chain of raw buffers: full ones are handed on, *)
(* the others are free, the partially filled one first.                    *)
Fill(q, chain, n) ==
    LET step(acc, i) ==
            LET size == PipeSize - acc.q.last[i]
            IN IF acc.n <= 0 THEN [acc EXCEPT !.rest = Append(@, i)]
               ELSE IF acc.n >= size
               THEN [acc EXCEPT !.q = ngx_event_pipe_copy_input_filter([@ EXCEPT !.last[i] = PipeSize], i),
                                !.n = @ - size]
               ELSE [acc EXCEPT !.q.last[i] = @ + acc.n, !.n = 0, !.rest = Append(@, i)]
        r == FoldLeft(step, [q |-> q, n |-> n, rest |-> <<>>], chain)
    IN [r.q EXCEPT !.free_raw_bufs = r.rest]

-----------------------------------------------------------------------------

(* The temporary file.                                                     *)

(* How many entries of the chain fit into one write and into the file.     *)
WritePrefix(q) ==
    LET fits(k) == /\ ChainSize(SubSeq(q.in, 1, k)) <= WriteSize
                   /\ q.offset + ChainSize(SubSeq(q.in, 1, k)) <= MaxFile
        ks == {k \in 0..Len(q.in) : \A j \in 0..k : fits(j)}
    IN CHOOSE k \in ks : \A j \in ks : j <= k

(* The bytes of a chain are in the file: the last file entry grows, or     *)
(* there is a new one, and the raw buffers are free.                       *)
Written(q, chain) ==
    LET head == IF q.buf_to_file THEN <<q.mem[0][1]>> ELSE <<>>
        start == IF q.buf_to_file THEN 1 ELSE q.offset
        n == ChainSize(chain)
        end == start + n
        o == q.out
        joined == o # <<>> /\ o[Len(o)].b = start
        out == IF n = 0 THEN o
               ELSE IF joined THEN [o EXCEPT ![Len(o)].b = end]
               ELSE Append(o, [raw |-> -1, a |-> start, b |-> end, recycled |-> FALSE])
        raws == [i \in DOMAIN chain |-> chain[i].raw]
    IN [q EXCEPT !.file = SubSeq(@, 1, q.offset) \o head \o ChainBytes(q, chain),
                 !.offset = end, !.buf_to_file = FALSE, !.out = out, !.writing = <<>>,
                 !.free_raw_bufs = @ \o raws,
                 !.pos = [i \in Raws |-> IF i \in Range(raws) THEN 0 ELSE @[i]],
                 !.last = [i \in Raws |-> IF i \in Range(raws) THEN 0 ELSE @[i]]]

(* The outcome and the pipe: "ok", "busy" when the file is full, "again"   *)
(* while a thread writes.                                                  *)
ngx_event_pipe_write_chain_to_temp_file(q) ==
    IF q.writing # <<>>
    THEN IF q.aio THEN [rc |-> "again", q |-> q] ELSE [rc |-> "ok", q |-> Written(q, q.writing)]
    ELSE LET k == IF HasFile(q.kind) THEN Len(q.in) ELSE WritePrefix(q)
             chain == SubSeq(q.in, 1, k)
             rest == [q EXCEPT !.in = SubSeq(@, k + 1, Len(@))]
         IN IF q.in = <<>> /\ ~q.buf_to_file THEN [rc |-> "empty", q |-> [q EXCEPT !.empty = TRUE]]
            ELSE IF k = 0 /\ ~HasFile(q.kind) THEN [rc |-> "busy", q |-> q]
            ELSE IF q.thread /\ chain # <<>>
            THEN [rc |-> "again", q |-> [rest EXCEPT !.writing = chain, !.aio = TRUE]]
            ELSE [rc |-> "ok", q |-> Written(rest, chain)]

-----------------------------------------------------------------------------

(* Writing to the client.                                                  *)

(* The chains are given up: their raw buffers are free.                    *)
ngx_event_pipe_drain_chains(q) ==
    LET chain == q.busy \o q.out \o q.in
        raws == [i \in DOMAIN chain |-> chain[i].raw]
        mine == SelectSeq(raws, LAMBDA i : i # -1)
    IN FoldLeft(ngx_event_pipe_add_free_buf,
                [q EXCEPT !.busy = <<>>, !.out = <<>>, !.in = <<>>], mine)

(* The output filter took the chain and k bytes of what it holds were      *)
(* sent; entries sent completely leave it and their raw buffers are free.  *)
PipeSent(q, chain, k) ==
        LET all == q.busy \o chain
            upto(i) == ChainSize(SubSeq(all, 1, i))
            gone == {i \in DOMAIN all : upto(i) <= k}
            left == [i \in 1..(Len(all) - Cardinality(gone)) |->
                        LET j == i + Cardinality(gone)
                        IN IF upto(j - 1) < k THEN [all[j] EXCEPT !.a = @ + (k - upto(j - 1))] ELSE all[j]]
            freed == SelectSeq(SubSeq(all, 1, Cardinality(gone)), LAMBDA e : e.raw # -1)
            t == [q EXCEPT !.busy = left, !.got = @ \o SubSeq(ChainBytes(q, all), 1, k),
                           !.wready = k = ChainSize(all)]
        IN FoldLeft(LAMBDA x, e : ngx_event_pipe_add_free_buf(x, e.raw), t, freed)

(* A small chain with nothing in it to be recycled may be held back.       *)
OutputFilter(q, chain) ==
    LET all == q.busy \o chain
    IN {PipeSent(q, chain, k) : k \in IF q.wready /\ q.owner THEN 0..ChainSize(all) ELSE {}}
       \cup (IF q.wready /\ q.owner /\ Recycled(all) # <<>> THEN {} ELSE {[q EXCEPT !.busy = all]})
       \cup {ngx_event_pipe_drain_chains([q EXCEPT !.downstream_error = TRUE, !.out = chain \o @])}

BusyBytes(chain) == PipeSize * Len(Recycled(chain))

(* How many entries of "in" follow the file entries to the client: not     *)
(* more memory than the busy size is with the output filter.               *)
Gather(q) ==
    LET ks == {k \in 0..Len(q.in) : BusyBytes(q.busy) + PipeSize * k <= BusySize}
    IN IF HasFile(q.kind) \/ q.writing # <<>> \/ ks = {} THEN 0
       ELSE CHOOSE k \in ks : \A j \in ks : j <= k

(* One turn of the loop; it ends with pc = "read".                         *)
WriteEnded(q) ==
    LET in == IF q.writing # <<>> THEN <<>> ELSE q.in
        chain == [i \in DOMAIN (q.out \o in) |-> [(q.out \o in)[i] EXCEPT !.recycled = FALSE]]
        t == [q EXCEPT !.busy = [i \in DOMAIN @ |-> [@[i] EXCEPT !.recycled = FALSE]],
                       !.out = <<>>, !.in = IF q.writing # <<>> THEN @ ELSE <<>>]
    IN {[o EXCEPT !.pc = "read", !.downstream_done = q.writing = <<>>] : o \in OutputFilter(t, chain)}

WriteSome(q) ==
    LET full == BusyBytes(q.busy) >= BusySize
        k == IF full THEN 0 ELSE Gather(q)
        chain == IF full THEN <<>> ELSE q.out \o SubSeq(q.in, 1, k)
        flush == full \/ (~HasFile(q.kind) /\ q.writing = <<>> /\ k < Len(q.in))
        t == IF full THEN q ELSE [q EXCEPT !.out = <<>>, !.in = SubSeq(@, k + 1, Len(@))]
    IN IF chain = <<>> /\ ~flush THEN {[q EXCEPT !.pc = "read"]} ELSE OutputFilter(t, chain)

ngx_event_pipe_write_to_downstream ==
    /\ ep.pc = "write"
    /\ LET q == IF ep.writing # <<>> THEN ngx_event_pipe_write_chain_to_temp_file(ep).q ELSE ep
       IN ep' \in IF q.downstream_error
                  THEN {[ngx_event_pipe_drain_chains(q) EXCEPT !.pc = "read"]}
                  ELSE IF Ended(q) THEN WriteEnded(q)
                  ELSE IF ~q.owner \/ ~q.wready THEN {[q EXCEPT !.pc = "read"]}
                  ELSE WriteSome(q)

-----------------------------------------------------------------------------

(* Reading from the server.                                                *)

(* recv_chain(): the bytes go to the raw buffers in the order of the chain.*)
RecvChain(q, chain) ==
    LET room == FoldLeft(LAMBDA n, i : n + PipeSize - q.last[i], 0, chain)
        n == IF Len(q.socket) < room THEN Len(q.socket) ELSE room
        before(j) == FoldLeft(LAMBDA x, i : x + PipeSize - q.last[i], 0, SubSeq(chain, 1, j - 1))
        cell(i, c) == LET j == CHOOSE x \in DOMAIN chain : chain[x] = i
                          at == before(j) + c - q.last[i]
                      IN IF c > q.last[i] /\ at <= n THEN q.socket[at] ELSE q.mem[i][c]
    IN [n |-> n,
        q |-> [q EXCEPT !.socket = SubSeq(@, n + 1, Len(@)),
                        !.ready = IF n = 0 THEN FALSE ELSE n = room \/ q.fin \/ q.fail,
                        !.mem = [i \in Raws |-> IF i \in Range(chain)
                                                THEN [c \in 1..PipeSize |-> cell(i, c)] ELSE @[i]]]]

Break(q) == [q EXCEPT !.pc = "readend"]

(* With raw buffers to read into.                                          *)
ReadInto(q, chain) ==
    LET r == RecvChain(q, chain)
        back == [r.q EXCEPT !.free_raw_bufs = chain]
    IN IF r.n = 0 /\ q.fail THEN Break([back EXCEPT !.upstream_error = TRUE])
       ELSE IF r.n = 0 /\ q.fin THEN Break([back EXCEPT !.read = TRUE, !.upstream_eof = TRUE])
       ELSE IF r.n = 0 THEN Break(back)
       ELSE LET f == Fill([r.q EXCEPT !.read = TRUE], chain, r.n)
            IN IF q.limit THEN Break([f EXCEPT !.delayed = TRUE, !.timers = @ \cup {"delay"}]) ELSE f

(* The end of a call without anything more to do in it.                    *)
Return(q) == [q EXCEPT !.pc = "turn"]

ReadTurn(q) ==
    IF Ended(q) \/ (q.preread = -1 /\ ~q.ready) THEN Break(q)
    ELSE IF q.preread # -1
    THEN Fill([q EXCEPT !.preread = -1, !.read = q.preread > 0], <<0>>, q.preread)
    ELSE IF q.limit /\ q.delayed THEN Break(q)
    ELSE IF q.free_raw_bufs # <<>> THEN ReadInto(q, q.free_raw_bufs)
    ELSE IF q.allocated < Num
    THEN ReadInto([q EXCEPT !.allocated = @ + 1], <<q.allocated + 1>>)
    ELSE IF ~HasFile(q.kind) /\ q.owner /\ q.wready
    THEN Break([q EXCEPT !.upstream_blocked = TRUE])
    ELSE IF HasFile(q.kind) \/ q.offset < MaxFile
    THEN LET w == ngx_event_pipe_write_chain_to_temp_file(q)
         IN IF w.rc = "busy" THEN Break(q)
            ELSE IF w.rc # "ok" THEN Return(w.q)
            ELSE ReadInto(w.q, w.q.free_raw_bufs)
    ELSE Break(q)

(* After the loop: what completes the response, or is left of it, is       *)
(* handed on, and all of it is written if it is to be kept.                *)
ReadEnd(q) ==
    LET f == q.free_raw_bufs
        last == f # <<>> /\ q.length # -1 /\ q.last[f[1]] - q.pos[f[1]] >= q.length
        l == IF last THEN ngx_event_pipe_copy_input_filter([q EXCEPT !.free_raw_bufs = Tail(f)], f[1]) ELSE q
        d == IF l.length = 0 THEN [l EXCEPT !.upstream_done = TRUE, !.read = TRUE] ELSE l
        g == d.free_raw_bufs
        e == IF (d.upstream_eof \/ d.upstream_error) /\ g # <<>>
             THEN [ngx_event_pipe_copy_input_filter(d, g[1]) EXCEPT !.free_raw_bufs = Tail(g)] ELSE d
    IN IF HasFile(e.kind) /\ (e.in # <<>> \/ e.buf_to_file)
       THEN Return(ngx_event_pipe_write_chain_to_temp_file(e).q) ELSE Return(e)

(* The beginning of the reading half: nothing while a thread writes.       *)
ReadBegin(q) ==
    IF Ended(q) \/ q.aio THEN Return(q)
    ELSE IF q.writing # <<>>
    THEN [ngx_event_pipe_write_chain_to_temp_file(q).q EXCEPT !.pc = "reading"]
    ELSE [q EXCEPT !.pc = "reading"]

ngx_event_pipe_read_upstream ==
    \/ /\ ep.pc = "read"
       /\ ep' = ReadBegin([ep EXCEPT !.read = FALSE, !.upstream_blocked = FALSE])
    \/ ep.pc = "reading" /\ ep' = ReadTurn(ep)
    \/ ep.pc = "readend" /\ ep' = ReadEnd(ep)

(* Another turn after something was read; otherwise the timers are set.    *)
ngx_event_pipe ==
    /\ ep.pc = "turn"
    /\ ep' = IF ep.read \/ ep.upstream_blocked THEN [ep EXCEPT !.pc = "write"]
             ELSE [ep EXCEPT !.pc = "request",
                       !.timers = (IF ep.delayed THEN @ \cap {"delay"}
                                   ELSE IF ~ep.ready THEN {"read"} ELSE {})
                            \cup (IF ep.owner /\ ~ep.wready THEN {"send"} ELSE {})]

-----------------------------------------------------------------------------

(* The upstream module around the pipe.                                    *)

ngx_http_upstream_finalize_request_pipe(q, rc) == [q EXCEPT !.rc = rc, !.pc = "end", !.timers = {}]

(* The file is kept when the response is known to be whole.                *)
Keep(q) == HasFile(q.kind) /\ (q.upstream_done \/ (q.upstream_eof /\ q.length = -1))

ngx_http_upstream_process_request ==
    /\ ep.pc = "request"
    /\ ep' = IF ep.writing # <<>> /\ ~ep.aio THEN [ep EXCEPT !.pc = "write"]
             ELSE IF ep.writing # <<>> THEN [ep EXCEPT !.pc = "idle"]
             ELSE IF Ended(ep)
             THEN ngx_http_upstream_finalize_request_pipe([ep EXCEPT !.kept = Keep(ep)],
                          IF ep.upstream_done \/ (ep.upstream_eof /\ ep.length = -1) THEN "ok" ELSE "502")
             ELSE IF ep.downstream_error /\ ~HasFile(ep.kind)
             THEN ngx_http_upstream_finalize_request_pipe(ep, "error")
             ELSE [ep EXCEPT !.pc = "idle"]

(* The read event of the server: bytes, the end, a timeout, or the end of  *)
(* a delay.                                                                *)
ngx_http_upstream_process_upstream_pipe ==
         /\ ep.pc = "idle"
         /\ \/ ep.event /\ ~ep.delayed
               /\ ep' = [ep EXCEPT !.event = FALSE, !.ready = TRUE, !.pc = "read"]
            \/ ep.event /\ ep.delayed
               /\ ep' = [ep EXCEPT !.event = FALSE, !.ready = TRUE]
            \/ "delay" \in ep.timers
               /\ ep' = [ep EXCEPT !.delayed = FALSE, !.timers = @ \ {"delay"}, !.pc = "read"]
            \/ "read" \in ep.timers
               /\ ep' = [ep EXCEPT !.upstream_error = TRUE, !.timers = @ \ {"read"}, !.pc = "request"]

(* The client's socket is writable, the sending times out, or the output   *)
(* becomes this request's turn.                                            *)
ngx_http_upstream_process_downstream ==
    /\ ep.pc = "idle"
    /\ \/ ep.owner /\ ~ep.wready /\ ep' = [ep EXCEPT !.wready = TRUE, !.pc = "write"]
       \/ ~ep.owner /\ ep' = [ep EXCEPT !.owner = TRUE, !.pc = "write"]
       \/ "send" \in ep.timers
          /\ ep' = [ep EXCEPT !.downstream_error = TRUE, !.timers = @ \ {"send"}, !.pc = "request"]

(* The thread has written.                                                 *)
ngx_http_upstream_thread_event_handler ==
    /\ ep.pc = "idle" /\ ep.aio
    /\ ep' = [ep EXCEPT !.aio = FALSE, !.pc = "write"]

-----------------------------------------------------------------------------

(* The server.                                                             *)

PipeSends == /\ ep.pc = "idle" /\ ep.rest > 0 /\ ~ep.fin /\ ~ep.fail
             /\ ep' = [ep EXCEPT !.rest = @ - 1, !.event = TRUE,
                                 !.socket = Append(@, Total - ep.rest + 1)]

PipeCloses == /\ ep.pc = "idle" /\ ~ep.fin /\ ~ep.fail
              /\ ep' = [ep EXCEPT !.fin = TRUE, !.event = TRUE]

Resets == /\ ep.pc = "idle" /\ ~ep.fin /\ ~ep.fail
          /\ ep' = [ep EXCEPT !.fail = TRUE, !.event = TRUE]

Over == ep.pc = "end" /\ UNCHANGED ep

PipeNext == \/ ngx_event_pipe_write_to_downstream \/ ngx_event_pipe_read_upstream
            \/ ngx_event_pipe \/ ngx_http_upstream_process_request
            \/ ngx_http_upstream_process_upstream_pipe \/ ngx_http_upstream_process_downstream
            \/ ngx_http_upstream_thread_event_handler
            \/ PipeSends \/ PipeCloses \/ Resets \/ Over

PipeSpec == PipeInit /\ [][PipeNext]_ep

-----------------------------------------------------------------------------

(* Properties.                                                             *)

PipeBody == [i \in 1..Total |-> i]

(* The client receives the body in order: no buffer is read into while     *)
(* the client or the file writer still needs it, nothing in memory         *)
(* overtakes what is on its way through the file.                          *)
PipeInOrder == IsPrefix(ep.got, PipeBody)

(* A response that ends well reached the client whole, or waits in the     *)
(* output chain behind what has been sent.                                 *)
WholeResponse ==
    ep.rc = "ok" /\ ~ep.downstream_error =>
        ep.got \o ChainBytes(ep, ep.busy) = SubSeq(PipeBody, 1, Total - ep.rest)

(* What is kept in the cache or stored is the whole response, in the cache *)
(* behind its header, even if the client has gone.                         *)
FileWhole ==
    ep.kept => /\ ep.known => ep.rest = 0
               /\ SubSeq(ep.file, 1, ep.offset) =
                    (IF ep.kind = "cache" THEN <<Header>> ELSE <<>>) \o SubSeq(PipeBody, 1, Total - ep.rest)

(* The busy size leaves a buffer: when the pipe turns to the file there is *)
(* something to write.  (The loop over the chain does not look.)           *)
NeverEmpty == ~ep.empty

(* While the server is being read every raw buffer in use is in exactly    *)
(* one chain.                                                              *)
RawChains == ep.free_raw_bufs \o [i \in DOMAIN (ep.in \o ep.writing \o ep.busy) |->
                                     (ep.in \o ep.writing \o ep.busy)[i].raw]

RawConserved ==
    ep.pc = "idle" /\ ~Ended(ep) =>
        \A i \in (1..ep.allocated) : Cardinality({c \in DOMAIN RawChains : RawChains[c] = i}) = 1

(* When the worker waits it has a reason: a timer, a thread, an event      *)
(* under way or its turn with the output; and if bytes of the server wait, *)
(* it is not because the client does.                                      *)
PipeNoStall ==
        ep.pc = "idle" =>
            /\ ep.timers # {} \/ ep.aio \/ ep.event \/ ~ep.owner
            /\ ep.ready /\ ~ep.delayed /\ ~ep.aio => ~(ep.owner /\ ep.wready /\ ~ep.downstream_error)
            /\ ep.in # <<>> /\ ~ep.aio => ~(ep.owner /\ ep.wready)
=============================================================================
