--------------------------- MODULE ProxyResponse ---------------------------
(***************************************************************************)
(* How the proxy, uwsgi and scgi modules take a response apart: the status *)
(* line, the lines of the header, and the body, which ends with its        *)
(* length, with the last chunk or with the connection.  The bytes arrive   *)
(* in reads that have nothing to do with any of this, and the server may   *)
(* close the connection at any place.                                      *)
(*                                                                         *)
(* The stream is made of tokens <<kind, value>>: "h", "ver" and "code" of  *)
(* a status line, "name" and "val" of a header line, and the bytes of      *)
(* HttpChunked for ends of lines and the body.  The server is correct: it  *)
(* sends one response and nothing behind it.                               *)
(***************************************************************************)
EXTENDS Integers, Sequences, SequencesExt, FiniteSets

CONSTANTS Gateway,   \* "proxy", "uwsgi" or "scgi"
          Mode,      \* "buffered", "unbuffered" or "memory" (a subrequest in memory)
          Size,      \* the size of the buffer for the header
          PipeSize,  \* the size of a buffer of the pipe
          Chunks,    \* sizes of reads
          Bodies,    \* which ways to send a body, see Responses
          Crs        \* whether lines end in CR LF

VARIABLES stream,    \* what the server has not got read yet
          want,      \* the response it sends
          u          \* the upstream

vars == <<stream, want, u>>

C == INSTANCE HttpChunked

T(kind, v) == <<kind, v>>
ContentLength == 2
Connection == 3
Encoding == 4
Status == 5
Location == 6

-----------------------------------------------------------------------------
(* Responses *)

Eol(cr) == IF cr THEN <<T("cr", 0), T("lf", 0)>> ELSE <<T("lf", 0)>>
Line(cr, k, v) == <<T("name", k), T("val", v)>> \o Eol(cr)
DataTokens(from, n) == [i \in 1 .. n |-> T("data", from + i)]
ChunkTokens(cr, from, n) == <<T("size", n)>> \o Eol(cr) \o DataTokens(from, n) \o Eol(cr)
LastChunk(cr, trailer) == <<T("size", 0)>> \o Eol(cr)
                          \o (IF trailer THEN <<T("tr", 0)>> \o Eol(cr) ELSE <<>>) \o Eol(cr)

BodyTokens(r) ==
    CASE r.body = "none" -> <<>>
      [] r.body = "chunks" -> ChunkTokens(r.cr, 0, 1) \o ChunkTokens(r.cr, 1, 1) \o LastChunk(r.cr, FALSE)
      [] r.body = "chunk" -> ChunkTokens(r.cr, 0, 2) \o LastChunk(r.cr, TRUE)
      [] r.body = "nochunk" -> LastChunk(r.cr, FALSE)
      [] OTHER -> DataTokens(0, r.n)

HeaderTokens(r) ==
    (IF r.code = 0 THEN <<>>
     ELSE <<T("h", 0), T("ver", r.ver), T("code", r.code)>> \o Eol(r.cr))
    \o (IF r.dup THEN <<T("h", 0), T("ver", r.ver)>> \o Eol(r.cr) ELSE <<>>)
    \o (IF r.conn THEN Line(r.cr, Connection, 0) ELSE <<>>)
    \o (IF r.length >= 0 THEN Line(r.cr, ContentLength, r.length) ELSE <<>>)
    \o (IF r.body \in {"chunks", "chunk", "nochunk"} THEN Line(r.cr, Encoding, 0) ELSE <<>>)
    \o (IF r.status > 0 THEN Line(r.cr, Status, r.status) ELSE <<>>)
    \o (IF r.location THEN Line(r.cr, Location, 0) ELSE <<>>)
    \o Eol(r.cr)

\* An answer without a header is as old as HTTP/0.9
Tokens(r) == IF r.ver = 9 THEN <<T("data", 1), T("data", 2)>> ELSE HeaderTokens(r) \o BodyTokens(r)
Payload(r) == CASE r.ver = 9 -> DataTokens(0, 2)
                [] r.ver # 9 /\ r.body = "none" -> <<>>
                [] r.ver # 9 /\ r.body = "nochunk" -> <<>>
                [] r.ver # 9 /\ r.body \in {"chunk", "chunks"} -> DataTokens(0, 2)
                [] OTHER -> DataTokens(0, r.n)

Plain == [ver |-> 11, code |-> 200, dup |-> FALSE, conn |-> FALSE, length |-> -1, n |-> 0,
          body |-> "close", status |-> 0, location |-> FALSE, head |-> FALSE, cr |-> FALSE, died |-> FALSE]

Responses ==
    {r \in
      (IF "length" \in Bodies THEN {[Plain EXCEPT !.length = n, !.n = n, !.body = "length", !.conn = c, !.dup = d] :
                                      n \in 0 .. 2, c \in BOOLEAN, d \in BOOLEAN} ELSE {})
      \cup (IF "chunked" \in Bodies THEN {[Plain EXCEPT !.body = b, !.conn = c, !.length = n] :
                                      b \in {"chunk", "chunks", "nochunk"}, c \in BOOLEAN, n \in {-1, 1}} ELSE {})
      \cup (IF "close" \in Bodies THEN {[Plain EXCEPT !.n = 2, !.ver = v, !.conn = TRUE] : v \in {9, 10, 11}} ELSE {})
      \cup (IF "none" \in Bodies THEN {[Plain EXCEPT !.body = "none", !.code = c, !.length = n] :
                                      c \in {204, 304}, n \in {-1, 2}}
                                      \cup {[Plain EXCEPT !.body = "none", !.head = TRUE, !.length = 2, !.ver = v] :
                                              v \in {10, 11}} ELSE {})
      \cup (IF "cgi" \in Bodies THEN {[Plain EXCEPT !.code = c, !.status = st, !.location = l, !.length = n, !.n = 1, !.conn = TRUE] :
                                      c \in {0, 200}, st \in {0, 404}, l \in BOOLEAN, n \in {-1, 1}} ELSE {})
     : Gateway # "proxy" => r.ver = 11}

-----------------------------------------------------------------------------
(* ngx_http_parse_status_line() and ngx_http_parse_header_line() *)

StatusToken(st, t) ==
    CASE st = "start" -> IF t[1] = "h" THEN "version" ELSE "error"
      [] st = "version" -> IF t[1] = "ver" THEN "status" ELSE "error"
      [] st = "status" -> IF t[1] = "code" THEN "space" ELSE "error"
      [] st = "space" -> CASE t[1] = "cr" -> "almost" [] t[1] = "lf" -> "done" [] OTHER -> "error"
      [] st = "almost" -> IF t[1] = "lf" THEN "done" ELSE "error"

RECURSIVE StatusScan(_)
StatusNext(v, st, t) ==
    CASE st = "error" -> [v EXCEPT !.rc = "error"]
      [] st = "done" -> [v EXCEPT !.pos = @ + 1, !.state = "start", !.rc = "ok"]
      [] OTHER -> StatusScan([v EXCEPT !.state = st, !.pos = @ + 1, !.ver = IF t[1] = "ver" THEN t[2] ELSE @,
                                       !.code = IF t[1] = "code" THEN t[2] ELSE @])
StatusScan(v) ==
    IF v.pos > Len(v.buf) THEN [v EXCEPT !.rc = "again"]
    ELSE StatusNext(v, StatusToken(v.state, v.buf[v.pos]), v.buf[v.pos])

\* The position and the state are not written back after an error
StatusResult(v, r) == IF r.rc = "error" THEN [v EXCEPT !.rc = "error"] ELSE r
ngx_http_parse_status_line(v) == StatusResult(v, StatusScan(v))

HeaderToken(st, t) ==
    CASE st = "start" -> CASE t[1] = "cr" -> "header_almost" [] t[1] = "lf" -> "header_done"
                           [] t[1] = "h" -> "http" [] OTHER -> "name"
      [] st = "http" -> IF t[1] = "ver" THEN "ignore" ELSE "name"
      [] st = "ignore" -> IF t[1] = "lf" THEN "start" ELSE "ignore"
      [] st \in {"name", "value"} -> CASE t[1] = "cr" -> "line_almost" [] t[1] = "lf" -> "line_done" [] OTHER -> "value"
      [] st = "line_almost" -> IF t[1] = "lf" THEN "line_done" ELSE "invalid"
      [] st = "header_almost" -> IF t[1] = "lf" THEN "header_done" ELSE "invalid"

RECURSIVE ngx_http_parse_header_line(_)
LineNext(v, st, t) ==
    CASE st = "invalid" -> [v EXCEPT !.rc = "invalid"]
      [] st = "line_done" -> [v EXCEPT !.pos = @ + 1, !.state = "start", !.rc = "ok"]
      [] st = "header_done" -> [v EXCEPT !.pos = @ + 1, !.state = "start", !.rc = "done"]
      [] OTHER -> ngx_http_parse_header_line(
                    [v EXCEPT !.state = st, !.pos = @ + 1,
                              !.name = IF t[1] = "name" THEN t[2] ELSE @,
                              !.value = IF t[1] = "val" THEN t[2] ELSE IF t[1] = "name" THEN 0 ELSE @])
ngx_http_parse_header_line(v) ==
    IF v.pos > Len(v.buf) THEN [v EXCEPT !.rc = "again"]
    ELSE LineNext(v, HeaderToken(v.state, v.buf[v.pos]), v.buf[v.pos])

\* The handlers of u->headers_in
Handled(v) ==
    CASE v.name = ContentLength -> [v EXCEPT !.cl = v.value]
      [] v.name = Connection -> [v EXCEPT !.close = TRUE]
      [] v.name = Encoding -> [v EXCEPT !.chunked = TRUE]
      [] v.name = Status -> [v EXCEPT !.cgi = v.value]
      [] v.name = Location -> [v EXCEPT !.location = TRUE]

-----------------------------------------------------------------------------
(* The end of the header *)

NoBody(v) == v.code \in {204, 304} \/ want.head

ProxyHeaderDone(v) ==
    [v EXCEPT !.cl = IF v.chunked THEN -1 ELSE @, !.rc = "done",
              !.keepalive = IF v.code # 101 /\ (NoBody(v) \/ (~v.chunked /\ v.cl = 0)) THEN ~v.close ELSE @]

\* The status line, the Status header, a redirect, or 200
CgiHeaderDone(v) ==
    [v EXCEPT !.rc = "done", !.code = IF @ > 0 THEN @ ELSE IF v.cgi > 0 THEN v.cgi
                                      ELSE IF v.location THEN 302 ELSE 200]

RECURSIVE ngx_http_proxy_process_header(_)
ProxyLine(v) ==
    CASE v.rc = "ok" -> ngx_http_proxy_process_header(Handled(v))
      [] v.rc = "done" -> ProxyHeaderDone(v)
      [] OTHER -> v
ngx_http_proxy_process_header(v) == ProxyLine(ngx_http_parse_header_line(v))

RECURSIVE ngx_http_uwsgi_process_header(_)
UwsgiLine(v) ==
    CASE v.rc = "ok" -> ngx_http_uwsgi_process_header(Handled(v))
      [] v.rc = "done" -> CgiHeaderDone(v)
      [] OTHER -> v
ngx_http_uwsgi_process_header(v) == UwsgiLine(ngx_http_parse_header_line(v))

ngx_http_scgi_process_header(v) == ngx_http_uwsgi_process_header(v)

\* No status line: what there is, is the body, up to the end of the connection
ProxyStatus(v) ==
    CASE v.rc = "again" -> v
      [] v.rc = "error" -> [v EXCEPT !.ver = 9, !.close = TRUE, !.rc = "done"]
      [] v.rc = "ok" -> ngx_http_proxy_process_header(
                          [v EXCEPT !.close = @ \/ v.ver < 11, !.process = "header"])
ngx_http_proxy_process_status_line(v) == ProxyStatus(ngx_http_parse_status_line(v))

UwsgiStatus(v) == IF v.rc = "again" THEN v ELSE ngx_http_uwsgi_process_header([v EXCEPT !.process = "header"])
ngx_http_uwsgi_process_status_line(v) == UwsgiStatus(ngx_http_parse_status_line(v))
ngx_http_scgi_process_status_line(v) ==
    UwsgiStatus(ngx_http_parse_status_line(v))

ProcessHeader(v) ==
    CASE Gateway = "proxy" -> IF v.process = "status" THEN ngx_http_proxy_process_status_line(v)
                              ELSE ngx_http_proxy_process_header(v)
      [] Gateway = "uwsgi" -> IF v.process = "status" THEN ngx_http_uwsgi_process_status_line(v)
                              ELSE ngx_http_uwsgi_process_header(v)
      [] Gateway = "scgi" -> IF v.process = "status" THEN ngx_http_scgi_process_status_line(v)
                             ELSE ngx_http_scgi_process_header(v)

-----------------------------------------------------------------------------
(* The body.  v.raw holds what was read and not passed on; for a subrequest  *)
(* in memory it is the one buffer.                                           *)

Bits(out, buf) == FlattenSeq([k \in DOMAIN out |-> SubSeq(buf, out[k][1], out[k][2])])

\* Chunked data from pos + 1 on: [x, rc, out] with the parts that are data
RECURSIVE Parts(_, _, _, _)
PartTaken(r, mem, out, n) ==
    Parts([r.x EXCEPT !.size = @ - n], mem, r.pos + n, Append(out, <<r.pos + 1, r.pos + n>>))
PartNext(r, mem, out) ==
    IF r.rc = "ok" THEN PartTaken(r, mem, out, IF Len(mem) - r.pos >= r.x.size THEN r.x.size ELSE Len(mem) - r.pos)
    ELSE [x |-> r.x, rc |-> r.rc, out |-> out]
Parts(x, mem, pos, out) == PartNext(C!ngx_http_parse_chunked(x, mem, pos, Len(mem)), mem, out)

InputFilterInit(v) ==
    IF NoBody(v) THEN [v EXCEPT !.length = 0, !.keepalive = ~v.close]
    ELSE IF v.chunked THEN [v EXCEPT !.length = IF Mode = "buffered" THEN 3 ELSE 1]
    ELSE IF v.cl = 0 THEN [v EXCEPT !.length = 0, !.keepalive = ~v.close]
    ELSE [v EXCEPT !.length = v.cl]
ngx_http_proxy_input_filter_init(v) == InputFilterInit(v)

\* uwsgi and scgi: the pipe reads to the end of the connection
ngx_http_upstream_non_buffered_filter_init(v) == [v EXCEPT !.length = v.cl]
FilterInit(v) == CASE Gateway = "proxy" -> ngx_http_proxy_input_filter_init(v)
                   [] Gateway # "proxy" /\ Mode = "buffered" -> [v EXCEPT !.length = -1]
                   [] OTHER -> ngx_http_upstream_non_buffered_filter_init(v)

PassedOn(v) == [v EXCEPT !.body = @ \o v.raw, !.raw = <<>>, !.room = PipeSize]

Counted(v, n) == [v EXCEPT !.length = @ - n, !.done = @ \/ v.length <= n,
                           !.keepalive = IF v.length = n THEN ~v.close ELSE @]
ngx_http_proxy_copy_filter(v) ==
    IF v.raw = <<>> THEN v
    ELSE IF v.length = -1 THEN PassedOn(v)
    ELSE PassedOn(Counted(v, Len(v.raw)))

ngx_event_pipe_copy_input_filter(v) == IF v.raw = <<>> THEN v ELSE PassedOn(v)

ChunksPassed(v, r) ==
    [v EXCEPT !.body = @ \o Bits(r.out, v.raw), !.raw = <<>>, !.room = PipeSize, !.ctx = r.x,
              !.done = r.rc = "done", !.keepalive = IF r.rc = "done" THEN ~v.close ELSE @,
              !.length = IF r.rc = "again" THEN C!Length(r.x) ELSE @,
              !.rc = IF r.rc = "invalid" THEN "error" ELSE @]
ngx_http_proxy_chunked_filter(v) ==
    IF v.raw = <<>> THEN v ELSE ChunksPassed(v, Parts(v.ctx, v.raw, 0, <<>>))

PipeFilter(v) ==
    CASE Gateway # "proxy" -> ngx_event_pipe_copy_input_filter(v)
      [] Gateway = "proxy" /\ v.chunked -> ngx_http_proxy_chunked_filter(v)
      [] OTHER -> ngx_http_proxy_copy_filter(v)

\* The pipe hands over a buffer that is full or holds what is asked for, and at the end what it has
ngx_event_pipe_read_upstream(v) ==
    LET f == IF v.room = 0 \/ (v.length # -1 /\ Len(v.raw) >= v.length) \/ v.eof THEN PipeFilter(v) ELSE v
    IN [f EXCEPT !.done = @ \/ f.length = 0]

\* The bytes behind position `from` are new
CopyCounted(v, n) == [v EXCEPT !.length = @ - n, !.keepalive = IF v.length = n THEN ~v.close ELSE @]
Out(v, out) == IF Mode = "memory" THEN [v EXCEPT !.out = @ \o out]
               ELSE [v EXCEPT !.body = @ \o Bits(out, v.raw), !.raw = <<>>]
NonBufferedCopied(v, n) == IF v.length = -1 THEN v ELSE CopyCounted(v, n)
ngx_http_proxy_non_buffered_copy_filter(v, from) ==
    NonBufferedCopied(Out(v, <<<<from + 1, Len(v.raw)>>>>), Len(v.raw) - from)

ngx_http_upstream_non_buffered_filter(v, from) ==
    LET w == Out(v, <<<<from + 1, Len(v.raw)>>>>) IN
    IF v.length = -1 THEN w ELSE [w EXCEPT !.length = @ - (Len(v.raw) - from)]

\* A subrequest in memory: the parts of the body are moved together
RECURSIVE Moved(_, _, _)
MovedPart(buf, out, last, h, n) ==
    LET r == Moved([j \in DOMAIN buf |-> IF j \in last .. (last + n - 1) THEN buf[h + j - last] ELSE buf[j]],
                   Tail(out), last + n)
    IN [buf |-> r.buf, out |-> <<<<last, last + n - 1>>>> \o r.out]
Moved(buf, out, last) ==
    IF out = <<>> THEN [buf |-> SubSeq(buf, 1, last - 1), out |-> <<>>]
    ELSE MovedPart(buf, out, last, out[1][1], out[1][2] - out[1][1] + 1)

InMemory(v, m) == [v EXCEPT !.raw = m.buf, !.out = m.out]
Continuous1(v, from) ==
    IF Mode # "memory" THEN v
    ELSE InMemory(v, Moved(v.raw, v.out, IF v.out = <<>> THEN from + 1 ELSE v.out[1][1]))

NonBufferedParts(v, r, from) ==
    Continuous1([Out(v, r.out) EXCEPT !.ctx = r.x, !.length = IF r.rc = "done" THEN 0 ELSE @,
                                      !.keepalive = IF r.rc = "done" THEN ~v.close ELSE @,
                                      !.rc = IF r.rc = "invalid" THEN "error" ELSE @], from)
ngx_http_proxy_non_buffered_chunked_filter(v, from) ==
    NonBufferedParts(v, Parts(v.ctx, v.raw, from, <<>>), from)

NonBufferedFilter(v, from) ==
    CASE Gateway # "proxy" -> ngx_http_upstream_non_buffered_filter(v, from)
      [] Gateway = "proxy" /\ v.chunked -> ngx_http_proxy_non_buffered_chunked_filter(v, from)
      [] OTHER -> ngx_http_proxy_non_buffered_copy_filter(v, from)

-----------------------------------------------------------------------------
(* The end of the request *)

\* Mutant of Ended: a closed connection is the end
EndedEof(v) ==
    CASE v.rc = "error" -> [v EXCEPT !.phase = "error"]
      [] v.rc # "error" /\ Mode = "buffered" /\ (v.done \/ v.eof) -> [v EXCEPT !.phase = "ok", !.cached = TRUE]
      [] v.rc # "error" /\ Mode = "unbuffered" /\ (v.length = 0 \/ v.eof) -> [v EXCEPT !.phase = "ok"]
      [] v.rc # "error" /\ Mode = "memory" /\ (v.length = 0 \/ v.eof) -> [v EXCEPT !.phase = "ok"]
      [] OTHER -> v

Buffered(v) ==
    IF v.done THEN [v EXCEPT !.phase = "ok", !.cached = TRUE]
    ELSE IF ~v.eof THEN v
    ELSE [v EXCEPT !.phase = IF v.length = -1 THEN "ok" ELSE "error",
                   !.cached = v.length = -1 /\ v.cl \in {-1, Len(v.body)}]
Unbuffered(v) ==
    IF v.length = 0 \/ (v.eof /\ v.length = -1) THEN [v EXCEPT !.phase = "ok"]
    ELSE IF v.eof THEN [v EXCEPT !.phase = "error"] ELSE v
InMemoryEnded(v) == IF v.length = 0 \/ v.eof THEN [v EXCEPT !.phase = "ok"] ELSE v

Ended(v) ==
    IF v.rc = "error" THEN [v EXCEPT !.phase = "error"]
    ELSE CASE Mode = "buffered" -> Buffered(v)
           [] Mode = "unbuffered" -> Unbuffered(v)
           [] Mode = "memory" -> InMemoryEnded(v)

\* Bytes of the body that were read with the header
Preread(v) ==
    CASE Mode = "buffered" -> ngx_event_pipe_read_upstream(v)
      [] Mode # "buffered" /\ v.raw # <<>> -> NonBufferedFilter(v, 0)
      [] OTHER -> v
SendResponse(v) ==
    Ended(Preread(FilterInit([v EXCEPT !.phase = "body", !.rc = "", !.raw = SubSeq(v.buf, v.pos, Len(v.buf)),
                                       !.room = Size - Len(v.buf), !.buf = <<>>, !.pos = 1])))

-----------------------------------------------------------------------------

Start == [buf |-> <<>>, pos |-> 1, phase |-> "header", process |-> "status", state |-> "start", rc |-> "",
          ver |-> 0, code |-> 0, name |-> 0, value |-> 0, cl |-> -1, close |-> FALSE, chunked |-> FALSE,
          cgi |-> 0, location |-> FALSE, keepalive |-> FALSE, length |-> -1, ctx |-> C!Ctx0,
          raw |-> <<>>, out |-> <<>>, body |-> <<>>, room |-> 0, done |-> FALSE, eof |-> FALSE, cached |-> FALSE]

Init == /\ \E r \in Responses, cr \in Crs :
             /\ want = [r EXCEPT !.cr = cr]
             /\ stream = Tokens([r EXCEPT !.cr = cr])
        /\ u = Start

AtMost(n, k) == IF n <= k THEN n ELSE k

HeaderRead(v) ==
    CASE v.rc = "again" -> IF Len(v.buf) = Size THEN [v EXCEPT !.phase = "toobig"] ELSE [v EXCEPT !.rc = ""]
      [] v.rc = "invalid" -> [v EXCEPT !.phase = "invalid"]
      [] v.rc = "done" -> SendResponse(v)

\* A read of ngx_http_upstream_process_header()
ReadHeader(n) ==
    /\ u.phase = "header" /\ stream # <<>>
    /\ \E m \in {AtMost(AtMost(n, Len(stream)), Size - Len(u.buf))} :
         /\ stream' = SubSeq(stream, m + 1, Len(stream))
         /\ u' = HeaderRead(ProcessHeader([u EXCEPT !.buf = @ \o SubSeq(stream, 1, m)]))
    /\ UNCHANGED want

\* A read of the body
ReadBody(n) ==
    /\ u.phase = "body" /\ stream # <<>>
    /\ \E m \in {AtMost(AtMost(n, Len(stream)), IF Mode = "unbuffered" THEN n ELSE u.room)} :
         IF m = 0 THEN u' = [u EXCEPT !.phase = "small"] /\ UNCHANGED stream
         ELSE /\ stream' = SubSeq(stream, m + 1, Len(stream))
              /\ u' = IF Mode = "buffered"
                      THEN Ended(ngx_event_pipe_read_upstream([u EXCEPT !.raw = @ \o SubSeq(stream, 1, m), !.room = @ - m]))
                      ELSE \* the room of a subrequest is what its parts leave of it
                           LET v == NonBufferedFilter([u EXCEPT !.raw = @ \o SubSeq(stream, 1, m)], Len(u.raw))
                           IN Ended([v EXCEPT !.room = @ + Len(u.raw) - Len(v.raw)])
    /\ UNCHANGED want

\* The connection is closed, by a correct server or by one that dies
Eof ==
    /\ u.phase \in {"header", "body"}
    /\ stream' = <<>> /\ want' = [want EXCEPT !.died = stream # <<>>]
    /\ u' = IF u.phase = "header" THEN [u EXCEPT !.phase = "next", !.eof = TRUE]
            ELSE IF Mode = "buffered" THEN Ended(ngx_event_pipe_read_upstream([u EXCEPT !.eof = TRUE]))
            ELSE Ended([u EXCEPT !.eof = TRUE])

Next == (\E n \in Chunks : ReadHeader(n) \/ ReadBody(n)) \/ Eof
Spec == Init /\ [][Next]_vars

-----------------------------------------------------------------------------
(* What the response says *)

Parsed == u.phase \in {"body", "ok", "error"}
ExpectedCode == IF want.ver = 9 THEN 0 ELSE IF want.code > 0 THEN want.code
                ELSE IF want.status > 0 THEN want.status ELSE IF want.location THEN 302 ELSE 200
ExpectedClose == want.conn \/ want.ver < 11

\* However the header is cut into reads, the status, the length, the encoding and
\* the wish to close are those the server sent, and a correct header is accepted
\* when it fits.  (process_status_line(), process_header())
HeaderExact ==
    /\ u.phase # "invalid"
    /\ Parsed => /\ u.code = ExpectedCode
                 /\ u.chunked = (want.body \in {"chunk", "chunks", "nochunk"})
                 /\ ~u.chunked \/ Gateway # "proxy" => u.cl = want.length
                 /\ Gateway = "proxy" => u.close = ExpectedClose

\* The bytes of the body that have been passed on.
Got == IF Mode = "memory" THEN Bits(u.out, u.raw) ELSE u.body

\* Whether the end of the body can be told from the end of the connection.
Delimited == want.ver # 9 /\ Gateway = "proxy" /\ (want.body # "close" \/ NoBody(u))

\* What is passed on is the body from its start, and a request that ends well has
\* passed all of it on: a connection closed early is an error wherever the
\* response says how long it is.  (input_filter_init(), the filters)
BodyExact ==
    /\ IsPrefix(Got, Payload(want))
    /\ u.phase = "ok" /\ (want.died => Delimited /\ Mode # "memory") => Got = Payload(want)

\* The cache keeps a whole body or none, also for the modules whose pipe reads to
\* the end of the connection.  (ngx_http_upstream_process_request())
CacheExact ==
    u.cached /\ (want.died => want.length >= 0 \/ want.body # "close") => u.body = Payload(want)

\* The connection is left to the next request when the response has been read to
\* its last byte and the server keeps it, and in every such case.
\* (u->keepalive)
KeepExact ==
    /\ u.keepalive => stream = <<>>
    /\ u.phase = "ok" /\ ~u.eof => (u.keepalive = (Gateway = "proxy" /\ ~ExpectedClose))

\* The pipe never waits for more bytes than the response still has: on a
\* connection that is kept it would wait until it times out.  (p->length)
Minimal ==
    u.phase = "body" /\ Mode = "buffered" /\ ~want.died /\ u.length > 0
        => Len(u.raw) + Len(stream) >= u.length

\* A subrequest in memory has its body in one piece, without gaps.
Continuous ==
    Mode = "memory" => /\ \A k \in 2 .. Len(u.out) : u.out[k][1] = u.out[k-1][2] + 1
                       /\ u.out # <<>> => Len(u.raw) = u.out[Len(u.out)][2]

=============================================================================
