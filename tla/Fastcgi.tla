------------------------------ MODULE Fastcgi -------------------------------
(***************************************************************************)
(* The FastCGI protocol: the records of a request and those of a response. *)
(***************************************************************************)
EXTENDS Integers, Sequences, SequencesExt, FiniteSets

(***************************************************************************)
(* How the FastCGI module writes a request                                 *)
(* (src/http/modules/ngx_http_fastcgi_module.c): the parameters and the    *)
(* header of the client in one PARAMS record, and the body in STDIN        *)
(* records of at most RecMax bytes (32K).  A body that is not buffered goes   *)
(* through an output filter piece by piece, whose buffers are used again.  *)
(*                                                                         *)
(* What is written is a sequence of tokens: the eight bytes before a       *)
(* record, bytes, and, in the parameters, bytes of a length and the data   *)
(* that length is of.                                                      *)
(***************************************************************************)

CONSTANTS KeyLens,      \* lengths of the names of parameters and header lines
          ValLens,      \* lengths of their values
          NParams,      \* the number of fastcgi_param directives
          NHeaders,     \* the number of lines in the header of the client
          Sizes,        \* sizes of the pieces of the body
          NPieces,      \* the number of pieces
          MaxBufs,      \* no call of the filter when it has more buffers than that
          RecMax,          \* the data of a record
          Unbuffered,   \* r->request_body_no_buffering
          PassBody,     \* fastcgi_pass_request_body
          PassHeaders   \* fastcgi_pass_request_headers

VARIABLE s

PARAMS == 4

STDIN == 5

\* The tokens.
H(t, len, pad) == [k |-> "header", t |-> t, a |-> len, b |-> pad]

Byte(v) == [k |-> "byte", t |-> 0, a |-> v, b |-> 0]

Blob(n) == [k |-> "data", t |-> 0, a |-> n, b |-> 0]

ReqPads(n) == [j \in 1..n |-> [k |-> "pad", t |-> 0, a |-> 0, b |-> 0]]

BytesOf(tok) == CASE tok.k = "header" -> 8 [] tok.k = "data" -> tok.a [] OTHER -> 1

RECURSIVE Total(_)

Total(toks) == IF toks = <<>> THEN 0 ELSE BytesOf(Head(toks)) + Total(Tail(toks))

ReqPadding(len) == (8 - (len % 8)) % 8

-----------------------------------------------------------------------------

(* The parameters.  A parameter is [key, val, skip], skip for "if_not_empty"; *)
(* a line of the client's header is [key, val, given]: given when a parameter *)
(* of the configuration has its name.                                        *)

LenSize(n) == IF n > 127 THEN 4 ELSE 1

LenBytes(n) ==
    IF n > 127
    THEN <<Byte(((n \div 2^24) % 128) + 128), Byte((n \div 2^16) % 256), Byte((n \div 2^8) % 256), Byte(n % 256)>>
    ELSE <<Byte(n)>>

RECURSIVE ParamsLen(_)

ParamsLen(ps) ==
    IF ps = <<>> THEN 0
    ELSE (IF Head(ps).skip /\ Head(ps).val = 0 THEN 0
          ELSE 1 + Head(ps).key + LenSize(Head(ps).val) + Head(ps).val) + ParamsLen(Tail(ps))

ParamTokens(p) ==
    IF p.skip /\ p.val = 0 THEN <<>>
    ELSE <<Byte(p.key % 256)>> \o LenBytes(p.val) \o <<Blob(p.key), Blob(p.val)>>

RECURSIVE HeadersLen(_)

HeadersLen(hs) ==
    IF hs = <<>> THEN 0
    ELSE (IF Head(hs).given THEN 0
          ELSE LenSize(Head(hs).key + 5) + LenSize(Head(hs).val) + Head(hs).key + 5 + Head(hs).val)
         + HeadersLen(Tail(hs))

HeaderTokens(h) ==
    IF h.given THEN <<>>
    ELSE LenBytes(h.key + 5) \o LenBytes(h.val) \o <<Blob(h.key + 5), Blob(h.val)>>

\* The first of ngx_http_fastcgi_create_request(): everything before the body.
Params(ps, hs) ==
    LET len == ParamsLen(ps) + IF PassHeaders THEN HeadersLen(hs) ELSE 0
        toks == FlattenSeq([k \in DOMAIN ps |-> ParamTokens(ps[k])])
                \o IF PassHeaders THEN FlattenSeq([k \in DOMAIN hs |-> HeaderTokens(hs[k])]) ELSE <<>>
    IN IF len > 65535 THEN [ok |-> FALSE, len |-> len, toks |-> <<>>]
       ELSE [ok |-> TRUE, len |-> len,
             toks |-> <<H(PARAMS, len, ReqPadding(len))>> \o toks \o ReqPads(ReqPadding(len)) \o <<H(PARAMS, 0, 0)>>]

-----------------------------------------------------------------------------

(* The body of a buffered request: the rest of create_request().  `out` is   *)
(* the chain, a sequence of [room, toks]: a buffer and its size.             *)

ReqPut(out, toks) == [out EXCEPT ![Len(out)].toks = @ \o toks]

PadBuffer(pad) == [room |-> 8 + pad, toks |-> ReqPads(pad)]

RECURSIVE BodyRecords(_, _)

BodyRecords(out, data) ==
    LET n == IF Len(data) > RecMax THEN RecMax ELSE Len(data)
        next == ReqPut(out, <<H(STDIN, n, ReqPadding(n))>>)
                \o <<[room |-> n, toks |-> SubSeq(data, 1, n)], PadBuffer(ReqPadding(n))>>
    IN IF n = Len(data) THEN next ELSE BodyRecords(next, SubSeq(data, n + 1, Len(data)))

RECURSIVE Bodies(_, _)

Bodies(out, body) ==
    IF body = <<>> THEN out
    ELSE IF Head(body) = <<>> THEN Bodies(out, Tail(body))
    ELSE Bodies(BodyRecords(out, Head(body)), Tail(body))

\* p is the result of Params.
ngx_http_fastcgi_create_request(p, body) ==
    LET first == <<[room |-> p.len + ReqPadding(p.len) + 24, toks |-> p.toks]>>
    IN IF Unbuffered THEN first
       ELSE ReqPut(IF PassBody THEN Bodies(first, body) ELSE first, <<H(STDIN, 0, 0)>>)

-----------------------------------------------------------------------------

(* The buffers of the output filter.  A buffer is [mem, toks, shadow, last,  *)
(* temp, sync, lastbuf, used]: whether it has memory of its own, what is      *)
(* between pos and last, the piece it is of, whether it is the last part of  *)
(* it, and how far behind its start its end is.                              *)

NewBuf == [mem |-> FALSE, toks |-> <<>>, shadow |-> 0, last |-> FALSE, temp |-> FALSE,
           sync |-> FALSE, lastbuf |-> FALSE, own |-> TRUE, used |-> 0]

\* ngx_chain_get_free_buf(); the buffer is x.id.
GetFree(x) ==
    IF x.free # <<>> THEN [x EXCEPT !.free = Tail(@), !.id = Head(x.free)]
    ELSE [x EXCEPT !.bufs = Append(@, NewBuf), !.id = Len(x.bufs) + 1]

Fill(x, toks) == [x EXCEPT !.bufs[x.id] = [@ EXCEPT !.mem = TRUE, !.temp = TRUE, !.toks = @ \o toks,
                                                     !.used = @ + Total(toks)],
                           !.out = Append(@, x.id)]

Write(x, toks) == [x EXCEPT !.bufs[x.out[Len(x.out)]] = [@ EXCEPT !.toks = @ \o toks, !.used = @ + Total(toks)]]

\* A copy of the piece's buffer, keeping the memory of its own.
DataBuf(x, piece, toks, next) ==
    [x EXCEPT !.bufs[x.id] = [NewBuf EXCEPT !.mem = x.bufs[x.id].mem, !.toks = toks, !.temp = TRUE,
                                            !.shadow = piece, !.last = next],
              !.out = Append(@, x.id)]

RECURSIVE PieceRecords(_, _, _, _)

PieceRecords(x, piece, data, n) ==
    LET m == IF n > RecMax THEN RecMax ELSE n
        y == Fill(GetFree(DataBuf(GetFree(Write(x, <<H(STDIN, m, ReqPadding(m))>>)), piece,
                                  SubSeq(data, 1, m), m = n)), ReqPads(ReqPadding(m)))
        z == [y EXCEPT !.pad = ReqPadding(m)]
    IN IF m = n THEN z ELSE PieceRecords(z, piece, SubSeq(data, m + 1, n), n - m)

RECURSIVE Pieces(_, _)

\* `in` is a sequence of [piece, last]: a piece of the body, 0 for a special buffer.
Pieces(x, in) ==
    IF in = <<>> THEN x
    ELSE LET y == [x EXCEPT !.seen = @ \/ Head(in).last]
         IN Pieces(IF Head(in).piece = 0 THEN y
                   ELSE PieceRecords(y, Head(in).piece, y.orig[Head(in).piece].data,
                                     Len(y.orig[Head(in).piece].data)),
                   Tail(in))

EndOfCall(x) ==
    IF x.seen THEN [Write(x, <<H(STDIN, 0, 0)>>) EXCEPT !.bufs[x.out[Len(x.out)]].lastbuf = TRUE]
    ELSE IF x.pad = 0 THEN [x EXCEPT !.bufs[x.out[Len(x.out)]] = [@ EXCEPT !.temp = FALSE, !.sync = TRUE]]
    ELSE x

Special(b) == (b.sync \/ b.lastbuf) /\ ~b.temp

\* ngx_chain_writer(): n of the tokens that wait are sent.
RECURSIVE SendTokens(_, _)

SendTokens(x, n) ==
    IF x.writer = <<>> THEN x
    ELSE LET b == x.bufs[Head(x.writer)]
         IN IF b.toks = <<>> THEN SendTokens([x EXCEPT !.writer = Tail(@)], n)
            ELSE IF n = 0 THEN x
            ELSE SendTokens([x EXCEPT !.bufs[Head(x.writer)].toks = Tail(@), !.wire = Append(@, Head(b.toks))], n - 1)

Waiting(x) == Len(FlattenSeq([k \in DOMAIN x.writer |-> x.bufs[x.writer[k]].toks]))

\* A buffer that is empty and not special is "zero size buf in chain writer".
ngx_chain_writer(x) ==
    LET empty(id) == x.bufs[id].toks = <<>> /\ ~Special(x.bufs[id])
    IN [x EXCEPT !.alert = @ \/ \E k \in DOMAIN x.out : empty(x.out[k]),
                 !.writer = @ \o SelectSeq(x.out, LAMBDA id : ~empty(id))]

\* What ngx_chain_update_chains() does to a buffer: its position and end are its start.
Freed(b) == [b EXCEPT !.toks = <<>>, !.used = 0]

RECURSIVE ngx_chain_update_chains(_)

ngx_chain_update_chains(x) ==
    IF x.busy = <<>> \/ x.bufs[Head(x.busy)].toks # <<>> THEN x
    ELSE LET id == Head(x.busy)
         IN ngx_chain_update_chains(
              IF x.bufs[id].own
              THEN [x EXCEPT !.busy = Tail(@), !.free = <<id>> \o @, !.bufs[id] = Freed(@)]
              ELSE [x EXCEPT !.busy = Tail(@)])

\* The end of the filter: the pieces whose last part is free are marked as sent.
Marked(x) ==
    LET done == {x.bufs[id].shadow : id \in {j \in ToSet(x.free) : x.bufs[j].last /\ x.bufs[j].shadow # 0}}
    IN [x EXCEPT !.orig = [k \in DOMAIN @ |-> IF k \in done THEN [@[k] EXCEPT !.sent = TRUE] ELSE @[k]],
                 !.bufs = [id \in DOMAIN @ |-> IF id \in ToSet(x.free) THEN [@[id] EXCEPT !.shadow = 0] ELSE @[id]]]

\* The header of the request is the first buffer and is passed on as it is.
HeaderPassed(x) ==
    IF x.header_sent THEN x
    ELSE [x EXCEPT !.header_sent = TRUE, !.bufs = Append(@, [NewBuf EXCEPT !.toks = <<H(PARAMS, 0, 0)>>,
                                                                            !.temp = TRUE, !.own = FALSE]),
                   !.out = <<Len(x.bufs) + 1>>]

\* What a call puts into `out`.
Framed(x, in) ==
    IF in = <<>> THEN x ELSE EndOfCall(Pieces(Fill(GetFree([x EXCEPT !.pad = 0]), <<>>), in))

\* n tokens can be sent during the call.
ngx_http_fastcgi_body_output_filter(x, in, n) ==
    LET y == ngx_chain_writer(Framed(HeaderPassed(x), in))
        z == SendTokens(y, n)
    IN Marked(ngx_chain_update_chains([z EXCEPT !.busy = @ \o z.out, !.out = <<>>, !.id = 0, !.pad = 0]))

-----------------------------------------------------------------------------

ReqData(from, n) == [j \in 1..n |-> Byte(from + j)]

ReqInit ==
       \E ps \in [1..NParams -> [key : KeyLens, val : ValLens, skip : BOOLEAN]] :
       \E hs \in [1..NHeaders -> [key : KeyLens, val : ValLens, given : BOOLEAN]] :
       \E b \in UNION {[1..n -> Sizes \cup {0}] : n \in IF Unbuffered THEN {0} ELSE 0..NPieces} :
         s = [ps |-> ps, hs |-> hs, body |-> [k \in DOMAIN b |-> ReqData(10 * k, b[k])], chain |-> <<>>, ok |-> TRUE,
              bufs |-> <<>>, free |-> <<>>, busy |-> <<>>, out |-> <<>>, id |-> 0, pad |-> 0,
              writer |-> <<>>, wire |-> <<>>, orig |-> <<>>, seen |-> FALSE,
              header_sent |-> FALSE, alert |-> FALSE, created |-> FALSE]

Create ==
    /\ ~s.created
    /\ \E p \in {Params(s.ps, s.hs)} :
         s' = [s EXCEPT !.created = TRUE, !.ok = p.ok,
                        !.chain = IF p.ok THEN ngx_http_fastcgi_create_request(p, s.body) ELSE <<>>]

\* Pieces of a body that is not buffered: at most two at a time, the last of them marked, or
\* followed by a special buffer that is.
Next2(n) == [j \in 1..Len(n) |-> [data |-> ReqData(10 * (Len(s.orig) + j), n[j]), sent |-> FALSE]]

In(x, n, last, special) ==
    [j \in 1..Len(n) |-> [piece |-> x + j, last |-> last /\ ~special /\ j = Len(n)]]
    \o IF special THEN <<[piece |-> 0, last |-> last]>> ELSE <<>>

ReqFilter(n, last, special) ==
       /\ s.created /\ s.ok /\ Unbuffered /\ ~s.seen /\ Len(s.bufs) <= MaxBufs
       /\ Len(s.orig) + Len(n) <= NPieces /\ (n = <<>> => special)
       /\ \E x \in {[s EXCEPT !.orig = @ \o Next2(n)]} :
          \E y \in {ngx_chain_writer(Framed(HeaderPassed(x), In(Len(s.orig), n, last, special)))} :
          \E k \in {0, 3, Waiting(y)} :
            /\ k <= Waiting(y)
            /\ s' = ngx_http_fastcgi_body_output_filter(x, In(Len(s.orig), n, last, special), k)

\* The connection can be written to again.
Flush ==
    /\ s.header_sent /\ s.writer # <<>>
    /\ \E k \in {5, Waiting(s)} :
         k <= Waiting(s) /\ s' = ngx_http_fastcgi_body_output_filter(s, <<>>, k)

ReqNext ==
       \/ Create
       \/ \E n \in UNION {[1..k -> Sizes] : k \in 0..2}, last, special \in BOOLEAN : ReqFilter(n, last, special)
       \/ Flush

ReqSpec == ReqInit /\ [][ReqNext]_s

-----------------------------------------------------------------------------

RECURSIVE Stdin(_)

\* The data of the STDIN records at the start of `toks` up to where it ends; [ok, data, end].
Stdin(toks) ==
    IF toks = <<>> THEN [ok |-> TRUE, data |-> <<>>, end |-> FALSE]
    ELSE LET h == Head(toks)
             d == SubSeq(toks, 2, IF h.a + 1 <= Len(toks) THEN h.a + 1 ELSE Len(toks))
             p == SubSeq(toks, h.a + 2, IF h.a + h.b + 1 <= Len(toks) THEN h.a + h.b + 1 ELSE Len(toks))
             r == Stdin(SubSeq(toks, h.a + h.b + 2, Len(toks)))
         IN IF h.k # "header" \/ h.t # STDIN \/ h.a > RecMax \/ (\E j \in DOMAIN d : d[j].k # "byte")
               \/ (\E j \in DOMAIN p : p[j].k # "pad") \/ (h.a + h.b) % 8 # 0
            THEN [ok |-> FALSE, data |-> <<>>, end |-> FALSE]
            ELSE IF h.a = 0 THEN [ok |-> Len(toks) = 1, data |-> <<>>, end |-> TRUE]
            ELSE [ok |-> r.ok, data |-> d \o r.data, end |-> r.end]

\* What was sent to the server is the header and then records that hold the body in order,
\* padded to multiples of eight; the empty record ends it when the body has ended.
RecordsExact ==
    LET body == FlattenSeq([k \in DOMAIN s.orig |-> s.orig[k].data])
        r == Stdin(Tail(s.wire))
    IN s.wire # <<>> => /\ Head(s.wire) = H(PARAMS, 0, 0)
                        /\ r.ok /\ IsPrefix(r.data, body)
                        /\ (s.writer = <<>> => r.data = body /\ (r.end <=> s.seen))

\* A piece of the body is marked as sent, so that its buffer can be read into again, only
\* when all of it has been written to the server; all are when nothing waits.
MarkedSent ==
    \A k \in DOMAIN s.orig :
        /\ s.orig[k].sent => ToSet(s.orig[k].data) \subseteq ToSet(s.wire)
        /\ s.writer = <<>> => s.orig[k].sent

\* "zero size buf in chain writer" is never logged.
NoZeroSize == ~s.alert

\* A buffer of the filter has the 15 bytes reserved for padding and a header, and no more.
RoomForHeader ==
    \A id \in DOMAIN s.bufs : s.bufs[id].own => s.bufs[id].used <= 15

\* Each buffer of a buffered request holds what was put into it.
RoomKept == \A k \in DOMAIN s.chain : Total(s.chain[k].toks) <= s.chain[k].room

RECURSIVE Pairs(_)

\* The pairs a server reads from the tokens of the parameters.
LenAt(t, i) == IF t[i].a > 127 THEN ((t[i].a % 128) * 2^24) + (t[i+1].a * 2^16) + (t[i+2].a * 2^8) + t[i+3].a
               ELSE t[i].a

Width(t, i) == IF t[i].a > 127 THEN 4 ELSE 1

Pairs(t) ==
    IF t = <<>> THEN <<>>
    ELSE LET w == Width(t, 1)
             v == w + Width(t, w + 1)
         IN IF t[v+1].a = LenAt(t, 1) /\ t[v+2].a = LenAt(t, w + 1)
            THEN <<<<t[v+1].a, t[v+2].a>>>> \o Pairs(SubSeq(t, v + 3, Len(t)))
            ELSE <<<<-1, -1>>>>

\* The parameters are those configured, but for empty ones that are to be left out, and the
\* lines of the client's header no parameter replaces; the record has the length it says.
ParamsExact ==
    s.created /\ s.ok =>
        LET p == Params(s.ps, s.hs)
            toks == SelectSeq(p.toks, LAMBDA t : t.k \in {"byte", "data"})
            ps == SelectSeq(s.ps, LAMBDA x : ~(x.skip /\ x.val = 0))
            hs == SelectSeq(s.hs, LAMBDA x : PassHeaders /\ ~x.given)
        IN /\ Pairs(toks) = [k \in DOMAIN ps |-> <<ps[k].key, ps[k].val>>]
                            \o [k \in DOMAIN hs |-> <<hs[k].key + 5, hs[k].val>>]
           /\ p.toks[1].a = Total(toks)
           /\ Total(p.toks) = p.len + ReqPadding(p.len) + 16

\* The body of a buffered request is cut into records like that of one that is not.
BufferedExact ==
    s.created /\ s.ok /\ ~Unbuffered =>
        LET all == FlattenSeq([k \in DOMAIN s.chain |-> s.chain[k].toks])
            from == Len(Params(s.ps, s.hs).toks)
            r == Stdin(SubSeq(all, from + 1, Len(all)))
        IN /\ r.ok /\ r.end
           /\ r.data = IF PassBody THEN FlattenSeq(s.body) ELSE <<>>

-----------------------------------------------------------------------------

(***************************************************************************)
(* How the FastCGI module takes a response apart: the records of the       *)
(* server (src/http/modules/ngx_http_fastcgi_module.c) carry the header    *)
(* and the body of the response in pieces that have nothing to do with the *)
(* lines of the header, error output and padding come between them, and    *)
(* the bytes arrive in reads that have nothing to do with either.          *)
(*                                                                         *)
(* The stream is made of bytes.  A response is a list of records           *)
(* [t, data, pad]; a line of the header ends with LF (10), possibly with   *)
(* CR (13) before it.                                                      *)
(***************************************************************************)

CONSTANTS Texts,     \* the names of the responses, see Text
          RespPads,      \* padding lengths
          Errs,      \* error output: lengths of the record of it, 0 for none
          Catch,     \* length of the fastcgi_catch_stderr pattern, 0 for none
          Chunks,    \* sizes of reads
          Split,     \* whether a read may end between the bytes before a record
          Size,      \* fastcgi_buffer_size
          PipeSize,  \* the size of a buffer of the pipe
          HS,        \* r->cache->header_start, or 0 without a cache
          KeepConn,  \* fastcgi_keep_conn
          Mode,      \* "buffered", "unbuffered" or "memory" (a subrequest in memory)
          Tails      \* numbers of bytes the server sends behind the end

VARIABLES stream,    \* the bytes not read yet
          want,      \* what the server meant
          f,         \* ngx_http_fastcgi_ctx_t
          u          \* the upstream

respVars == <<stream, want, f, u>>

LF == 10

CR == 13

STDOUT == 6

STDERR == 7

END == 3

Status == 83

Location == 76

\* The responses: the bytes of the header, its lines without their ends, the status.
Text == [short  |-> [head |-> <<97, LF, LF>>, lines |-> <<<<97>>>>, status |-> 200],
         lines  |-> [head |-> <<97, 97, CR, LF, 98, LF, CR, LF>>, lines |-> <<<<97, 97>>, <<98>>>>, status |-> 200],
         moved  |-> [head |-> <<Location, LF, CR, LF>>, lines |-> <<<<Location>>>>, status |-> 302],
         status |-> [head |-> <<Location, LF, Status, 52, LF, LF>>, lines |-> <<<<Location>>, <<Status, 52>>>>,
                     status |-> 52]]

Body == <<120, 121>>

All(t) == Text[t].head \o Body

Record(t, data, pad) == <<1, t, 0, 1, 0, Len(data), pad, 0>> \o data \o [k \in 1..pad |-> 0]

-----------------------------------------------------------------------------

(* ngx_http_fastcgi_process_record(): the eight bytes before a record.       *)

\* The states version, type, id, length and padding length are 0 to 7.
RespData == 8

RespPadding == 9

Fresh == [state |-> 0, type |-> 0, length |-> 0, padding |-> 0, stdout |-> FALSE, large |-> FALSE,
          parts |-> <<>>, line |-> "start", rc |-> ""]

HeaderByte(x, ch) ==
    CASE x.state = 0 -> IF ch = 1 THEN x ELSE [x EXCEPT !.rc = "error"]
      [] x.state = 1 -> IF ch \in {STDOUT, STDERR, END} THEN [x EXCEPT !.type = ch]
                        ELSE [x EXCEPT !.rc = "error"]
      [] x.state = 2 -> IF ch = 0 THEN x ELSE [x EXCEPT !.rc = "error"]
      [] x.state = 3 -> IF ch = 1 THEN x ELSE [x EXCEPT !.rc = "error"]
      [] x.state = 4 -> [x EXCEPT !.length = 256 * ch]
      [] x.state = 5 -> [x EXCEPT !.length = @ + ch]
      [] x.state = 6 -> [x EXCEPT !.padding = ch]
      [] x.state = 7 -> x

RECURSIVE Bytes(_, _, _)

\* x is the result of HeaderByte for the byte at pos.
ByteDone(x, buf, pos) ==
    IF x.rc # "" THEN [f |-> x, pos |-> pos]
    ELSE IF x.state = RespData - 1 THEN [f |-> [x EXCEPT !.state = RespData], pos |-> pos + 1]
    ELSE Bytes([x EXCEPT !.state = @ + 1], buf, pos + 1)

\* The result is [f, pos]; f.rc is "again" when the bytes are not all there.
Bytes(x, buf, pos) ==
    IF pos > Len(buf) THEN [f |-> [x EXCEPT !.rc = "again"], pos |-> pos]
    ELSE ByteDone(HeaderByte(x, buf[pos]), buf, pos)

\* f->pos is set only behind the last of the eight bytes.
PosKept(r, pos) == [r EXCEPT !.pos = IF r.f.rc = "" THEN @ ELSE pos]

ngx_http_fastcgi_process_record(x, buf, pos) == PosKept(Bytes(x, buf, pos), pos)

-----------------------------------------------------------------------------

(* ngx_http_parse_header_line(), from how it is used here: one line.  The    *)
(* result is the state it stops in, the position behind and what it found.   *)

RECURSIVE ParseLine(_, _, _, _)

ParseLine(st, buf, pos, last) ==
    IF pos > last THEN [st |-> st, pos |-> pos, rc |-> "again"]
    ELSE IF buf[pos] = LF
    THEN [st |-> "start", pos |-> pos + 1, rc |-> IF st = "line" THEN "ok" ELSE "done"]
    ELSE IF st = "cr" THEN [st |-> st, pos |-> pos, rc |-> "invalid"]
    ELSE ParseLine(IF st = "start" /\ buf[pos] = CR THEN "cr" ELSE "line", buf, pos + 1, last)

Clean(t) == SelectSeq(t, LAMBDA ch : ch \notin {CR, LF})

\* A mutant: the parts of a line that other records carried are not joined.
JoinedLast(x, v, from) == Clean(SubSeq(v.buf, from, v.pos - 1))

\* The text of a line: the parts of it in earlier records and reads, and its end.
Joined(x, v, from) ==
    Clean(FlattenSeq([k \in DOMAIN x.parts |-> SubSeq(v.buf, x.parts[k][1], x.parts[k][2])])
          \o SubSeq(v.buf, from, v.pos - 1))

RECURSIVE Lines(_, _, _)

\* What ngx_http_parse_header_line() found from position `from` on.
LineDone(x, v, last, from, rc) ==
    CASE rc = "ok" /\ v.pos <= last -> Lines([x EXCEPT !.parts = <<>>],
                                             [v EXCEPT !.lines = Append(@, Joined(x, v, from))], last)
      [] rc = "ok" -> [f |-> [x EXCEPT !.parts = <<>>, !.rc = rc],
                       u |-> [v EXCEPT !.lines = Append(@, Joined(x, v, from))]]
      [] rc = "again" -> [f |-> [x EXCEPT !.parts = Append(@, <<from, last>>), !.rc = rc], u |-> v]
      [] OTHER -> [f |-> [x EXCEPT !.rc = rc], u |-> v]

LineParsed(x, v, last, r) ==
    LineDone([x EXCEPT !.line = r.st], [v EXCEPT !.pos = r.pos], last, v.pos, r.rc)

\* The inner loop of process_header(): the lines of one record's bytes up to `last`.
\* v is the upstream: its buffer, position and the lines found.
Lines(x, v, last) == LineParsed(x, v, last, ParseLine(x.line, v.buf, v.pos, last))

Left(v) == Len(v.buf) - v.pos + 1

Caught(n) == Catch > 0 /\ n >= Catch

\* n bytes of error output have been passed in process_header(); the buffer is used again
\* from its start when there is nothing else in it.
ErrorRead(x, v, n) ==
    IF Caught(n) THEN [f |-> [x EXCEPT !.rc = "invalid"], u |-> v]
    ELSE IF v.pos <= Len(v.buf) THEN [f |-> x, u |-> v]
    ELSE IF x.stdout THEN [f |-> [x EXCEPT !.rc = "again"], u |-> v]
    ELSE [f |-> [x EXCEPT !.large = TRUE, !.rc = "again"],
          u |-> [v EXCEPT !.buf = SubSeq(@, 1, HS), !.pos = HS + 1]]

ErrorOutput(x, v, n) ==
    IF x.length <= n
    THEN ErrorRead([x EXCEPT !.length = 0, !.state = RespPadding], [v EXCEPT !.pos = @ + x.length], x.length)
    ELSE ErrorRead([x EXCEPT !.length = @ - n], [v EXCEPT !.pos = @ + n], n)

\* With a cache, the tail of error output whose start was overwritten gets the bytes before
\* a record of its own, or is skipped when it is too short for them.
DummyHeader(v, len) ==
    IF len >= 0
    THEN [v EXCEPT !.buf = SubSeq(@, 1, v.start) \o <<1, STDERR, 0, 1, 0, len, 0, 0>>
                           \o SubSeq(@, v.start + 9, Len(@))]
    ELSE [v EXCEPT !.start = v.pos - 8 - 1]

CacheStart(x, v) == IF x.large /\ HS > 0 THEN DummyHeader(v, v.pos - (v.start + 1) - 16) ELSE v

\* The status of the response from its lines; 0 when it is not a number.
StatusOf(lines) ==
    LET k == SelectLastInSeq(lines, LAMBDA l : l # <<>> /\ l[1] = Status)
    IN IF k # 0 THEN IF Len(lines[k]) > 1 THEN lines[k][2] ELSE 0
       ELSE IF \E j \in DOMAIN lines : lines[j] # <<>> /\ lines[j][1] = Location THEN 302 ELSE 200

RECURSIVE HeaderData(_, _, _)

ngx_http_fastcgi_process_header(x, v) == HeaderData(x, v, Left(v))

\* The bytes before a record have been read, or not all of them.
HeaderRecord(x, v) ==
    IF x.rc # "" THEN [f |-> x, u |-> v]
    ELSE IF x.type = END \/ (x.type = STDOUT /\ x.length = 0) THEN [f |-> [x EXCEPT !.rc = "invalid"], u |-> v]
    ELSE HeaderData(x, v, Left(v))

Again(r) == IF r.f.rc # "" THEN r ELSE HeaderData(r.f, r.u, Left(r.u))

\* The lines in a record have been taken out of it; n bytes of it are left.
OutputLeft(x, v) ==
    CASE x.rc = "done" -> IF StatusOf(v.lines) = 0 THEN [f |-> [x EXCEPT !.rc = "invalid"], u |-> v]
                          ELSE [f |-> x, u |-> [v EXCEPT !.status = StatusOf(v.lines)]]
      [] x.rc = "again" /\ v.pos > Len(v.buf) -> [f |-> x, u |-> v]
      [] OTHER -> Again([f |-> [x EXCEPT !.rc = ""], u |-> v])

OutputRead(r, n) ==
    IF r.f.rc = "invalid" THEN r
    ELSE OutputLeft([r.f EXCEPT !.length = n, !.state = IF n = 0 THEN RespPadding ELSE @], r.u)

LinesRead(r, x, pos) == OutputRead(r, x.length - (r.u.pos - pos))

\* n bytes are left in the buffer.
HeaderData(x, v, n) ==
    IF x.state < RespData
    THEN LET r == ngx_http_fastcgi_process_record(x, v.buf, v.pos)
         IN HeaderRecord(r.f, [v EXCEPT !.pos = r.pos])
    ELSE IF x.state = RespPadding
    THEN Again([f |-> IF x.padding < n THEN [x EXCEPT !.state = 0]
                      ELSE IF x.padding = n THEN [x EXCEPT !.state = 0, !.rc = "again"]
                      ELSE [x EXCEPT !.padding = @ - n, !.rc = "again"],
                u |-> [v EXCEPT !.pos = @ + IF x.padding < n THEN x.padding ELSE n]])
    ELSE IF x.type = STDERR
    THEN IF x.length = 0 THEN Again([f |-> [x EXCEPT !.state = RespPadding], u |-> v])
         ELSE Again(ErrorOutput(x, v, n))
    ELSE LinesRead(Lines([x EXCEPT !.stdout = TRUE, !.large = FALSE], CacheStart(x, v),
                         IF x.length < n THEN v.pos + x.length - 1 ELSE Len(v.buf)), x, v.pos)

-----------------------------------------------------------------------------

(* The body: ngx_http_fastcgi_input_filter() with a buffer of the pipe, and  *)
(* ngx_http_fastcgi_non_buffered_filter() with the bytes just read.          *)

\* The end of the request has been read; `done` also stands for u->length = 0.
Ended(x, v, n) ==
    IF x.padding < n THEN [f |-> x, u |-> [v EXCEPT !.done = TRUE]]
    ELSE IF x.padding = n THEN [f |-> x, u |-> [v EXCEPT !.done = TRUE, !.keepalive = TRUE]]
    ELSE [f |-> [x EXCEPT !.padding = @ - n], u |-> v]

RECURSIVE RespFilter(_, _, _, _)

\* The bytes before a record have been read in the body, or not all of them.
FilterRecord(x, v, buf, pos) ==
    IF x.rc # "" THEN [f |-> x, u |-> v]
    ELSE IF x.type = STDOUT /\ x.length = 0
    THEN RespFilter([x EXCEPT !.state = RespPadding],
                    [v EXCEPT !.done = @ \/ (Mode = "buffered" /\ ~KeepConn)], buf, pos)
    ELSE IF Mode = "buffered" /\ x.type = END /\ ~KeepConn
    THEN [f |-> x, u |-> [v EXCEPT !.done = TRUE]]
    ELSE RespFilter(x, v, buf, pos)

\* n bytes are left.
FilterData(x, v, buf, pos, n) ==
    IF x.state = RespPadding
    THEN IF x.type = END THEN Ended(x, v, n)
         ELSE IF x.padding < n THEN RespFilter([x EXCEPT !.state = 0], v, buf, pos + x.padding)
         ELSE [f |-> IF x.padding = n THEN [x EXCEPT !.state = 0] ELSE [x EXCEPT !.padding = @ - n],
               u |-> v]
    ELSE IF x.type = STDERR /\ x.length = 0 THEN RespFilter([x EXCEPT !.state = RespPadding], v, buf, pos)
    ELSE IF x.type # END /\ n = 0 THEN [f |-> x, u |-> v]
    ELSE IF x.length <= n
    THEN RespFilter([x EXCEPT !.state = RespPadding, !.length = 0],
                    IF x.type = STDOUT THEN [v EXCEPT !.out = Append(@, <<pos, pos + x.length - 1>>)] ELSE v,
                    buf, pos + x.length)
    ELSE [f |-> [x EXCEPT !.length = @ - n],
          u |-> IF x.type = STDOUT THEN [v EXCEPT !.out = Append(@, <<pos, Len(buf)>>)] ELSE v]

\* One pass over the bytes buf from pos on; v.out collects what is passed on.
RespFilter(x, v, buf, pos) ==
        IF x.state < RespData
        THEN LET r == ngx_http_fastcgi_process_record(x, buf, pos)
             IN FilterRecord(r.f, v, buf, r.pos)
        ELSE FilterData(x, v, buf, pos, Len(buf) - pos + 1)

Bits(out, buf) == FlattenSeq([k \in DOMAIN out |-> SubSeq(buf, out[k][1], out[k][2])])

\* The end of input_filter(): the least number of bytes wanted, on a connection to keep.
Minimal(x) == IF x.state < RespData THEN 1 ELSE IF x.state = RespPadding THEN x.padding ELSE x.length

ngx_http_fastcgi_input_filter_init == IF KeepConn THEN 8 ELSE -1

Passed(r) ==
    [f |-> r.f, u |-> [r.u EXCEPT !.length = IF KeepConn THEN Minimal(r.f) ELSE -1,
                                  !.body = @ \o Bits(r.u.out, r.u.raw),
                                  !.raw = <<>>, !.out = <<>>, !.room = PipeSize]]

ngx_http_fastcgi_input_filter(x, v) ==
    IF v.raw = <<>> THEN [f |-> x, u |-> v] ELSE Passed(RespFilter(x, v, v.raw, 1))

RECURSIVE Moved(_, _, _)

\* A subrequest in memory: what is passed on is moved together from position `last` on.
MovedHead(buf, out, last, h, n) ==
    LET r == Moved([j \in DOMAIN buf |-> IF j \in last..(last + n - 1) THEN buf[h + j - last] ELSE buf[j]],
                   Tail(out), last + n)
    IN [buf |-> r.buf, out |-> <<<<last, last + n - 1>>>> \o r.out]

Moved(buf, out, last) ==
    IF out = <<>> THEN [buf |-> SubSeq(buf, 1, last - 1), out |-> <<>>]
    ELSE MovedHead(buf, out, last, out[1][1], out[1][2] - out[1][1] + 1)

InMemory(v, m) == [v EXCEPT !.raw = m.buf, !.out = m.out, !.body = Bits(m.out, m.buf)]

Passed2(r, from) ==
    [f |-> r.f,
     u |-> IF Mode = "unbuffered"
           THEN [r.u EXCEPT !.body = @ \o Bits(r.u.out, r.u.raw), !.raw = <<>>, !.out = <<>>]
           ELSE InMemory(r.u, Moved(r.u.raw, r.u.out, IF r.u.out = <<>> THEN from ELSE r.u.out[1][1]))]

\* v.raw is the buffer, from its first byte on; `from` is where the new bytes start.
ngx_http_fastcgi_non_buffered_filter(x, v, from) == Passed2(RespFilter(x, v, v.raw, from), from)

-----------------------------------------------------------------------------

\* A response: its text cut into records and one record of error output.
Streams ==
    {x \in [t : Texts, c : SUBSET (1..9), e : Errs, at : 0..3, p : RespPads, tail : Tails] :
        /\ Cardinality(x.c) <= 2 /\ \A k \in x.c : k < Len(All(x.t))
        /\ x.at <= Cardinality(x.c) + 1 /\ (x.e = 0 => x.at = 0)}

Cuts(x) == SetToSortSeq(x.c \cup {0, Len(All(x.t))}, <)

Outs(x, cuts) == [k \in 1..(Len(cuts) - 1) |->
                    Record(STDOUT, SubSeq(All(x.t), cuts[k] + 1, cuts[k+1]), x.p)]

Err(x) == IF x.e = 0 THEN <<>> ELSE Record(STDERR, [k \in 1..x.e |-> 101], x.p)

RespPut(x, outs) == FlattenSeq(SubSeq(outs, 1, x.at) \o <<Err(x)>> \o SubSeq(outs, x.at + 1, Len(outs)))

Sent(x) == RespPut(x, Outs(x, Cuts(x))) \o Record(STDOUT, <<>>, x.p) \o Record(END, <<0, 0>>, x.p)
           \o [k \in 1..x.tail |-> 1]

\* The error output comes before the end of the header.
Before(x) == x.e > 0 /\ Cuts(x)[x.at + 1] < Len(Text[x.t].head)

RespInit ==
        /\ \E x \in Streams :
             /\ stream = Sent(x)
             /\ want = [lines |-> Text[x.t].lines, status |-> Text[x.t].status, tail |-> x.tail,
                        caught |-> Catch > 0 /\ Before(x)]
        /\ f = Fresh
        /\ u = [buf |-> [k \in 1..HS |-> 0], pos |-> HS + 1, start |-> HS, lines |-> <<>>, status |-> 0,
                phase |-> "header", raw |-> <<>>, out |-> <<>>, body |-> <<>>, length |-> -1,
                room |-> 0, done |-> FALSE, keepalive |-> FALSE]

AtMost(n, k) == IF n <= k THEN n ELSE k

Preread(x, v) ==
    IF Mode = "buffered"
    THEN IF v.room = 0 \/ (v.length # -1 /\ Len(v.raw) >= v.length) THEN ngx_http_fastcgi_input_filter(x, v)
         ELSE [f |-> x, u |-> v]
    ELSE IF v.raw = <<>> THEN [f |-> x, u |-> v]
    ELSE ngx_http_fastcgi_non_buffered_filter(x, v, 1)

\* The header is complete: what was read behind it is the first of the body.
SendResponse(x, v) ==
    Preread(x, [v EXCEPT !.phase = "body", !.raw = SubSeq(v.buf, v.pos, Len(v.buf)),
                         !.room = Size - Len(v.buf), !.length = ngx_http_fastcgi_input_filter_init])

Took(r) ==
    /\ f' = [r.f EXCEPT !.rc = ""]
    /\ u' = IF r.f.rc \in {"error", "invalid"} THEN [r.u EXCEPT !.phase = "invalid"]
            ELSE IF r.f.rc = "again" /\ r.u.phase = "header" /\ Len(r.u.buf) = Size
            THEN [r.u EXCEPT !.phase = "toobig"] ELSE r.u

\* A read of ngx_http_upstream_process_header().
ReadHeader(n) ==
    /\ u.phase = "header" /\ stream # <<>>
    /\ \E m \in {AtMost(AtMost(n, Len(stream)), Size - Len(u.buf))} :
       \E r \in {ngx_http_fastcgi_process_header(f, [u EXCEPT !.buf = @ \o SubSeq(stream, 1, m)])} :
         /\ Split \/ r.f.rc # "again" \/ r.f.state \notin 1..7
         /\ stream' = SubSeq(stream, m + 1, Len(stream))
         /\ Took(IF r.f.rc = "done" THEN SendResponse([r.f EXCEPT !.rc = ""], r.u) ELSE r)
    /\ UNCHANGED want

\* A read of the body.  The pipe hands over a buffer that is full or that holds what the
\* module asked for.
BodyRead(v, from) ==
    IF Mode # "buffered" THEN ngx_http_fastcgi_non_buffered_filter(f, [v EXCEPT !.room = 0], from)
    ELSE IF v.room = 0 \/ (v.length # -1 /\ Len(v.raw) >= v.length)
    THEN ngx_http_fastcgi_input_filter(f, v)
    ELSE [f |-> f, u |-> v]

ReadBody(n) ==
    /\ u.phase = "body" /\ stream # <<>> /\ ~u.done /\ u.length # 0
    /\ \E m \in {AtMost(AtMost(n, Len(stream)), IF Mode = "buffered" THEN u.room ELSE n)} :
         /\ stream' = SubSeq(stream, m + 1, Len(stream))
         /\ Took(BodyRead([u EXCEPT !.raw = @ \o SubSeq(stream, 1, m), !.room = @ - m], Len(u.raw) + 1))
    /\ UNCHANGED want

\* The server closes the connection: the pipe hands over what it has.
Eof ==
    /\ u.phase = "body" /\ stream = <<>> /\ ~u.done /\ Mode = "buffered" /\ u.raw # <<>>
    /\ Took(ngx_http_fastcgi_input_filter(f, u))
    /\ UNCHANGED <<stream, want>>

RespNext == (\E n \in Chunks : ReadHeader(n) \/ ReadBody(n)) \/ Eof

RespSpec == RespInit /\ [][RespNext]_respVars

-----------------------------------------------------------------------------

\* The lines of the header are those the server wrote, whole and in order, however records
\* and reads cut them and whatever error output comes between; so is the status.
HeaderExact ==
    /\ IsPrefix(u.lines, want.lines)
    /\ u.phase = "body" => u.lines = want.lines /\ u.status = want.status

\* The body is the rest of the server's output, without the bytes before records, padding
\* and error output; it is complete when the end was seen or nothing is left to read.
BodyExact ==
    /\ IsPrefix(u.body, Body)
    /\ u.phase = "body" /\ (u.done \/ (stream = <<>> /\ (Mode = "buffered" => u.raw = <<>>)))
         => u.body = Body

\* A connection is kept only when the response was read to its last byte and no byte
\* behind it was; it is kept then, if it is to be.
KeepExact ==
    /\ u.keepalive => Len(stream) = want.tail
    /\ (KeepConn \/ Mode # "buffered") /\ u.phase = "body" /\ stream = <<>> /\ want.tail = 0
         => u.keepalive

\* With fastcgi_keep_conn the pipe goes on reading until the end of the request.
ReadsOn == KeepConn /\ u.phase = "body" /\ ~u.done => u.length > 0

\* fastcgi_catch_stderr: the response goes no further exactly when error output with the
\* pattern comes before the end of the header.
CatchExact == /\ want.caught => u.phase # "body"
              /\ u.phase = "invalid" => want.caught

\* What goes to the cache file can be read again: a fresh parser finds the same header in
\* the buffer from the start recorded for it.
CacheReadable ==
    u.phase = "body" =>
        LET r == ngx_http_fastcgi_process_header(Fresh, [u EXCEPT !.pos = u.start + 1, !.lines = <<>>])
        IN r.f.rc = "done" /\ r.u.lines = want.lines

\* "provide continuous buffer for subrequests in memory": what is passed on lies together.
Continuous ==
    Mode = "memory" => \A k \in DOMAIN u.out : k > 1 => u.out[k][1] = u.out[k-1][2] + 1

\* "upstream sent invalid FastCGI record type", "unsupported FastCGI protocol version" and
\* the like are said of a server that sent such a record.
InvalidTrue == u.phase # "invalid"
=============================================================================
