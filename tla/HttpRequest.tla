---------------------------- MODULE HttpRequest -----------------------------
(***************************************************************************)
(* How a request of HTTP/1 is read: the URI of the request line, the       *)
(* buffers of the header, and the body.                                    *)
(***************************************************************************)
EXTENDS Integers, Sequences, SequencesExt, FiniteSets, HttpChunked

(***************************************************************************)
(* The two parsers of a request URI (http/ngx_http_parse.c).  The request  *)
(* line parser only looks whether the URI needs work ("/.", "//", "%",     *)
(* "#") and notes its extension and arguments; ngx_http_parse_complex_uri  *)
(* normalises a URI that does into a buffer of its own, and                *)
(* ngx_http_process_request_uri decides by the flags of the first which    *)
(* result is used.  Input is a symbol at a time, so that every prefix is   *)
(* checked as a URI: plain characters, "a" for any usual one, and escapes  *)
(* as one symbol each: "q/", "q." (escaped slash and dot), "lit" (escaped  *)
(* "%", "#" or "?") and "bad" (a malformed escape or an escaped zero).     *)
(***************************************************************************)

CONSTANTS MaxLen,         \* bound: symbols of a URI
          Symbols,        \* the symbols used
          MergeSlashes    \* merge_slashes

VARIABLES in,    \* the URI so far
          line,     \* the request line parser
          u,     \* ngx_http_parse_uri, for a URI that comes without its line
          cplx      \* ngx_http_parse_complex_uri on the same input

uriVars == <<in, line, u, cplx>>

Escapes == {"q/", "q.", "lit", "bad"}

(* ext is 0 or the number of symbols before the extension; args likewise. *)
UriInit ==
       /\ in = <<"/">>
       /\ line = [state |-> "after_slash", complex |-> FALSE, quoted |-> FALSE,
                  ext |-> 0, args |-> 0]
       /\ u = line
       /\ cplx = [state |-> "slash", st |-> "run", out |-> <<"/">>, ext |-> 0]

-----------------------------------------------------------------------------

(* ngx_http_parse_request_line inside the URI; n symbols come before ch.   *)
FastUri(m, ch, n) ==
    CASE ch = "#" -> [m EXCEPT !.complex = TRUE]
      [] OTHER -> m

FastAfterSlash(m, ch, n) ==
    CASE ch \in {".", "/", "#"} -> [m EXCEPT !.complex = TRUE, !.state = "uri"]
      [] ch \in Escapes -> [m EXCEPT !.quoted = TRUE, !.state = "uri"]
      [] ch = "?" -> [m EXCEPT !.args = n + 1, !.state = "uri"]
      [] ch = "+" -> m
      [] OTHER -> [m EXCEPT !.state = "check"]

FastCheck(m, ch, n) ==
    CASE ch = "/" -> [m EXCEPT !.ext = 0, !.state = "after_slash"]
      [] ch = "." -> [m EXCEPT !.ext = n + 1]
      [] ch \in Escapes -> [m EXCEPT !.quoted = TRUE, !.state = "uri"]
      [] ch = "?" -> [m EXCEPT !.args = n + 1, !.state = "uri"]
      [] ch = "#" -> [m EXCEPT !.complex = TRUE, !.state = "uri"]
      [] OTHER -> m

(* A space may end the URI; whatever follows but a space or the protocol   *)
(* makes it part of the URI, read on in sw_check_uri or sw_uri.            *)
Fast(m, ch, n) ==
    CASE m.state = "after_slash" /\ ch = " " -> [m EXCEPT !.state = "check"]
      [] m.state = "after_slash" /\ ch # " " -> FastAfterSlash(m, ch, n)
      [] m.state = "check" -> FastCheck(m, ch, n)
      [] m.state = "uri" -> FastUri(m, ch, n)

(* ngx_http_parse_uri: HTTP/2 and redirects, where the URI is delimited.   *)
ParseUriRest(m, ch) == IF ch = "#" THEN [m EXCEPT !.complex = TRUE] ELSE m

ParseUriMark(m, ch, n) ==      \* what both states before sw_uri do
    CASE ch \in Escapes -> [m EXCEPT !.quoted = TRUE, !.state = "uri"]
      [] ch = "?" -> [m EXCEPT !.args = n + 1, !.state = "uri"]
      [] ch = "#" -> [m EXCEPT !.complex = TRUE, !.state = "uri"]

ngx_http_parse_uri(m, ch, n) ==
    CASE m.state = "uri" -> ParseUriRest(m, ch)
      [] m.state # "uri" /\ ch \in Escapes \cup {"?", "#"} -> ParseUriMark(m, ch, n)
      [] m.state = "after_slash" /\ ch \in {".", "/"} ->
           [m EXCEPT !.complex = TRUE, !.state = "uri"]
      [] m.state = "after_slash" /\ ch \in {" ", "a"} -> [m EXCEPT !.state = "check"]
      [] m.state = "check" /\ ch = "/" -> [m EXCEPT !.ext = 0, !.state = "after_slash"]
      [] m.state = "check" /\ ch = "." -> [m EXCEPT !.ext = n + 1]
      [] OTHER -> m

-----------------------------------------------------------------------------

(* ngx_http_parse_complex_uri *)

Put(m, ch) == [m EXCEPT !.out = Append(@, ch)]

(* "/../" : back over the segment before, from five characters back. *)
DotDot(m) ==
    LET from == Len(m.out) - 5
        slashes == {j \in 0..from : m.out[j + 1] = "/"}
    IN IF slashes = {} THEN [m EXCEPT !.st = "bad"]
       ELSE [m EXCEPT !.out = SubSeq(@, 1, 1 + CHOOSE j \in slashes : \A k \in slashes : k <= j),
                      !.state = "slash"]

Usual(m, ch) ==
    CASE ch = "/" -> [Put(m, ch) EXCEPT !.ext = 0, !.state = "slash"]
      [] ch = "." -> [Put(m, ch) EXCEPT !.ext = Len(m.out) + 1]
      [] OTHER -> Put(m, ch)

Slash(m, ch) ==
    CASE ch = "/" -> IF MergeSlashes THEN m ELSE Put(m, ch)
      [] ch = "." -> [Put(m, ch) EXCEPT !.state = "dot"]
      [] OTHER -> [Put(m, ch) EXCEPT !.state = "usual"]

Dot(m, ch) ==
    CASE ch = "/" -> [m EXCEPT !.out = Front(@), !.state = "slash"]
      [] ch = "." -> [Put(m, ch) EXCEPT !.state = "dot_dot"]
      [] OTHER -> [Put(m, ch) EXCEPT !.state = "usual"]

DotTwo(m, ch) ==
    CASE ch = "/" -> DotDot(m)
      [] OTHER -> [Put(m, ch) EXCEPT !.state = "usual"]

(* A decoded character goes through the state the escape began in, but for *)
(* "%", "#" and "?", which are put as they are.                            *)
Decoded(ch) == CASE ch = "q/" -> "/" [] ch = "q." -> "." [] OTHER -> ch

ngx_http_parse_complex_uri(m, ch) ==
    CASE m.st # "run" -> m
      [] m.st = "run" /\ ch \in {"?", "#"} -> [m EXCEPT !.st = "done"]
      [] m.st = "run" /\ ch = "bad" -> [m EXCEPT !.st = "bad"]
      [] m.st = "run" /\ ch = "lit" -> [Put(m, ch) EXCEPT !.state = "usual"]
      [] m.st = "run" /\ ch \notin {"?", "#", "bad", "lit"} ->
           CASE m.state = "usual" -> Usual(m, Decoded(ch))
             [] m.state = "slash" -> Slash(m, Decoded(ch))
             [] m.state = "dot" -> Dot(m, Decoded(ch))
             [] m.state = "dot_dot" -> DotTwo(m, Decoded(ch))

UriNext ==
       /\ Len(in) < MaxLen
       /\ \E ch \in Symbols :
            /\ in' = Append(in, ch)
            /\ line' = Fast(line, ch, Len(in))
            /\ u' = ngx_http_parse_uri(u, ch, Len(in))
            /\ cplx' = ngx_http_parse_complex_uri(cplx, ch)

UriSpec == UriInit /\ [][UriNext]_uriVars

-----------------------------------------------------------------------------

(* Reference: the path is what precedes "?" or "#", unescaped, split at    *)
(* its slashes.                                                            *)
Ends == {i \in DOMAIN in : in[i] \in {"?", "#"}}

Raw == IF Ends = {} THEN in ELSE SubSeq(in, 1, (CHOOSE i \in Ends : \A j \in Ends : i <= j) - 1)

Path == [i \in DOMAIN Raw |-> Decoded(Raw[i])]

Split(segs, ch) ==
    IF ch = "/" THEN Append(segs, <<>>) ELSE Append(Front(segs), Append(Last(segs), ch))

Segments == FoldLeft(Split, <<>>, Path)

Deep == <<"deep">>

Step(stack, seg) ==
    CASE stack = Deep -> Deep
      [] stack # Deep /\ seg \in {<<>>, <<".">>} -> stack
      [] stack # Deep /\ seg = <<".", ".">> -> IF stack = <<>> THEN Deep ELSE Front(stack)
      [] stack # Deep /\ seg \notin {<<>>, <<".">>, <<".", ".">>} -> Append(stack, seg)

Stack == FoldLeft(Step, <<>>, Front(Segments))

RefPath == FlattenSeq([k \in DOMAIN Stack |-> <<"/">> \o Stack[k]]) \o <<"/">> \o Last(Segments)

(* The extension of the last segment: what follows its last dot, other     *)
(* than the up to three dots it begins with.                               *)
Leading(seg) ==
    CHOOSE n \in 0..3 : /\ n <= Len(seg) /\ \A i \in 1..n : seg[i] = "."
                        /\ n = 3 \/ n = Len(seg) \/ seg[n + 1] # "."

Dots(seg) == {i \in DOMAIN seg : seg[i] = "." /\ i > Leading(seg)}

RefExten == LET seg == Last(Segments)
            IN IF Dots(seg) = {} THEN <<>>
               ELSE SubSeq(seg, (CHOOSE i \in Dots(seg) : \A j \in Dots(seg) : j <= i), Len(seg))

Exten(s, ext) == IF ext = 0 THEN <<>> ELSE SubSeq(s, ext, Len(s))   \* with its dot

(* The normalised URI is the path with "//" merged, "/./" dropped and      *)
(* "/../" resolved, whatever is escaped, and the request is refused        *)
(* exactly if a ".." leads above the root or an escape is malformed; a     *)
(* last segment is taken as it is.                                         *)
NormalisedAsReference ==
    /\ cplx.st = "bad" <=> (\E i \in DOMAIN Raw : Raw[i] = "bad") \/ Stack = Deep
    /\ cplx.st # "bad" => cplx.out = RefPath

(* The extension found while normalising is the one of the result. *)
ExtenAsReference == cplx.st # "bad" => Exten(cplx.out, cplx.ext) = RefExten

(* A URI the request line parser lets pass without flags is one that       *)
(* normalising would not change, and both find the same extension: taking  *)
(* the short cut of ngx_http_process_request_uri is safe.                  *)
ShortCutIsSafe ==
    ~line.complex /\ ~line.quoted =>
           /\ cplx.st # "bad"
           /\ cplx.out = (IF line.args = 0 THEN in ELSE SubSeq(in, 1, line.args - 1))
           /\ Exten(cplx.out, cplx.ext) =
                Exten(IF line.args = 0 THEN in ELSE SubSeq(in, 1, line.args - 1), line.ext)

(* The two parsers that only look agree on every URI, so a request comes   *)
(* to the same location by HTTP/1 and by HTTP/2.                           *)
BothLookAlike == u = line

(* The normalised URI fits into the buffer allocated for it, whose size    *)
(* comes from the other parser.                                            *)
OutFits == Len(cplx.out) <= (IF line.args = 0 THEN Len(in) ELSE line.args - 1)

(* With or without merging slashes nothing is left that a segment "." or   *)
(* ".." in the middle would need.                                          *)
NoDotSegments ==
    cplx.st # "bad" =>
           \A i \in DOMAIN cplx.out :
               /\ i + 2 \in DOMAIN cplx.out => SubSeq(cplx.out, i, i + 2) # <<"/", ".", "/">>
               /\ i + 3 \in DOMAIN cplx.out => SubSeq(cplx.out, i, i + 3) # <<"/", ".", ".", "/">>

-----------------------------------------------------------------------------

(***************************************************************************)
(* The buffers a client connection reads its requests into                 *)
(* (http/ngx_http_request.c): the small c->buffer first, large header      *)
(* buffers when a line does not fit, the busy and free lists of these on   *)
(* the connection, and what becomes of them when the connection is kept    *)
(* alive, with or without a pipelined request already read.  The parsers   *)
(* keep pointers into the buffers; a parsed line is only pointed to until  *)
(* the request ends.                                                       *)
(*                                                                         *)
(* The client's bytes are cells <<request, line, k, n>>: the k-th of the n *)
(* cells of a line; line 0 is the request line, the empty line that ends   *)
(* the header is End, an empty line before a request is Blank.             *)
(***************************************************************************)

CONSTANTS Small,      \* client_header_buffer_size
          Large,      \* large_client_header_buffers size
          Num,        \* large_client_header_buffers number
          Lens,       \* lengths of lines
          MaxReq,     \* bound: requests of the connection
          MaxHdr,     \* bound: header lines of a request
          MaxBlank    \* bound: empty lines before a request

VARIABLE m

headVars == <<m>>

End == -1

Blank == -2

Garbage == <<0, 0, 0, 0>>

NoPtr == [b |-> 0, off |-> 0]

Size(b) == IF b = 0 THEN Small ELSE Large

Buf(b) == [mem |-> [i \in 1..Size(b) |-> Garbage], pos |-> 0, last |-> 0]

Freed == [mem |-> <<>>, pos |-> 0, last |-> 0]

(* The next cells the client may send after cell c. *)
Follow(c) ==
    IF c[3] < c[4] THEN {<<c[1], c[2], c[3] + 1, c[4]>>}
    ELSE CASE c[2] = End -> IF c[1] = MaxReq THEN {}
                            ELSE {<<c[1] + 1, 0, 1, n>> : n \in Lens}
                                  \cup (IF MaxBlank > 0 THEN {<<c[1] + 1, Blank, 1, 1>>} ELSE {})
           [] c[2] = Blank -> {<<c[1], 0, 1, n>> : n \in Lens}
           [] OTHER -> {<<c[1], End, 1, 2>>}
                        \cup {<<c[1], c[2] + 1, 1, n>> : n \in IF c[2] < MaxHdr THEN Lens ELSE {}}

Before == <<0, End, 2, 2>>    \* stands for what precedes the first request

RECURSIVE Sends(_, _)

Sends(c, n) == IF n = 0 THEN {<<>>}
               ELSE UNION {{<<d>> \o t : t \in Sends(d, n - 1)} : d \in Follow(c)}

NewRequest(s) ==     \* ngx_http_create_request
    [s EXCEPT !.cur = IF s.busy # <<>> THEN Head(s.busy) ELSE 0,
              !.st = 0, !.start = NoPtr, !.mid = NoPtr, !.lines = {}, !.line = 0, !.pc = "parse"]

HeadInit == m = [buf |-> [b \in 0..Num |-> IF b = 0 THEN Buf(0) ELSE Freed],
                 busy |-> <<>>, free |-> <<>>, nbusy |-> 0,
                 cur |-> 0, st |-> 0, start |-> NoPtr, mid |-> NoPtr, line |-> 0,
                 lines |-> {}, pc |-> "wait", sent |-> Before, seen |-> Before]

B == m.buf[m.cur]

-----------------------------------------------------------------------------

(* recv() puts what has arrived, up to the room there is, after last. *)
Recv(s, room) ==
    {[s EXCEPT !.buf[s.cur].mem = [i \in DOMAIN @ |->
                   IF i - s.buf[s.cur].last \in 1..Len(t) THEN t[i - s.buf[s.cur].last] ELSE @[i]],
               !.buf[s.cur].last = @ + Len(t), !.sent = Last(t)] :
        t \in UNION {Sends(s.sent, n) : n \in 1..room}}

(* ngx_http_wait_request_handler, ngx_http_keepalive_handler: the memory   *)
(* of c->buffer given up while idle is taken again, then the request made. *)
ngx_http_keepalive_handler ==
    /\ m.pc \in {"wait", "idle"}
    /\ \E s \in Recv([m EXCEPT !.buf[0] = Buf(0), !.cur = 0], Small) : m' = NewRequest(s)

(* ngx_http_read_request_header with nothing unread in the buffer. *)
ngx_http_read_request_header ==
    /\ m.pc = "parse" /\ B.pos = B.last /\ B.pos < Size(m.cur)
    /\ \E s \in Recv(m, Size(m.cur) - B.last) : m' = s

(* One cell of ngx_http_parse_request_line or ngx_http_parse_header_line.  *)
(* mid stands for the pointers set inside a line.                          *)
Here == [b |-> m.cur, off |-> B.pos]

Parse ==
    /\ m.pc = "parse" /\ B.pos < B.last
    /\ LET c == B.mem[B.pos + 1]
           s == [m EXCEPT !.buf[m.cur].pos = @ + 1, !.seen = c]
           t == [s EXCEPT !.start = IF m.st = 0 THEN Here ELSE @,
                          !.mid = IF m.st = 1 THEN Here ELSE @]
       IN m' = CASE c[2] = Blank -> [s EXCEPT !.start = Here]
                 [] c[2] # Blank /\ c[3] < c[4] -> [t EXCEPT !.st = @ + 1]
                 [] c[2] = End /\ c[3] = c[4] -> [t EXCEPT !.st = 0, !.pc = "process"]
                 [] c[2] >= 0 /\ c[3] = c[4] ->
                      [t EXCEPT !.st = 0, !.line = @ + 1,
                                !.lines = @ \cup {[line |-> m.line, start |-> t.start, mid |-> t.mid,
                                                   len |-> m.st + 1]}]

(* ngx_http_alloc_large_header_buffer.  A free buffer, or a new one while  *)
(* fewer than Num are busy; a line begun is copied and its pointers moved. *)
Unused(s) == {b \in 1..Num : s.buf[b] = Freed}

RelocatedNoMid(s, b) ==
    LET old == s.start.off
        n == s.buf[s.cur].pos - old
    IN [s EXCEPT !.buf[b] = [mem |-> [i \in 1..Large |-> IF i <= n THEN s.buf[s.cur].mem[old + i] ELSE @.mem[i]],
                             pos |-> n, last |-> n],
                 !.start = [b |-> b, off |-> 0],
                 !.cur = b]

Relocated(s, b) ==
    LET old == s.start.off
        n == s.buf[s.cur].pos - old
    IN [s EXCEPT !.buf[b] = [mem |-> [i \in 1..Large |-> IF i <= n THEN s.buf[s.cur].mem[old + i] ELSE @.mem[i]],
                             pos |-> n, last |-> n],
                 !.start = [b |-> b, off |-> 0],
                 !.mid = [b |-> b, off |-> @.off - old],
                 !.cur = b]

Enlist(s, b) == [s EXCEPT !.busy = <<b>> \o @, !.nbusy = @ + 1]

Switch(s, b) == IF s.st = 0 THEN [s EXCEPT !.cur = b] ELSE Relocated(s, b)

TooLong == m.st # 0 /\ B.pos - m.start.off >= Large

ngx_http_alloc_large_header_buffer ==
    /\ m.pc = "parse" /\ B.pos = B.last /\ B.pos = Size(m.cur)
    /\ \/ /\ m.line = 0 /\ m.st = 0          \* nothing but empty lines yet
          /\ m' = [m EXCEPT !.buf[m.cur].pos = 0, !.buf[m.cur].last = 0]
       \/ /\ ~(m.line = 0 /\ m.st = 0)
          /\ \/ TooLong /\ m' = [m EXCEPT !.pc = "closed"]
             \/ /\ ~TooLong /\ m.free # <<>>
                /\ m' = Switch(Enlist([m EXCEPT !.free = Tail(@)], Head(m.free)), Head(m.free))
             \/ /\ ~TooLong /\ m.free = <<>> /\ m.nbusy < Num
                /\ LET b == CHOOSE b \in Unused(m) : TRUE
                   IN m' = Switch(Enlist([m EXCEPT !.buf[b] = Buf(b)], b), b)
             \/ /\ ~TooLong /\ m.free = <<>> /\ m.nbusy >= Num
                /\ m' = [m EXCEPT !.pc = "closed"]

-----------------------------------------------------------------------------

(* ngx_http_set_keepalive when a pipelined request has been read: all the  *)
(* large buffers but the one that holds it become free.                    *)
Recycled(s) ==
    IF s.cur = 0 THEN s
    ELSE LET others == SelectSeq(s.busy, LAMBDA b : b # s.cur)
         IN [s EXCEPT !.buf = [b \in 0..Num |-> IF b \in ToSet(others)
                                                THEN [@[b] EXCEPT !.pos = 0, !.last = 0] ELSE @[b]],
                      !.free = Reverse(others) \o @,
                      !.busy = <<s.cur>>, !.nbusy = 1]

(* ... and when none has: all memory is given up for the time of idling. *)
Idle(s) == [s EXCEPT !.buf = [b \in 0..Num |-> Freed], !.busy = <<>>, !.free = <<>>,
                     !.nbusy = 0, !.pc = "idle", !.lines = {}, !.start = NoPtr, !.mid = NoPtr]

ngx_http_set_keepalive ==
    /\ m.pc = "process"
    /\ m' = IF B.pos < B.last THEN NewRequest(Recycled(m)) ELSE Idle(m)

(* A timeout, an error or a response that ends the connection. *)
ngx_http_close_connection ==
    /\ m.pc \in {"wait", "idle", "process"} \/ (m.pc = "parse" /\ B.pos = B.last)
    /\ m' = [m EXCEPT !.pc = "closed"]

HeadNext == \/ ngx_http_keepalive_handler \/ ngx_http_read_request_header \/ Parse
            \/ ngx_http_alloc_large_header_buffer \/ ngx_http_set_keepalive \/ ngx_http_close_connection

HeadSpec == HeadInit /\ [][HeadNext]_headVars

-----------------------------------------------------------------------------

Open == m.pc # "closed"

(* Every parsed line of the request being read or processed still is what  *)
(* the client sent, where the pointers to it say: no buffer that holds one *)
(* was reused, overwritten or freed, whatever large buffers were taken     *)
(* since, and the pointers into a line moved with it.                      *)
LinesIntact ==
    Open => \A l \in m.lines :
        /\ \A k \in 1..l.len :
             /\ l.start.off + k \in DOMAIN m.buf[l.start.b].mem
             /\ m.buf[l.start.b].mem[l.start.off + k] = <<m.seen[1], l.line, k, l.len>>
        /\ l.mid = [b |-> l.start.b, off |-> l.start.off + 1]

(* The bytes are parsed in the order they came, none twice, none lost and  *)
(* none left from an earlier request: what follows in the buffer is the    *)
(* client's next.                                                          *)
ParsedInOrder ==
    Open => IF B.pos < B.last THEN B.mem[B.pos + 1] \in Follow(m.seen)
            ELSE m.seen = m.sent

(* The large buffers of a connection are at most Num, each on one list;    *)
(* those to be reused are empty.                                           *)
BuffersAreExact ==
    Open => /\ m.nbusy = Len(m.busy) /\ m.nbusy + Len(m.free) <= Num
            /\ IsInjective(m.busy \o m.free)
            /\ ToSet(m.busy \o m.free) = {b \in 1..Num : m.buf[b] # Freed}
            /\ \A b \in ToSet(m.free) : m.buf[b].pos = 0 /\ m.buf[b].last = 0

-----------------------------------------------------------------------------

(***************************************************************************)
(* Reading, or discarding, a client request body                           *)
(* (http/ngx_http_request_body.c): the part already read with the header,  *)
(* the body buffer, filled and passed to the length or the chunked filter, *)
(* the buffers it yields kept in memory or written to a temporary file,    *)
(* or, unbuffered, handed to the upstream as they come.  Behind the body   *)
(* the client's next request may follow.                                   *)
(***************************************************************************)

CONSTANTS Modes,      \* of {"buffered", "unbuffered", "discard"}
          Framings,   \* of {"chunked", "length"}
          Data,       \* bound: bytes of the body
          Pre,        \* bound: bytes read with the header
          Room,       \* bound: room left in the header buffer
          BufSize,    \* client_body_buffer_size
          MaxBody     \* client_max_body_size

bodyVars == <<m>>

NoBuf == [a |-> "none", start |-> 0, pos |-> 0, last |-> 0, end |-> 0]

Sent(s, g) == IF s.framing = "chunked" THEN Emits(g, s.cr, Data) ELSE Plain(g, s.len)

RECURSIVE Arrive(_, _, _)

Arrive(s, g, n) ==     \* all <<bytes, generator>> of n bytes
    IF n = 0 THEN {<<<<>>, g>>}
    ELSE UNION {{<<<<e[1]>> \o t[1], t[2]>> : t \in Arrive(s, e[2], n - 1)} : e \in Sent(s, g)}

BodyInit ==
        \E mode \in Modes, fr \in Framings, cr \in BOOLEAN, len \in 1..Data, room \in 0..Room, n \in 0..Pre :
          LET s == [mode |-> mode, framing |-> fr, cr |-> cr, len |-> len]
          IN /\ fr = "length" => ~cr
             /\ fr = "chunked" => len = 1
             /\ \E t \in Arrive(s, Gen0, n) :
                  m = [mode |-> mode, framing |-> fr, cr |-> cr, len |-> len, gen |-> t[2],
                       mem |-> [header |-> t[1], body |-> <<>>],
                       hin |-> [pos |-> 0, last |-> n, end |-> n + room],
                       rest |-> -1, ctx |-> Ctx0, got |-> 0, buf |-> NoBuf,
                       bufs |-> <<>>, busy |-> {}, file |-> <<>>, tmp |-> FALSE, out |-> <<>>, pc |-> "start"]

-----------------------------------------------------------------------------

Content(s, r) == SubSeq(s.mem[r.a], r.from + 1, r.to)

Contents(s, rs) == FlattenSeq([i \in DOMAIN rs |-> Content(s, rs[i])])

(* ngx_http_write_request_body *)
ngx_http_write_request_body(s) ==
    [s EXCEPT !.file = @ \o Contents(s, s.bufs), !.tmp = TRUE, !.bufs = <<>>,
              !.busy = @ \ ToSet(s.bufs)]

(* ngx_http_request_body_save_filter: to the file when the buffer is full, *)
(* and at the end if any of it went there.                                 *)
BufFull(s) == s.buf # NoBuf /\ s.buf.last = s.buf.end

ngx_http_request_body_save_filter(s, rs) ==
    LET t == [s EXCEPT !.bufs = @ \o rs]
    IN CASE s.mode = "unbuffered" -> t
         [] s.mode # "unbuffered" /\ s.rest > 0 -> IF BufFull(s) THEN ngx_http_write_request_body(t) ELSE t
         [] s.mode # "unbuffered" /\ s.rest <= 0 -> IF s.tmp THEN ngx_http_write_request_body(t) ELSE t

(* The end of a filter: the buffers go down, those not yet used up stay    *)
(* busy.                                                                   *)
Down(s, rs) == ngx_http_request_body_save_filter([s EXCEPT !.busy = @ \cup ToSet(rs)], rs)

(* ngx_http_request_body_length_filter on bytes pos+1..last of area a *)
LengthFilter(s, a, pos, last) ==
    LET rest == IF s.rest = -1 THEN s.len ELSE s.rest
        n == last - pos
        take == IF n < rest THEN n ELSE rest
        rs == IF rest = 0 \/ a = "none" THEN <<>> ELSE <<[a |-> a, from |-> pos, to |-> pos + take]>>
    IN [s |-> Down([s EXCEPT !.rest = rest - take], rs), pos |-> pos + take, rc |-> "ok"]

RECURSIVE Chunks(_, _, _, _, _)

Parsed(s, a, last, rs, p) ==
    LET take == IF last - p.pos > p.x.size THEN p.x.size ELSE last - p.pos
    IN CASE p.rc = "invalid" -> [s |-> s, pos |-> p.pos, rc |-> "400"]
         [] p.rc = "done" ->
              [s |-> Down([s EXCEPT !.rest = 0, !.ctx = p.x], rs), pos |-> p.pos, rc |-> "ok"]
         [] p.rc = "again" ->
              [s |-> Down([s EXCEPT !.rest = Length(p.x), !.ctx = p.x], rs), pos |-> p.pos, rc |-> "ok"]
         [] p.rc = "ok" ->
              IF MaxBody - s.got < p.x.size THEN [s |-> s, pos |-> p.pos, rc |-> "413"]
              ELSE Chunks([s EXCEPT !.ctx = [p.x EXCEPT !.size = @ - take], !.got = @ + take],
                          a, p.pos + take, last, Append(rs, [a |-> a, from |-> p.pos, to |-> p.pos + take]))

Chunks(s, a, pos, last, rs) == Parsed(s, a, last, rs, ngx_http_parse_chunked(s.ctx, s.mem[a], pos, last))

ChunkedFilter(s, a, pos, last) ==
    LET t == IF s.rest = -1 THEN [s EXCEPT !.rest = 3] ELSE s
    IN IF a = "none" THEN [s |-> Down(t, <<>>), pos |-> pos, rc |-> "ok"]
       ELSE Chunks(t, a, pos, last, <<>>)

ngx_http_request_body_filter(s, a, pos, last) ==
    IF s.framing = "chunked" THEN ChunkedFilter(s, a, pos, last) ELSE LengthFilter(s, a, pos, last)

(* ... on what the body buffer holds *)
Passed(f) == [f.s EXCEPT !.buf.pos = f.pos, !.pc = IF f.rc = "ok" THEN @ ELSE f.rc]

PassBuf(s) == Passed(ngx_http_request_body_filter(s, s.buf.a, s.buf.pos, s.buf.last))

-----------------------------------------------------------------------------

(* ngx_http_read_client_request_body: the bytes read with the header go    *)
(* first; if the rest fits behind them it is read there, else into a new   *)
(* buffer, not larger than needed.                                         *)
NewBuf(s) ==
    LET size == IF s.framing = "length" /\ s.rest < BufSize + BufSize \div 4 THEN s.rest ELSE BufSize
    IN [s EXCEPT !.buf = [a |-> "body", start |-> 0, pos |-> 0, last |-> 0, end |-> size], !.pc = "top"]

HeaderBuf(s) ==
    [s EXCEPT !.buf = [a |-> "header", start |-> s.hin.pos, pos |-> s.hin.pos, last |-> s.hin.last,
                       end |-> s.hin.end], !.pc = "top"]

ngx_http_read_client_request_body ==
    /\ m.pc = "start" /\ m.mode # "discard"
    /\ \E f \in {IF m.hin.last > 0 THEN ngx_http_request_body_filter(m, "header", 0, m.hin.last)
                 ELSE ngx_http_request_body_filter(m, "none", 0, 0)} :
       LET s == [f.s EXCEPT !.hin.pos = f.pos]
       IN m' = CASE f.rc # "ok" -> [s EXCEPT !.pc = f.rc]
                 [] f.rc = "ok" /\ s.rest = 0 -> [s EXCEPT !.pc = "done"]
                 [] f.rc = "ok" /\ s.rest > 0 ->
                      IF m.framing = "length" /\ m.hin.last > 0 /\ s.rest <= s.hin.end - s.hin.last
                      THEN HeaderBuf(s) ELSE NewBuf(s)

Top ==
    /\ m.pc = "top"
    /\ \E b \in {m.buf} :
       \E f \in {IF b.pos # b.last THEN PassBuf(m)
                 ELSE ngx_http_request_body_filter(m, "none", b.pos, b.pos).s} :
          m' = CASE b.last < b.end -> [m EXCEPT !.pc = "recv"]
                 [] b.last = b.end /\ f.pc # "top" -> f
                 [] b.last = b.end /\ f.pc = "top" /\ f.busy # {} ->
                      [f EXCEPT !.pc = IF f.mode = "unbuffered" THEN "wait" ELSE "500"]
                 [] b.last = b.end /\ f.pc = "top" /\ f.busy = {} ->
                      [f EXCEPT !.buf.pos = b.start, !.buf.last = b.start, !.pc = "recv"]

Asked == LET b == m.buf
             rest == m.rest - (b.last - b.pos)
         IN IF b.end - b.last > rest THEN rest ELSE b.end - b.last

Store(s, t) ==     \* the bytes t received into the buffer
    LET b == s.buf
        old == s.mem[b.a]
    IN [s EXCEPT !.mem[b.a] = [i \in 1..(IF Len(old) > b.last + Len(t) THEN Len(old) ELSE b.last + Len(t)) |->
                                  IF i \in (b.last + 1)..(b.last + Len(t)) THEN t[i - b.last] ELSE old[i]],
                 !.buf.last = @ + Len(t)]

(* recv(): n bytes, and whether the socket may have more. *)
Received ==
    /\ m.pc = "recv"
    /\ \E n \in 1..Asked : \E t \in Arrive(m, m.gen, n) :
         LET rest == m.rest - (m.buf.last - m.buf.pos)
         IN \E s \in {[Store(m, t[1]) EXCEPT !.gen = t[2]]} : \E f \in {IF n = rest THEN PassBuf(s) ELSE s} :
            m' = CASE f.pc # "recv" -> f
                   [] f.pc = "recv" /\ f.rest = 0 -> [f EXCEPT !.pc = "done"]
                   [] f.pc = "recv" /\ f.rest > 0 ->
                        [f EXCEPT !.pc = IF f.buf.last < f.buf.end THEN "after" ELSE "top"]

(* Nothing more for now: unbuffered, what there is goes on at once. *)
Again ==
    /\ m.pc \in {"recv", "after"}
    /\ \E f \in {IF m.mode = "unbuffered" /\ m.buf.pos # m.buf.last THEN PassBuf(m) ELSE m} :
          m' = IF f.pc \in {"recv", "after"} THEN [f EXCEPT !.pc = "wait"] ELSE f

More == m.pc = "after" /\ m' = [m EXCEPT !.pc = "top"]

(* The next read event, or the upstream asking for more of the body. *)
ngx_http_read_client_request_body_handler ==
    /\ m.pc = "wait" /\ m.mode # "discard"
    /\ m' = [m EXCEPT !.pc = "top"]

(* Unbuffered, the upstream takes rb->bufs and sends them. *)
UpstreamSends ==
    /\ m.mode = "unbuffered" /\ m.pc \in {"wait", "done"} /\ m.bufs # <<>>
    /\ m' = [m EXCEPT !.out = @ \o Contents(m, m.bufs), !.bufs = <<>>, !.busy = @ \ ToSet(m.bufs)]

-----------------------------------------------------------------------------

(* ngx_http_discard_request_body and its handler.  rest is                 *)
(* headers_in.content_length_n: what is wanted next.                       *)
RECURSIVE Discarded(_, _, _, _)

DiscardedLength(s, pos, last) ==
    LET rest == IF s.rest = -1 THEN s.len ELSE s.rest
        take == IF last - pos > rest THEN rest ELSE last - pos
    IN [s |-> [s EXCEPT !.rest = rest - take], pos |-> pos + take, rc |-> "ok"]

DiscardedChunk(s, mem, last, p) ==
    LET take == IF last - p.pos > p.x.size THEN p.x.size ELSE last - p.pos
    IN CASE p.rc = "invalid" -> [s |-> s, pos |-> p.pos, rc |-> "400"]
         [] p.rc = "done" -> [s |-> [s EXCEPT !.rest = 0, !.ctx = p.x], pos |-> p.pos, rc |-> "ok"]
         [] p.rc = "again" -> [s |-> [s EXCEPT !.rest = Length(p.x), !.ctx = p.x], pos |-> p.pos, rc |-> "ok"]
         [] p.rc = "ok" -> Discarded([s EXCEPT !.ctx = [p.x EXCEPT !.size = @ - take]], mem, p.pos + take, last)

Discarded(s, mem, pos, last) ==
    IF s.framing = "length" THEN DiscardedLength(s, pos, last)
    ELSE DiscardedChunk(s, mem, last, ngx_http_parse_chunked(s.ctx, mem, pos, last))

ngx_http_discard_request_body ==
    /\ m.pc = "start" /\ m.mode = "discard"
    /\ \E f \in {IF m.hin.last > 0 \/ m.framing = "chunked" THEN Discarded(m, m.mem.header, 0, m.hin.last)
                 ELSE [s |-> [m EXCEPT !.rest = m.len], pos |-> 0, rc |-> "ok"]} :
          m' = [f.s EXCEPT !.hin.pos = f.pos,
                           !.pc = CASE f.rc # "ok" -> f.rc [] f.s.rest = 0 -> "done" [] OTHER -> "wait"]

ngx_http_read_discarded_request_body ==
    /\ m.pc = "wait" /\ m.mode = "discard"
    /\ \E n \in 1..(IF m.rest < BufSize THEN m.rest ELSE BufSize) : \E t \in Arrive(m, m.gen, n) :
         \E f \in {Discarded(m, t[1], 0, n)} :
            m' = [f.s EXCEPT !.gen = t[2],
                             !.pc = CASE f.rc # "ok" -> f.rc
                                      [] f.rc = "ok" /\ f.pos < n -> "lost"     \* bytes read and not used
                                      [] f.rc = "ok" /\ f.s.rest = 0 -> "done"
                                      [] OTHER -> "wait"]

(* The client goes away or is too slow. *)
Closed == m.pc \in {"recv", "wait"} /\ m' = [m EXCEPT !.pc = "closed"]

BodyNext == \/ ngx_http_read_client_request_body \/ Top \/ Received \/ Again \/ More
            \/ ngx_http_read_client_request_body_handler \/ UpstreamSends
            \/ ngx_http_discard_request_body \/ ngx_http_read_discarded_request_body \/ Closed

BodySpec == BodyInit /\ [][BodyNext]_bodyVars

-----------------------------------------------------------------------------

Body(s) == s.file \o s.out \o Contents(s, s.bufs)

Ended(s) == s.gen.at = "end" \/ (s.framing = "length" /\ s.gen.n = s.len)

(* The body a handler gets is the one the client sent, byte for byte, in   *)
(* memory, in the file or sent to the upstream, even though the buffer is  *)
(* filled again and again while parts of it are only pointed to.           *)
BodyIsExact ==
    /\ m.pc = "done" /\ m.mode # "discard" => Body(m) = [i \in 1..m.gen.n |-> <<"data", i>>]
    /\ \A i \in DOMAIN Body(m) : Body(m)[i] = <<"data", i>>

(* Nothing behind the body is read from the connection for the body's      *)
(* sake: the amount asked for is never more than the body still has, also  *)
(* when only the least it can be is known; and the body is found complete  *)
(* with its last byte.                                                     *)
NothingOverread ==
    /\ \A i \in DOMAIN m.mem.body : m.mem.body[i][1] # "next"
    /\ m.pc # "lost"
    /\ m.buf.a = "header" => \A i \in (m.hin.last + 1)..m.buf.last : m.mem.header[i][1] # "next"
    /\ m.pc = "done" => \A i \in (m.hin.pos + 1)..m.hin.last :
                            m.mem.header[i][1] = "next" \/ m.buf.a = "header"
    /\ m.pc = "done" => Ended(m)
    /\ m.rest > 0 /\ m.pc = "wait" /\ m.buf.pos = m.buf.last => ~(m.gen.at = "end" /\ ~m.gen.lf)

(* Reading never fails for the server's own sake: a buffered body has      *)
(* nothing held in its buffer when that is used again.  And a well-formed  *)
(* body is never refused as malformed.                                     *)
NeverRefused == m.pc \notin {"500", "400"}

(* A chunked body is refused as too large exactly if it is. *)
TooLargeOnly == /\ m.pc = "413" => m.gen.n + m.gen.left > MaxBody
                /\ m.pc = "done" /\ m.mode # "discard" /\ m.framing = "chunked" => m.gen.n <= MaxBody
=============================================================================
