---------------------------- MODULE HttpFilters -----------------------------
(***************************************************************************)
(* The filters that decide which bytes of a response a client gets, how it *)
(* can tell where they end and when they leave: byte ranges, slices, the   *)
(* chunked encoding, and the output chain down to the socket.              *)
(***************************************************************************)
EXTENDS Integers, Sequences, SequencesExt, HttpChunked, FiniteSets

(***************************************************************************)
(* Conditional requests and byte ranges: the filters of                    *)
(* ngx_http_not_modified_filter_module.c, ngx_http_range_filter_module.c   *)
(* and ngx_http_slice_filter_module.c, which fetches a response as aligned *)
(* slices, the first by the main request, the others by one subrequest at  *)
(* a time, and leaves it to the range filter to cut out what the client    *)
(* asked for.                                                              *)
(*                                                                         *)
(* A byte is the version and the position it comes from.  The Range header *)
(* is the sequence of its specifiers, each a record kind, a, b: "span"     *)
(* (a-b), "open" (a-), "suffix" (-a), "bad".  The source of the response   *)
(* is a file (one buffer), a proxied response whose ranges are forced, or  *)
(* slices.  The origin may change the document between two slices, answer  *)
(* something else than it was asked for, or break off.                     *)
(***************************************************************************)

CONSTANTS
    Docs,          \* documents: source ("file", "forced" or "slices"), length (of versions 1 and 2), tag
                   \* ("none", "strong" or "weak" ETag), dated (Last-Modified), max_ranges, ims (if_modified_since),
                   \* disable_not_modified (a proxied response that is not cached)
    Requests,      \* requests: range <<unit, specifiers>>, ifRange <<kind, version>>, ius and ims (times, 0 for none),
                   \* im and inm <<kind, ETags>> with ETags <<weak, version>>
    Size,          \* slice
    BufSize,       \* the largest buffer of a proxied body
    MaxBreaks      \* how often an origin breaks off

VARIABLES
    doc,       \* the document and its location
    q,         \* the request
    ver,       \* the version the origin has now
    step,      \* "start", "wait" (for a response), "body", "sent" (its end was passed on) or "ended"
    who,       \* the request whose response it is
    resp,      \* that response: version, next position, end
    sctx,      \* ngx_http_slice_ctx_t
    rctx,      \* ngx_http_range_filter_ctx_t of the main request and of the last subrequest
    hdr,       \* the header the client got
    out,       \* the body passed on to the client
    buffered,  \* r->buffered: not all of it could be sent
    asked,     \* the slices asked for, in order
    breaks     \* responses the origin broke off

vars == <<doc, q, ver, step, who, resp, sctx, rctx, hdr, out, buffered, asked, breaks>>

-----------------------------------------------------------------------------

(* ngx_http_not_modified_header_filter: the status it makes of a 200.  A   *)
(* document of version v was last modified at v.                           *)
ngx_http_test_if_unmodified(h) == doc.dated /\ q.ius >= h.v

ngx_http_test_if_modified(h) ==
    \/ ~doc.dated
    \/ doc.ims = "off"
    \/ q.ims # h.v /\ (doc.ims = "exact" \/ q.ims < h.v)

(* A weak comparison drops the "W/" of both. *)
ngx_http_test_if_match(header, h, weak) ==
    \/ header[1] = "any"
    \/ /\ h.etag # 0
       /\ \E t \in header[2] : t[2] = h.etag /\ (weak \/ t[1] = (doc.tag = "weak"))

ngx_http_not_modified_header_filter(w, h) ==
    CASE w = "sub" \/ h.status # 200 \/ doc.disable_not_modified -> h.status
      [] w = "main" /\ h.status = 200 /\ ~doc.disable_not_modified
                    /\ (\/ q.ius # 0 /\ ~ngx_http_test_if_unmodified(h)
                        \/ q.im[1] # "none" /\ ~ngx_http_test_if_match(q.im, h, FALSE)) -> 412
      [] OTHER -> IF /\ q.ims # 0 \/ q.inm[1] # "none"
                     /\ q.ims # 0 => ~ngx_http_test_if_modified(h)
                     /\ q.inm[1] # "none" => ngx_http_test_if_match(q.inm, h, TRUE)
                  THEN 304 ELSE 200

-----------------------------------------------------------------------------

(* ngx_http_range_parse.  "going" while specifiers remain. *)
Spec0(spec, n) ==
    CASE spec.kind = "span" -> [start |-> spec.a, end |-> IF spec.b >= n THEN n ELSE spec.b + 1]
      [] spec.kind = "open" -> [start |-> spec.a, end |-> n]
      [] spec.kind = "suffix" -> [start |-> IF spec.a < n THEN n - spec.a ELSE 0, end |-> n]

ParsedOne(p, range) ==
    IF range.start < range.end
    THEN [rc |-> IF p.left = 0 THEN "declined" ELSE "going", left |-> p.left - 1,
          ranges |-> Append(p.ranges, range), size |-> p.size + range.end - range.start]
    ELSE [p EXCEPT !.rc = IF range.start = 0 THEN "declined" ELSE "going"]

ngx_http_range_parse(specs, n, limit) ==
    LET one(p, spec) ==
            IF p.rc # "going" THEN p
            ELSE IF spec.kind = "bad" THEN [p EXCEPT !.rc = "416"]
            ELSE ParsedOne(p, Spec0(spec, n))
        p == FoldLeft(one, [rc |-> "going", left |-> limit, ranges |-> <<>>, size |-> 0], specs)
    IN [ranges |-> p.ranges,
        rc |-> CASE p.rc # "going" -> p.rc
                 [] p.rc = "going" /\ p.ranges = <<>> -> "416"
                 [] p.rc = "going" /\ p.ranges # <<>> /\ p.size > n -> "declined"
                 [] OTHER -> "ok"]

(* ngx_http_range_header_filter on a 200 of n bytes: whether it looks at   *)
(* the Range header at all, and what becomes of the response.              *)
IfRangeHolds(h) ==
    \/ q.ifRange[1] = "none"
    \/ q.ifRange[1] = "etag" /\ h.etag # 0 /\ doc.tag = "strong" /\ q.ifRange[2] = h.etag
    \/ q.ifRange[1] = "date" /\ doc.dated /\ q.ifRange[2] = h.v

Ranged(h) == /\ h.status = 200
             /\ h.allow
             /\ doc.max_ranges # 0
             /\ q.range[1] = "bytes"
             /\ IfRangeHolds(h)

NoRange == [on |-> FALSE, offset |-> 0, ranges |-> <<>>]

RangeHeader(w, h) ==
    IF ~Ranged(h) THEN [status |-> h.status, ctx |-> NoRange]
    ELSE LET p == IF w = "sub" /\ rctx.main.on THEN [rc |-> "ok", ranges |-> rctx.main.ranges]
                  ELSE ngx_http_range_parse(q.range[2], h.n, IF h.single THEN 1 ELSE doc.max_ranges)
         IN CASE p.rc = "ok" -> [status |-> 206, ctx |-> [on |-> TRUE, offset |-> h.offset, ranges |-> p.ranges]]
              [] p.rc = "416" -> [status |-> 416, ctx |-> NoRange]
              [] p.rc = "declined" -> [status |-> 200, ctx |-> NoRange]

(* The two filters in their order. *)
ngx_http_range_header_filter(w, h) ==
    RangeHeader(w, [h EXCEPT !.status = ngx_http_not_modified_header_filter(w, h)])

(* The header the client gets.  A part of a multipart answer costs a       *)
(* boundary header and its own Content-Range line (1 each), and there is   *)
(* the last boundary (1).                                                  *)
PartLength(range) == 2 + range.end - range.start

ngx_http_range_singlepart_header(x, h) ==
    [status |-> 206, parts |-> x.ranges, n |-> h.n, v |-> h.v,
     length |-> x.ranges[1].end - x.ranges[1].start, offset |-> x.ranges[1].start]

ngx_http_range_multipart_header(x, h) ==
    [status |-> 206, parts |-> x.ranges, n |-> h.n, v |-> h.v,
     length |-> FoldLeft(LAMBDA len, range : len + PartLength(range), 1, x.ranges), offset |-> 0]

ngx_http_range_not_satisfiable(h) == [status |-> 416, parts |-> <<>>, n |-> h.n, v |-> h.v, length |-> 0, offset |-> 0]

Header(r, h) ==
    CASE r.status = 206 /\ Len(r.ctx.ranges) = 1 -> ngx_http_range_singlepart_header(r.ctx, h)
      [] r.status = 206 /\ Len(r.ctx.ranges) # 1 -> ngx_http_range_multipart_header(r.ctx, h)
      [] r.status = 416 -> ngx_http_range_not_satisfiable(h)
      [] OTHER -> [status |-> r.status, parts |-> <<>>, n |-> h.n, v |-> h.v, length |-> h.n, offset |-> 0]

-----------------------------------------------------------------------------

(* ngx_http_range_body_filter on a buffer of n bytes of version v: what of *)
(* it goes on.                                                             *)
Bytes(v, from, to) == [k \in 1..(to - from) |-> <<"byte", v, from + k - 1>>]

Low(a, b) == IF a < b THEN a ELSE b

High(a, b) == IF a < b THEN b ELSE a

ngx_http_range_singlepart_body(x, v, pos, n) ==
    LET range == x.ranges[1]
        start == x.offset
        last == x.offset + n
    IN IF range.end <= start \/ range.start >= last THEN <<>>
       ELSE Bytes(v, pos + High(range.start - start, 0), pos + n - High(last - range.end, 0))

ngx_http_range_test_overlapped(x, n, last_buf) ==
    /\ x.offset = 0
    /\ ~last_buf => \A k \in 1..Len(x.ranges) : x.ranges[k].end <= n

ngx_http_range_multipart_body(x, v, pos) ==
    FoldLeft(LAMBDA done, range : done \o << <<"part", range.start, range.end>> >>
                                       \o Bytes(v, pos + range.start, pos + range.end), <<>>, x.ranges)
        \o << <<"end", 0, 0>> >>

RangeBody(x, v, pos, n, last_buf) ==
    CASE ~x.on -> [rc |-> "ok", out |-> Bytes(v, pos, pos + n), ctx |-> x]
      [] x.on /\ Len(x.ranges) = 1 -> [rc |-> "ok", out |-> ngx_http_range_singlepart_body(x, v, pos, n),
                                       ctx |-> [x EXCEPT !.offset = @ + n]]
      [] x.on /\ Len(x.ranges) # 1 ->
           [rc |-> IF ngx_http_range_test_overlapped(x, n, last_buf) THEN "ok" ELSE "error",
            out |-> IF ngx_http_range_test_overlapped(x, n, last_buf)
                    THEN ngx_http_range_multipart_body(x, v, pos) ELSE <<>>,
            ctx |-> [x EXCEPT !.offset = n]]

-----------------------------------------------------------------------------

(* The slice filter.  $slice_range names the first slice (evaluated for    *)
(* the proxied request); ngx_http_slice_get_start takes it from a Range    *)
(* header with one specifier.                                              *)
ngx_http_slice_get_start ==
    IF q.ifRange[1] # "none" \/ q.range[1] # "bytes" \/ Len(q.range[2]) # 1 THEN 0
    ELSE IF q.range[2][1].kind # "suffix" THEN q.range[2][1].a ELSE 0

NoSlice == [on |-> FALSE, start |-> 0, end |-> 0, etag |-> 0, last |-> FALSE, active |-> FALSE, sr |-> "none"]

ngx_http_slice_range_variable(start) == [NoSlice EXCEPT !.on = TRUE, !.start = Size * (start \div Size)]

(* What an origin makes of a request for the slice at s of a document of n *)
(* bytes, and what else may come back.  Its Content-Range is from-last, of *)
(* total (-1 for "*"); good says the header is there and can be parsed.    *)
Right(s, v, n) ==
    [status |-> IF s < n THEN 206 ELSE 416, v |-> v, etag |-> IF doc.tag = "none" THEN 0 ELSE v,
     from |-> s, last |-> Low(s + Size, n) - 1, total |-> n, good |-> TRUE]

Origin(s, v, n) ==
    LET right == Right(s, v, n)
    IN {right, [right EXCEPT !.status = 200], [right EXCEPT !.status = 502]}
       \cup (IF s < n THEN {[right EXCEPT !.good = FALSE], [right EXCEPT !.total = -1],
                            [right EXCEPT !.from = s + 1], [right EXCEPT !.last = @ - 1]} ELSE {})

ngx_http_slice_parse_content_range(a) ==
    [ok |-> a.good, start |-> a.from, end |-> a.last + 1, complete_length |-> a.total]

(* ngx_http_slice_header_filter up to the next filter: whether the         *)
(* response is the slice that was asked for.                               *)
SliceMatches(a, cr) ==
    /\ sctx.etag # 0 => a.etag = sctx.etag
    /\ cr.ok
    /\ cr.complete_length # -1
    /\ cr.start = sctx.start
    /\ cr.end = Low(cr.start + Size, cr.complete_length)

Taken(a, cr) == [sctx EXCEPT !.etag = IF a.etag # 0 THEN a.etag ELSE @, !.start = cr.end, !.active = TRUE]

AsWhole(a, cr) == [status |-> 200, n |-> cr.complete_length, offset |-> cr.start, allow |-> TRUE,
                   single |-> TRUE, etag |-> a.etag, v |-> a.v]

SpanOnlyPast(x, header, total) ==
    IF header.status = 206
    THEN [x EXCEPT !.start = IF x.start + Size < header.offset THEN Size * (header.offset \div Size) ELSE @,
                   !.end = header.offset + header.length]
    ELSE [x EXCEPT !.end = total]

(* and after it, for the main request: where the next slice is, and where  *)
(* the answer ends.                                                        *)
Span(x, header, total) ==
    IF header.status = 206
    THEN [x EXCEPT !.start = IF x.start + Size <= header.offset THEN Size * (header.offset \div Size) ELSE @,
                   !.end = header.offset + header.length]
    ELSE [x EXCEPT !.end = total]

(* The rest of ngx_http_slice_body_filter, after the buffers were passed   *)
(* on: done with the answer, or one more slice.                            *)
SliceNext(x, blocked) ==
    CASE ~x.last \/ x.sr = "running" -> "wait"
      [] x.last /\ x.sr # "running" /\ ~x.active -> "missing"
      [] x.last /\ x.sr # "running" /\ x.active /\ x.start >= x.end -> "end"
      [] x.last /\ x.sr # "running" /\ x.active /\ x.start < x.end -> IF blocked THEN "wait" ELSE "next"

-----------------------------------------------------------------------------

Init == /\ doc \in Docs
        /\ q = [range |-> <<"none", <<>> >>, ifRange |-> <<"none", 0>>, ius |-> 0, ims |-> 0,
                im |-> <<"none", {}>>, inm |-> <<"none", {}>>]
        /\ ver = 1
        /\ step = "start"
        /\ who = "main"
        /\ resp = [v |-> 0, pos |-> 0, end |-> 0]
        /\ sctx = NoSlice
        /\ rctx = [main |-> NoRange, sub |-> NoRange]
        /\ hdr = [status |-> 0, parts |-> <<>>, n |-> 0, v |-> 0, length |-> 0, offset |-> 0]
        /\ out = <<>>
        /\ buffered = FALSE
        /\ asked = <<>>
        /\ breaks = 0

(* The request arrives. *)
Ask(request) ==
    /\ step = "start"
    /\ q' = request
    /\ step' = "begin"
    /\ UNCHANGED <<doc, ver, who, resp, sctx, rctx, hdr, out, buffered, asked, breaks>>

(* It is proxied: the slice it starts with goes into the proxied request. *)
Begin ==
    /\ step = "begin"
    /\ step' = "wait"
    /\ sctx' = IF doc.source = "slices" THEN ngx_http_slice_range_variable(ngx_http_slice_get_start) ELSE sctx
    /\ asked' = IF doc.source = "slices" THEN <<sctx'.start>> ELSE asked
    /\ UNCHANGED <<doc, q, ver, who, resp, rctx, hdr, out, buffered, breaks>>

Changes ==
    /\ ver = 1
    /\ step # "ended"
    /\ ver' = 2
    /\ UNCHANGED <<doc, q, step, who, resp, sctx, rctx, hdr, out, buffered, asked, breaks>>

Abort == /\ step' = "aborted"
         /\ UNCHANGED <<doc, q, ver, who, resp, sctx, rctx, hdr, out, buffered, asked, breaks>>

(* A response that is not sliced: its header goes to the range filter. *)
PlainResponse ==
    /\ step = "wait"
    /\ doc.source # "slices"
    /\ LET n == doc.length[ver]
           h == [status |-> 200, n |-> n, offset |-> 0, allow |-> TRUE, single |-> doc.source = "forced",
                 etag |-> IF doc.tag = "none" THEN 0 ELSE ver, v |-> ver]
           r == ngx_http_range_header_filter("main", h)
       IN /\ hdr' = Header(r, h)
          /\ rctx' = [rctx EXCEPT !.main = r.ctx]
          /\ resp' = [v |-> ver, pos |-> 0, end |-> n]
          /\ step' = IF r.status \in {200, 206} THEN "body" ELSE "ended"
    /\ UNCHANGED <<doc, q, ver, who, sctx, out, buffered, asked, breaks>>

(* The main request's first response is no slice: it is passed on as it is. *)
NotSliced(a) ==
    /\ who = "main"
    /\ a.status # 206
    /\ LET h == [status |-> a.status, n |-> a.total, offset |-> 0, allow |-> FALSE, single |-> FALSE,
                 etag |-> a.etag, v |-> a.v]
           r == ngx_http_range_header_filter("main", h)
       IN /\ hdr' = Header(r, h)
          /\ step' = IF r.status = 200 THEN "body" ELSE "ended"
    /\ sctx' = NoSlice
    /\ resp' = [v |-> a.v, pos |-> 0, end |-> a.total]
    /\ UNCHANGED <<doc, q, ver, who, rctx, out, buffered, asked, breaks>>

SliceHeader(a, cr) ==
    /\ a.status = 206
    /\ SliceMatches(a, cr)
    /\ LET h == AsWhole(a, cr)
           r == ngx_http_range_header_filter(who, h)
           refused == r.status \notin {200, 206}
       IN /\ rctx' = [rctx EXCEPT ![who] = r.ctx]
          /\ hdr' = IF who = "main" THEN Header(r, h) ELSE hdr
          /\ sctx' = CASE who = "sub" -> Taken(a, cr)
                       [] who = "main" /\ refused -> NoSlice     \* no more slices
                       [] who = "main" /\ ~refused -> Span(Taken(a, cr), Header(r, h), cr.complete_length)
          /\ resp' = [v |-> a.v, pos |-> cr.start, end |-> cr.end]
          /\ step' = CASE refused /\ who = "main" -> "ended"
                       [] refused /\ who = "sub" -> "aborted"
                       [] ~refused -> "body"
    /\ UNCHANGED <<doc, q, ver, who, out, buffered, asked, breaks>>

Unexpected(a, cr) ==
    /\ IF a.status = 206 THEN ~SliceMatches(a, cr) ELSE who = "sub"
    /\ Abort

(* ngx_http_slice_header_filter. *)
Response(a) ==
    /\ step = "wait"
    /\ doc.source = "slices"
    /\ LET cr == ngx_http_slice_parse_content_range(a)
       IN NotSliced(a) \/ SliceHeader(a, cr) \/ Unexpected(a, cr)

(* A buffer of the response goes through the body filters. *)
Body(n) ==
    /\ step = "body"
    /\ doc.source # "file"
    /\ resp.pos + n <= resp.end
    /\ LET b == RangeBody(rctx[who], resp.v, resp.pos, n, FALSE)
       IN /\ rctx' = [rctx EXCEPT ![who] = b.ctx]
          /\ out' = out \o b.out
          /\ resp' = [resp EXCEPT !.pos = @ + n]
          /\ buffered' \in IF b.out = <<>> THEN {buffered} ELSE BOOLEAN
          /\ step' = IF b.rc = "ok" THEN step ELSE "aborted"
    /\ UNCHANGED <<doc, q, ver, who, sctx, hdr, asked, breaks>>

(* A file goes through them as one buffer, the last one. *)
FileBody ==
    /\ step = "body"
    /\ doc.source = "file"
    /\ LET b == RangeBody(rctx.main, resp.v, 0, resp.end, TRUE)
       IN /\ rctx' = [rctx EXCEPT !.main = b.ctx]
          /\ out' = out \o b.out
          /\ resp' = [resp EXCEPT !.pos = resp.end]
          /\ step' = IF b.rc = "ok" THEN "ended" ELSE "aborted"
    /\ UNCHANGED <<doc, q, ver, who, sctx, hdr, buffered, asked, breaks>>

(* The main request's filter is called when the end of a response is passed *)
(* on, when a subrequest is done, and when the client has read more.        *)
GoOn(x, blocked) ==
    LET next == SliceNext(x, blocked)
    IN /\ sctx' = CASE next = "next" -> [x EXCEPT !.active = FALSE, !.sr = "running"]
                    [] next = "end" -> NoSlice
                    [] OTHER -> x
       /\ step' = CASE next = "next" -> "wait"
                    [] next = "end" -> "ended"
                    [] next = "missing" -> "aborted"
                    [] OTHER -> "sent"
       /\ who' = IF next = "next" THEN "sub" ELSE who
       /\ rctx' = IF next = "next" THEN [rctx EXCEPT !.sub = NoRange] ELSE rctx
       /\ asked' = IF next = "next" THEN Append(asked, x.start) ELSE asked

Stays(at) == step' = at /\ UNCHANGED <<sctx, who, rctx, asked>>

(* The end of a response.  A subrequest is done once all of it is sent. *)
Close(blocked) ==
    CASE who = "main" /\ ~sctx.on -> Stays("ended")
      [] who = "main" /\ sctx.on -> GoOn([sctx EXCEPT !.last = TRUE], blocked)
      [] who = "sub" /\ blocked -> Stays("sent")
      [] who = "sub" /\ ~blocked -> GoOn([sctx EXCEPT !.sr = "done"], blocked)

LastBuf ==
    /\ step = "body"
    /\ doc.source # "file"
    /\ resp.pos = resp.end
    /\ Close(buffered)
    /\ UNCHANGED <<doc, q, ver, resp, hdr, out, buffered, breaks>>

(* The origin breaks off: what has come is flushed.  The main request ends *)
(* without a last buffer; a subrequest is done all the same.               *)
Broken ==
    /\ step = "body"
    /\ doc.source # "file"
    /\ resp.pos < resp.end
    /\ breaks < MaxBreaks
    /\ breaks' = breaks + 1
    /\ IF who = "main" THEN Stays("aborted") ELSE Close(buffered)
    /\ UNCHANGED <<doc, q, ver, resp, hdr, out, buffered>>

(* The client reads: what was buffered is sent, and the writer runs the    *)
(* filters with no buffers.                                                *)
Drain ==
    /\ buffered
    /\ step \in {"body", "sent"}
    /\ buffered' = FALSE
    /\ IF step = "sent" THEN Close(FALSE) ELSE Stays(step)
    /\ UNCHANGED <<doc, q, ver, resp, hdr, out, breaks>>

Next ==
    \/ \E request \in Requests : Ask(request)
    \/ Begin
    \/ Changes
    \/ PlainResponse
    \/ \E a \in Origin(sctx.start, ver, doc.length[ver]) : Response(a)
    \/ \E n \in 1..BufSize : Body(n)
    \/ FileBody
    \/ LastBuf
    \/ Broken
    \/ Drain

Spec == Init /\ [][Next]_vars

-----------------------------------------------------------------------------

(* One document: it has an ETag, or it did not change.  Slices also need   *)
(* the range filter: ngx_http_slice_get_start does not look at max_ranges, *)
(* and with "max_ranges 0" a response that starts at a later slice goes    *)
(* out as the whole one.                                                   *)
OneDocument == /\ doc.tag # "none" \/ ver = 1
               /\ doc.source = "slices" => doc.max_ranges # 0

Whole == IF hdr.status = 206 /\ Len(hdr.parts) = 1
         THEN Bytes(hdr.v, hdr.parts[1].start, hdr.parts[1].end) ELSE Bytes(hdr.v, 0, hdr.n)

(* The client of a 200 or of a 206 with one range gets the bytes its header *)
(* announces, in order, from one version of the document, whatever buffers  *)
(* and slices they come in (ngx_http_range_singlepart_body: ctx->offset     *)
(* follows the buffers, a subrequest's starts at its slice), and all of     *)
(* them when the answer ends well.  A slice its origin broke off leaves a   *)
(* gap: the subrequest counts as done.                                      *)
AskedBytes ==
    hdr.status \in {200, 206} /\ Len(hdr.parts) <= 1 /\ OneDocument =>
        /\ breaks = 0 => IsPrefix(out, Whole)
        /\ breaks = 0 /\ step = "ended" => out = Whole
        /\ \A k \in 1..Len(out) : out[k][2] = hdr.v /\ \E j \in 1..Len(Whole) : out[k] = Whole[j]
        /\ \A k \in 2..Len(out) : out[k - 1][3] < out[k][3]

(* A multipart answer is made of its parts: each part header is followed by *)
(* the bytes it names, there are as many as the header has ranges, and the  *)
(* Content-Length of ngx_http_range_multipart_header is what is sent.       *)
PartsWhole ==
    Len(hdr.parts) > 1 /\ step = "ended" =>
        /\ Len(out) + Len(hdr.parts) = hdr.length
        /\ SelectSeq(out, LAMBDA e : e[1] = "part")
             = [k \in 1..Len(hdr.parts) |-> <<"part", hdr.parts[k].start, hdr.parts[k].end>>]
        /\ \A k \in 1..Len(out) :
             out[k][1] = "part" =>
               /\ \A i \in out[k][2]..(out[k][3] - 1) : out[k + 1 + i - out[k][2]] = <<"byte", hdr.v, i>>
               /\ out[k + 1 + out[k][3] - out[k][2]][1] # "byte"

(* The positions a specifier names in a document of n bytes. *)
Named(spec, n) ==
    CASE spec.kind = "span" -> {i \in 0..(n - 1) : spec.a <= i /\ i <= spec.b}
      [] spec.kind = "open" -> {i \in 0..(n - 1) : spec.a <= i}
      [] spec.kind = "suffix" -> {i \in 0..(n - 1) : n - spec.a <= i}
      [] spec.kind = "bad" -> {}

(* The range filter answers 206 with the satisfiable ranges of the Range   *)
(* header in their order, at most max_ranges of them and one of a response *)
(* that comes in parts; 416 only when none can be satisfied or the header  *)
(* is wrong; and a 206 honours If-Range, also when the slices come from an *)
(* origin that changes.                                                    *)
AnswerChosen ==
    LET specs == q.range[2]
        named == [k \in 1..Len(specs) |-> Named(specs[k], hdr.n)]
    IN /\ hdr.status = 206 =>
            /\ \A k \in 1..Len(specs) : specs[k].kind # "bad"
            /\ [k \in 1..Len(hdr.parts) |-> hdr.parts[k].start..(hdr.parts[k].end - 1)]
                 = SelectSeq(named, LAMBDA s : s # {})
            /\ Len(hdr.parts) \in 1..(IF doc.source = "file" THEN doc.max_ranges ELSE 1)
            /\ q.ifRange[1] # "none" => q.ifRange[2] = hdr.v
       /\ hdr.status = 416 /\ hdr.n > 0 =>
            \/ \E k \in 1..Len(specs) : specs[k].kind = "bad"
            \/ \A k \in 1..Len(specs) : named[k] = {}

(* A client is told 304 only when it has this version, and 412 only when   *)
(* its condition on the version fails; otherwise the conditions hold of    *)
(* the version it is sent, also of one fetched in slices                   *)
(* (ngx_http_test_if_match, ngx_http_test_if_modified and _unmodified).    *)
ConditionsHold ==
    LET named(header, weak) == header[1] = "any" \/ \E t \in header[2] :
                                   doc.tag # "none" /\ t[2] = hdr.v /\ (weak \/ t[1] = (doc.tag = "weak"))
        unmodified == q.ius = 0 \/ (doc.dated /\ hdr.v <= q.ius)
        meets == q.im[1] = "none" \/ named(q.im, FALSE)
    IN /\ hdr.status = 304 => /\ q.inm[1] # "none" \/ q.ims # 0
                              /\ q.inm[1] # "none" => named(q.inm, TRUE)
                              /\ q.ims # 0 => doc.dated /\ hdr.v <= q.ims
                              /\ out = <<>>
       /\ hdr.status = 412 => ~unmodified \/ ~meets
       /\ hdr.status \in {200, 206, 304} /\ ~doc.disable_not_modified => unmodified /\ meets

(* The slices asked for are aligned and come once, in order, and all but   *)
(* the first hold bytes of the answer: after its header the slice filter   *)
(* moves on to the first slice the range filter's answer needs             *)
(* (ngx_http_slice_header_filter) and stops after the last.                *)
SlicesNeeded ==
    OneDocument =>
        /\ \A k \in 1..Len(asked) : asked[k] % Size = 0
        /\ \A k \in 2..Len(asked) :
             /\ asked[k - 1] < asked[k]
             /\ asked[k] < hdr.offset + hdr.length
             /\ asked[k] + Size > hdr.offset

-----------------------------------------------------------------------------

(***************************************************************************)
(* ngx_http_chunked_filter_module.c: a response of unknown length gets the *)
(* chunked encoding, or ends with its connection.  The bytes written are   *)
(* those of HttpChunked, whose parser (ngx_http_parse_chunked) reads them  *)
(* back.                                                                   *)
(***************************************************************************)

CONSTANTS
    Sizes,        \* sizes of buffers, 0 for a special one
    MaxLinks,     \* buffers in a chain
    ChunkedMaxCalls      \* calls of the body filter

VARIABLES
    creq,        \* the request: status, version, head, sub, length, trailers, chunked_transfer_encoding
    chdr,        \* what the header filter made of it: step, chunked, keepalive, length
    taken,    \* bytes of the body taken so far
    over,     \* the last buffer was passed on
    calls,
    wire      \* what was written

chunkedVars == <<creq, chdr, taken, over, calls, wire>>

NoBody(x) == x.status \in {204, 304} \/ x.status < 200 \/ x.head

ngx_http_chunked_header_filter(x) ==
    IF NoBody(x) \/ x.sub \/ (x.length # -1 /\ x.trailers = -1)
    THEN [step |-> "body", chunked |-> FALSE, keepalive |-> TRUE, length |-> x.length]
    ELSE IF x.version >= 11 /\ x.encode
    THEN [step |-> "body", chunked |-> TRUE, keepalive |-> TRUE,
          length |-> IF x.trailers # -1 THEN -1 ELSE x.length]
    ELSE [step |-> "body", chunked |-> FALSE, keepalive |-> x.length # -1, length |-> x.length]

CrLf == << <<"cr", 0>>, <<"lf", 0>> >>

(* "%xO" CRLF: no leading zeros. *)
ChunkSize(n) == (IF n < 16 THEN << <<"size", n>> >> ELSE << <<"size", n \div 16>>, <<"size", n % 16>> >>) \o CrLf

(* ngx_http_chunked_create_trailers: the last chunk, with the CRLF that    *)
(* ends the data before it, and n trailer lines.                           *)
ngx_http_chunked_create_trailers(n) ==
    CrLf \o << <<"size", 0>> >> \o CrLf
         \o FoldLeft(LAMBDA done, k : done \o << <<"tr", 0>> >> \o CrLf, <<>>, [k \in 1..n |-> k]) \o CrLf

Data(from, n) == [k \in 1..n |-> <<"data", from + k>>]

(* A chain of buffers: <<sizes>>, last says its last buffer is the last of *)
(* all.                                                                    *)
ngx_http_chunked_body_filter(chain, last) ==
    LET size == FoldLeft(LAMBDA sum, n : sum + n, 0, chain)
        lines == IF creq.trailers > 0 THEN creq.trailers ELSE 0
        tail == ngx_http_chunked_create_trailers(lines)
    IN (IF size > 0 THEN ChunkSize(size) \o Data(taken, size) ELSE <<>>)
       \o (CASE last -> IF size = 0 THEN SubSeq(tail, 3, Len(tail)) ELSE tail
             [] ~last /\ size > 0 -> CrLf
             [] ~last /\ size = 0 -> <<>>)

-----------------------------------------------------------------------------

ChunkedInit == /\ creq = [status |-> 0]
                /\ chdr = [step |-> "header", chunked |-> FALSE, keepalive |-> TRUE, length |-> -1]
                /\ taken = 0
                /\ over = FALSE
                /\ calls = 0
                /\ wire = <<>>

(* trailers is -1 when none are expected. *)
SendHeader(status, version, head, sub, length, trailers, encode) ==
    /\ chdr.step = "header"
    /\ creq' = [status |-> status, version |-> version, head |-> head, sub |-> sub, length |-> length,
             trailers |-> trailers, encode |-> encode]
    /\ chdr' = ngx_http_chunked_header_filter(creq')
    /\ UNCHANGED <<taken, over, calls, wire>>

(* The body filter gets the buffers of a body that is as long as announced. *)
Filter(chain, last) ==
    LET size == FoldLeft(LAMBDA sum, n : sum + n, 0, chain)
    IN /\ chdr.step = "body"
       /\ ~NoBody(creq)
       /\ ~over
       /\ calls < ChunkedMaxCalls
       /\ calls' = calls + 1
       /\ creq.length # -1 => taken + size <= creq.length /\ (last => taken + size = creq.length)
       /\ wire' = wire \o (IF chdr.chunked THEN ngx_http_chunked_body_filter(chain, last) ELSE Data(taken, size))
       /\ taken' = taken + size
       /\ over' = last
       /\ UNCHANGED <<creq, chdr>>

ChunkedNext ==
           \/ \E status \in {200, 204, 304}, version \in {10, 11}, head, sub, encode \in BOOLEAN,
                 length \in {-1, 17}, trailers \in {-1, 0, 2} : SendHeader(status, version, head, sub, length, trailers, encode)
           \/ \E chain \in UNION {[1..n -> Sizes] : n \in 1..MaxLinks}, last \in BOOLEAN : Filter(chain, last)

ChunkedSpec == ChunkedInit /\ [][ChunkedNext]_chunkedVars

-----------------------------------------------------------------------------

(* What the parser reads of the bytes mem: the data, and whether it found  *)
(* the end and nothing behind it.                                          *)
RECURSIVE ReadChunks(_, _, _, _)

ReadChunks(p, mem, pos, got) ==
    LET x == ngx_http_parse_chunked(p, mem, pos, Len(mem))
        n == IF x.x.size < Len(mem) - x.pos THEN x.x.size ELSE Len(mem) - x.pos
    IN IF x.rc = "ok"
       THEN ReadChunks([x.x EXCEPT !.size = @ - n], mem, x.pos + n, got \o SubSeq(mem, x.pos + 1, x.pos + n))
       ELSE [rc |-> x.rc, pos |-> x.pos, got |-> got]

(* What the filter writes is what the parser of chunked bodies reads back: *)
(* after every call all of the data taken and no more, whatever chains it  *)
(* came in, and the end exactly when the last buffer has been passed on,   *)
(* with nothing behind it (ngx_http_chunked_body_filter: the CRLF of a     *)
(* chunk moves into the last one).                                         *)
ReadBack ==
    chdr.chunked =>
        LET x == ReadChunks(Ctx0, wire, 0, <<>>)
        IN /\ x.got = Data(0, taken)
           /\ x.rc = IF over THEN "done" ELSE "again"
           /\ x.pos = Len(wire)

(* A client can tell where every body ends: by its length, by the last     *)
(* chunk, or because the connection is not kept; and it never gets a       *)
(* length along with chunks (ngx_http_chunked_header_filter).              *)
EndVisible ==
    chdr.step = "body" /\ ~creq.sub /\ ~NoBody(creq) =>
        /\ chdr.chunked \/ chdr.length # -1 \/ ~chdr.keepalive
        /\ chdr.chunked => chdr.length = -1 /\ creq.version >= 11
        /\ over /\ ~chdr.chunked /\ chdr.length # -1 => Len(wire) = chdr.length

-----------------------------------------------------------------------------

(***************************************************************************)
(* The way of a response out of nginx: ngx_http_copy_filter and            *)
(* ngx_output_chain copy what may not be sent as it is into a few buffers  *)
(* of their own, ngx_http_write_filter holds back small output and keeps   *)
(* to limit_rate, and ngx_linux_sendfile_chain hands the chain to the      *)
(* socket.  A buffer holds the bytes a..b-1 of the response, in memory, in *)
(* a file or both; the offset of a byte in the file is its number.         *)
(***************************************************************************)

CONSTANTS Chains,       \* the chains a handler passes: sequences of links
          Settings,     \* the locations and connections considered
          Sock,         \* the size of the socket buffer
          Page,         \* ngx_pagesize, and directio_alignment
          Iovs,         \* NGX_IOVS_PREALLOCATE
          Tps,          \* milliseconds in a second
          OutputMaxCalls,     \* calls of ngx_http_output_filter by the handler
          MaxNow        \* the last millisecond considered

VARIABLES conf,         \* the setting
          o,            \* the contexts of the filters and of the connection
          given,        \* what the handler has passed so far
          now           \* the clock, in milliseconds since the request

outputVars == <<conf, o, given, now>>

NGX_ERROR == -1

NGX_AGAIN == -2

Small(x, y) == IF x < y THEN x ELSE y

ngx_buf_size(b) == b.b - b.a

ngx_buf_special(b) == (b.flush \/ b.last) /\ ~b.mem /\ ~b.file

-----------------------------------------------------------------------------

(* The socket.  in is the part of r->out that is still to be sent; a call  *)
(* has more than one outcome, because sendfile may be interrupted.         *)

(* The leading buffers in memory, up to the limit: how many bytes, how     *)
(* many iovecs, and the rest of the chain.                                 *)
RECURSIVE ngx_output_chain_to_iovec(_, _, _, _)

ngx_output_chain_to_iovec(bufs, in, limit, vec) ==
    LET b == bufs[Head(in)]
        size == Small(ngx_buf_size(b), limit - vec.size)
    IN CASE in = <<>> \/ vec.size >= limit -> [vec EXCEPT !.rest = in]
         [] in # <<>> /\ vec.size < limit /\ ngx_buf_special(b) ->
                ngx_output_chain_to_iovec(bufs, Tail(in), limit, vec)
         [] in # <<>> /\ vec.size < limit /\ ~ngx_buf_special(b) /\ (b.file \/ vec.count = Iovs) ->
                [vec EXCEPT !.rest = in]
         [] OTHER -> ngx_output_chain_to_iovec(bufs, Tail(in), limit,
                                               [vec EXCEPT !.size = @ + size, !.count = @ + 1])

(* The neighbouring parts of the file; a part cut by the limit is cut at   *)
(* the end of a page, unless the buffer ends before it.                    *)
RECURSIVE ngx_chain_coalesce_file(_, _, _, _)

ngx_chain_coalesce_file(bufs, in, limit, total) ==
    LET b == bufs[Head(in)]
        cut == limit - total
        aligned == ((b.a + cut + Page - 1) \div Page) * Page
        sum == total + ngx_buf_size(b)
        rest == Tail(in)
    IN CASE ngx_buf_size(b) > cut -> total + IF aligned <= b.b THEN aligned - b.a ELSE cut
         [] ngx_buf_size(b) <= cut /\ rest # <<>> /\ sum < limit
              /\ bufs[Head(rest)].file /\ bufs[Head(rest)].a = b.b ->
                ngx_chain_coalesce_file(bufs, rest, limit, sum)
         [] OTHER -> sum

(* The bytes that went are dropped from the buffers; buffers that are      *)
(* special or used up leave the chain.                                     *)
RECURSIVE ngx_chain_update_sent(_, _)

ngx_chain_update_sent(x, sent) ==
    LET i == Head(x.out)
        b == x.bufs[i]
        n == Small(sent, ngx_buf_size(b))
        went == [x EXCEPT !.bufs[i].a = @ + n]
    IN CASE x.out = <<>> -> x
         [] x.out # <<>> /\ ngx_buf_special(b) -> ngx_chain_update_sent([x EXCEPT !.out = Tail(@)], sent)
         [] x.out # <<>> /\ ~ngx_buf_special(b) /\ sent = 0 -> x
         [] x.out # <<>> /\ ~ngx_buf_special(b) /\ sent # 0 /\ sent >= ngx_buf_size(b) ->
                ngx_chain_update_sent([went EXCEPT !.out = Tail(@)], sent - n)
         [] OTHER -> went

ngx_writev(x, size) == IF size = 0 THEN {0} ELSE IF x.room = 0 THEN {NGX_AGAIN} ELSE {Small(size, x.room)}

(* Nothing when someone has truncated the file.                            *)
ngx_linux_sendfile(x, pos, size) ==
    LET n == Small(Small(size, x.room), conf.file - pos)
    IN IF pos >= conf.file THEN {NGX_ERROR} ELSE IF x.room = 0 THEN {NGX_AGAIN} ELSE {1, n}

OutputBytes(b) == [k \in 1 .. ngx_buf_size(b) |-> b.a + k - 1]

(* The socket took the first n bytes of the chain.                         *)
Took(x, n) ==
    LET bytes == FlattenSeq([k \in DOMAIN x.out |-> OutputBytes(x.bufs[x.out[k]])])
    IN ngx_chain_update_sent([x EXCEPT !.room = @ - n, !.wire = @ \o SubSeq(bytes, 1, n)], n)

RECURSIVE SendLoop(_, _, _)

SendVec(x, limit, send, header) ==
    LET file == header.count = 0 /\ header.rest # <<>> /\ x.bufs[Head(header.rest)].file /\ send < limit
        size == IF file THEN ngx_chain_coalesce_file(x.bufs, header.rest, limit - send, 0) ELSE header.size
        went == IF file THEN ngx_linux_sendfile(x, x.bufs[Head(header.rest)].a, size) ELSE ngx_writev(x, size)
        Next1(n, y) == IF n = size /\ (send + n >= limit \/ y.out = <<>>) THEN {y} ELSE SendLoop(y, limit, send + n)
    IN UNION {CASE n = NGX_ERROR -> {[x EXCEPT !.error = TRUE]}
                [] n = NGX_AGAIN -> {[Took(x, 0) EXCEPT !.ready = FALSE]}
                [] OTHER -> Next1(n, Took(x, n)) : n \in went}

SendLoop(x, limit, send) ==
    SendVec(x, limit, send,
            ngx_output_chain_to_iovec(x.bufs, x.out, limit - send, [size |-> 0, count |-> 0, rest |-> <<>>]))

(* Without a limit everything is offered: all the bytes are fewer than     *)
(* NGX_SENDFILE_MAXSIZE.                                                   *)
ngx_linux_sendfile_chain(x, limit) ==
    IF ~x.ready THEN {x} ELSE SendLoop(x, IF limit = 0 THEN 1000 ELSE limit, 0)

-----------------------------------------------------------------------------

(* ngx_http_write_filter.                                                  *)

Result(x, rc) == [x EXCEPT !.rc = rc]

Delay(x, d) == [x EXCEPT !.delayed = TRUE, !.due = now + d]

Over(n, after) == IF n > after THEN n - after ELSE 0

(* What remains of the rate, or the largest chunk.                         *)
Limit(x) ==
    LET rate == conf.limit_rate * (now \div Tps + 1) - (Len(x.wire) - conf.limit_rate_after)
    IN IF conf.limit_rate = 0 THEN conf.sendfile_max_chunk
       ELSE IF conf.sendfile_max_chunk # 0 /\ rate > 0 THEN Small(rate, conf.sendfile_max_chunk)
       ELSE rate

(* What a send that went from before bytes to those of x leaves behind: a  *)
(* pause for the rate, or for the other connections.                       *)
Paused(x, before, limit) ==
    LET after == IF conf.limit_rate = 0 THEN 0 ELSE conf.limit_rate_after
        sent == IF after = 0 THEN before ELSE Over(before, after)
        delay == IF conf.limit_rate = 0 THEN 0 ELSE ((Over(Len(x.wire), after) - sent) * Tps) \div conf.limit_rate
    IN CASE delay > 0 -> Delay(x, delay)
         [] delay = 0 /\ limit # 0 /\ x.ready /\ Len(x.wire) - sent >= limit - 2 * Page -> Delay(x, 1)
         [] OTHER -> x

Buffered(x) ==
    IF x.out # <<>> THEN Result([x EXCEPT !.buffered = @ \cup {"write"}], "again")
    ELSE Result([x EXCEPT !.buffered = @ \ {"write"}], "ok")

Send(x, limit) ==
    {IF y.error THEN Result(y, "error") ELSE Buffered(Paused(y, Len(x.wire), limit)) :
       y \in ngx_linux_sendfile_chain(x, limit)}

(* A chain without bytes is done, if it said something.                    *)
Emptied(x, said) ==
    IF said THEN Result([x EXCEPT !.out = <<>>, !.buffered = @ \ {"write"}], "ok") ELSE Result(x, "error")

(* The rate is used up.                                                    *)
Late(x) ==
    Result([Delay(x, ((-Limit(x)) * Tps) \div conf.limit_rate + 1) EXCEPT !.buffered = @ \cup {"write"}], "again")

(* The chain with what was added: too small a part is kept, and what is    *)
(* delayed waits for its timer.                                            *)
ngx_http_write_filter(x0, in) ==
    LET x == [x0 EXCEPT !.out = @ \o in]
        links == {x.bufs[i] : i \in Range(x.out)}
        size == FoldSeq(LAMBDA i, n : n + ngx_buf_size(x.bufs[i]), 0, x.out)
        last == \E b \in links : b.last
        flush == \E b \in links : b.flush \/ b.recycled
    IN CASE x0.error \/ \E b \in links : ngx_buf_size(b) = 0 /\ ~ngx_buf_special(b) -> {Result(x0, "error")}
         [] OTHER ->
            IF ~last /\ ~flush /\ in # <<>> /\ size < conf.postpone_output THEN {Result(x, "ok")}
            ELSE IF x.delayed THEN {Result([x EXCEPT !.buffered = @ \cup {"write"}], "again")}
            ELSE IF size = 0 THEN {Emptied(x, last \/ flush)}
            ELSE IF conf.limit_rate # 0 /\ Limit(x) <= 0 THEN {Late(x)}
            ELSE Send(x, Limit(x))

-----------------------------------------------------------------------------

(* ngx_output_chain.                                                       *)

ngx_output_chain_as_is(x, b) ==
    \/ ngx_buf_special(b)
    \/ /\ ~(b.file /\ b.direct)
       /\ conf.sendfile \/ b.mem
       /\ conf.need_in_memory => b.mem
       /\ conf.need_in_temp => ~b.mem \/ b.temp

(* Without sendfile a buffer that is in memory too is no file buffer.      *)
Unfiled(b) == [b EXCEPT !.file = @ /\ (conf.sendfile \/ ~b.mem \/ b.direct)]

NewBuf(x, cap, recycled, tag) ==
    [x EXCEPT !.bufs = Append(@, [a |-> 0, b |-> 0, mem |-> TRUE, file |-> FALSE, temp |-> TRUE, direct |-> FALSE,
                                  flush |-> FALSE, last |-> FALSE, chain |-> FALSE, recycled |-> recycled,
                                  tag |-> tag, cap |-> cap]),
              !.buf = Len(x.bufs) + 1]

(* The size of a buffer of its own, up to the next aligned offset or for   *)
(* the little that is left; 0 for a common buffer.                         *)
ngx_output_chain_align_file_buf(b) ==
    LET mis == b.a % Page
    IN CASE ~b.direct -> 0
         [] b.direct /\ mis = 0 -> IF ngx_buf_size(b) >= conf.size THEN 0 ELSE ngx_buf_size(b)
         [] OTHER -> Small(Page - mis, ngx_buf_size(b))

GetBufUnflushed(x, b) ==
    LET size == ngx_buf_size(b)
        own == /\ b.chain
               /\ \/ size < conf.size
                  \/ ~x.directio /\ conf.num = 1 /\ 4 * size < 5 * conf.size
        y == NewBuf(x, IF own THEN size ELSE conf.size, FALSE, TRUE)
    IN [y EXCEPT !.allocated = @ + 1]

ngx_output_chain_get_buf(x, b) ==
    LET size == ngx_buf_size(b)
        own == /\ b.chain
               /\ \/ size < conf.size
                  \/ ~x.directio /\ conf.num = 1 /\ 4 * size < 5 * conf.size
        y == NewBuf(x, IF own THEN size ELSE conf.size, ~own, TRUE)
    IN [y EXCEPT !.allocated = @ + 1]

(* A buffer to copy into, if there is one.                                 *)
GotBuf(x, passed) ==
    LET b == x.bufs[Head(x.in)]
        own == ngx_output_chain_align_file_buf(b)
        y == [x EXCEPT !.directio = @ \/ b.direct]
    IN CASE x.buf # 0 -> x
         [] x.buf = 0 /\ own > 0 -> NewBuf(y, own, FALSE, FALSE)
         [] x.buf = 0 /\ own = 0 /\ x.free # <<>> -> [y EXCEPT !.buf = Head(x.free), !.free = Tail(@)]
         [] x.buf = 0 /\ own = 0 /\ x.free = <<>> /\ (passed # <<>> \/ x.allocated = conf.num) -> y
         [] OTHER -> ngx_output_chain_get_buf(y, b)

(* A read by a thread is done in two calls: the first one posts the task,  *)
(* the second takes what it has read.                                      *)
ngx_thread_read(x) == conf.threads /\ ~x.task.complete

ngx_output_chain_copy_buf(x) ==
    LET i == Head(x.in)
        src == x.bufs[i]
        dst == x.bufs[x.buf]
        size == Small(ngx_buf_size(src), dst.cap)
        done == size = ngx_buf_size(src)
        from == IF conf.threads /\ ~src.mem THEN x.task.a ELSE src.a
        copy == [dst EXCEPT !.a = from, !.b = from + size, !.file = src.file /\ conf.sendfile /\ ~x.directio,
                            !.flush = IF done THEN src.flush ELSE @,
                            !.last = IF done THEN src.last ELSE @,
                            !.chain = IF done THEN src.chain ELSE @]
    IN CASE ~src.mem /\ ngx_thread_read(x) -> 
                Result([x EXCEPT !.aio = TRUE, !.task = [a |-> src.a, complete |-> FALSE]], "again")
         [] ~src.mem /\ ~ngx_thread_read(x) /\ src.a + size > conf.file -> Result(x, "error")
         [] OTHER -> Result([x EXCEPT !.bufs[i].a = @ + size, !.bufs[x.buf] = copy, 
                                      !.task.complete = FALSE], "ok")

(* Links go on as they are or copied, while there are buffers.             *)
RECURSIVE Fill(_, _)

Copied(y, passed) ==
    LET rest == IF ngx_buf_size(y.bufs[Head(y.in)]) = 0 THEN Tail(y.in) ELSE y.in
    IN IF y.rc = "again" /\ passed # <<>> THEN [x |-> Result(y, "ok"), out |-> passed]
       ELSE IF y.rc # "ok" THEN [x |-> y, out |-> passed]
       ELSE Fill([y EXCEPT !.in = rest, !.buf = 0], Append(passed, y.buf))

CopyInto(got, passed) ==
    IF got.buf = 0 THEN [x |-> Result(got, "ok"), out |-> passed]
    ELSE Copied(ngx_output_chain_copy_buf(got), passed)

Fill(x, passed) ==
    LET i == Head(x.in)
        b == x.bufs[i]
        as_is == [x EXCEPT !.bufs[i] = Unfiled(b)]
    IN IF x.in = <<>> THEN [x |-> Result(x, "ok"), out |-> passed]
       ELSE IF ngx_buf_size(b) = 0 /\ ~ngx_buf_special(b) THEN Fill([x EXCEPT !.in = Tail(@)], passed)
       ELSE IF ngx_output_chain_as_is(x, b) THEN Fill([as_is EXCEPT !.in = Tail(@)], Append(passed, i))
       ELSE CopyInto(GotBuf(as_is, passed), passed)

(* The buffers that are empty leave the busy ones, and those of the filter *)
(* are free again.                                                         *)
RECURSIVE ngx_chain_update_chains(_)

ngx_chain_update_chains(x) ==
    LET i == Head(x.busy)
        b == x.bufs[i]
        left == [x EXCEPT !.busy = Tail(@)]
    IN IF x.busy = <<>> \/ ngx_buf_size(b) # 0 THEN x
       ELSE IF b.tag THEN ngx_chain_update_chains([left EXCEPT !.free = <<i>> \o @])
       ELSE ngx_chain_update_chains(left)

RECURSIVE OutputLoop(_, _)

Filled(f, last) ==
    LET Then(w) == IF w.rc = "error" THEN {w}
                   ELSE OutputLoop(ngx_chain_update_chains([w EXCEPT !.busy = @ \o f.out]), w.rc)
    IN IF f.x.rc # "ok" THEN {f.x}
       ELSE IF f.out = <<>> /\ last # "none" THEN {Result(f.x, IF f.x.in # <<>> THEN "again" ELSE last)}
       ELSE UNION {Then(w) : w \in ngx_http_write_filter(f.x, f.out)}

OutputLoop(x, last) == IF x.aio THEN {Result(x, "again")} ELSE Filled(Fill(x, <<>>), last)

ngx_output_chain(x, in) ==
    LET as_is == [x EXCEPT !.bufs[Head(in)] = Unfiled(@)]
    IN IF x.in = <<>> /\ x.busy = <<>> /\ ~x.aio /\ in = <<>> THEN ngx_http_write_filter(x, in)
       ELSE IF x.in = <<>> /\ x.busy = <<>> /\ ~x.aio /\ Len(in) = 1 /\ ngx_output_chain_as_is(x, x.bufs[in[1]])
       THEN ngx_http_write_filter(as_is, in)
       ELSE OutputLoop([x EXCEPT !.in = @ \o in], "none")

ngx_http_copy_filter(x, in) ==
    {[y EXCEPT !.buffered = IF y.in = <<>> THEN @ \ {"copy"} ELSE @ \cup {"copy"}] : y \in ngx_output_chain(x, in)}

(* An error of any filter ends the connection.                             *)
ngx_http_output_filter(x, in) ==
    {[y EXCEPT !.error = @ \/ y.rc = "error"] : y \in ngx_http_copy_filter(x, in)}

-----------------------------------------------------------------------------

(* The handler, the events and the client.                                 *)

OutputInit ==
          /\ conf \in Settings
          /\ o = [bufs |-> <<>>, in |-> <<>>, buf |-> 0, busy |-> <<>>, free |-> <<>>, allocated |-> 0, directio |-> FALSE,
                  aio |-> FALSE, task |-> [a |-> 0, complete |-> FALSE], out |-> <<>>, wire |-> <<>>, room |-> Sock, ready |-> TRUE,
                  delayed |-> FALSE, due |-> 0, buffered |-> {}, error |-> FALSE, rc |-> "ok"]
          /\ given = [calls |-> 0, bytes |-> 0, flushed |-> 0, closed |-> FALSE]
          /\ now = 0

(* The buffers of a chain: its bytes follow those passed before.           *)
Links(chain, closing) ==
    LET at(k) == given.bytes + FoldSeq(LAMBDA l, n : n + l.size, 0, SubSeq(chain, 1, k))
        end(k) == closing /\ k = Len(chain)
    IN [k \in DOMAIN chain |->
          [a |-> at(k - 1), b |-> at(k), mem |-> chain[k].mem, file |-> chain[k].file, temp |-> chain[k].temp,
           direct |-> chain[k].direct, flush |-> chain[k].flush, last |-> end(k), chain |-> end(k),
           recycled |-> FALSE, tag |-> FALSE, cap |-> 0]]

(* A call of the handler with a chain, the last one perhaps.               *)
HandlerSends(chain, closing) ==
    LET links == Links(chain, closing)
        n == Len(o.bufs)
        flush == {k \in DOMAIN links : links[k].flush \/ links[k].last}
    IN /\ ~given.closed /\ ~o.error /\ given.calls < OutputMaxCalls
       /\ given' = [calls |-> given.calls + 1, bytes |-> links[Len(links)].b, closed |-> closing,
                    flushed |-> IF flush = {} THEN given.flushed ELSE links[CHOOSE k \in flush : \A j \in flush : j <= k].b]
       /\ o' \in ngx_http_output_filter([o EXCEPT !.bufs = @ \o links], [k \in DOMAIN links |-> n + k])
       /\ UNCHANGED <<conf, now>>

(* What a write event does: nothing while the output is delayed or a       *)
(* thread reads for it.                                                    *)
ngx_http_writer(x) ==
    IF x.delayed \/ x.aio \/ x.buffered = {} THEN {x} ELSE ngx_http_output_filter(x, <<>>)

WriteEvent ==
    /\ ~o.ready /\ o.room > 0 /\ ~o.error
    /\ o' \in ngx_http_writer([o EXCEPT !.ready = TRUE])
    /\ UNCHANGED <<conf, given, now>>

DelayOver ==
    /\ o.delayed /\ now >= o.due /\ ~o.error
    /\ o' \in ngx_http_writer([o EXCEPT !.delayed = FALSE])
    /\ UNCHANGED <<conf, given, now>>

ngx_http_copy_thread_event_handler ==
    /\ o.aio /\ ~o.error
    /\ o' \in ngx_http_writer([o EXCEPT !.aio = FALSE, !.task.complete = TRUE])
    /\ UNCHANGED <<conf, given, now>>

ClientReads ==
    /\ o.room < Sock
    /\ o' = [o EXCEPT !.room = Sock]
    /\ UNCHANGED <<conf, given, now>>

(* Time matters to a limited rate and to a timer.                          *)
Tick ==
    /\ now < MaxNow /\ (conf.limit_rate # 0 \/ o.delayed)
    /\ now' = now + 1
    /\ UNCHANGED <<conf, o, given>>

OutputNext ==
          \/ \E chain \in Chains, closing \in BOOLEAN : HandlerSends(chain, closing)
          \/ WriteEvent \/ DelayOver \/ ngx_http_copy_thread_event_handler \/ ClientReads \/ Tick

OutputSpec == OutputInit /\ [][OutputNext]_outputVars

-----------------------------------------------------------------------------

(* Properties.                                                             *)

(* The client gets the bytes of the response in order and each one once,   *)
(* whatever was copied, held back, cut at a page or sent in part.          *)
WireExact == \A k \in DOMAIN o.wire : o.wire[k] = k - 1

(* When no filter says that it holds output (r->buffered, c->buffered),    *)
(* everything up to the last flush point, or to the end, has been sent:    *)
(* a request that is finalized then loses nothing.                         *)
FlushSent == ~o.error /\ o.buffered = {} => Len(o.wire) >= given.flushed

(* Output that is held has something that will wake it: the socket is      *)
(* full, a timer runs or a thread reads.  With edge-triggered events       *)
(* nothing else would.                                                     *)
HeldWakes == ~o.error /\ o.buffered # {} => ~o.ready \/ o.delayed \/ o.aio

(* No more than limit_rate bytes a second leave after the first            *)
(* limit_rate_after, but for the end of a page of a file.                  *)
RateKept ==
    conf.limit_rate # 0 =>
       Len(o.wire) <= conf.limit_rate * (now \div Tps + 1) + conf.limit_rate_after + Page - 1

(* The buffers of the copy filter are no more than output_buffers, and one *)
(* that is free is in no chain, so no copy overwrites bytes that wait.     *)
BuffersSafe ==
    /\ o.allocated <= conf.num
    /\ \A k \in DOMAIN o.free : /\ o.free[k] \notin Range(o.out) \cup Range(o.busy) \cup {o.buf}
                                /\ \A j \in DOMAIN o.free : o.free[j] = o.free[k] => j = k

(* What is passed on is where the filters and the socket need it: in       *)
(* memory without sendfile or for a filter that reads it, and in memory    *)
(* that may be written for one that changes it.                            *)
AsNeeded ==
    \A k \in DOMAIN o.out :
       LET b == o.bufs[o.out[k]]
       IN \/ ngx_buf_special(b)
          \/ /\ b.mem \/ (conf.sendfile /\ ~conf.need_in_memory)
             /\ b.file => conf.sendfile /\ ~b.direct
             /\ conf.need_in_temp => b.temp
=============================================================================
