------------------------------- MODULE Http2 --------------------------------
(***************************************************************************)
(* HTTP/2: the header tables, the priorities, request bodies and output.   *)
(***************************************************************************)
EXTENDS Integers, Sequences, FiniteSets, FiniteSetsExt, SequencesExt

(* The dynamic table of HPACK that a HTTP/2 connection keeps for the       *)
(* header fields its client has sent (http/v2/ngx_http_v2_table.c): a ring *)
(* of entries, and a ring of bytes that their names and values are in.     *)
(*                                                                         *)
(* The client keeps a table of its own as RFC 7541 says and refers to its  *)
(* entries by index.  The n-th field has bytes that only it has.           *)

CONSTANTS TableSize,   (* 4096 *)
          Overhead,    (* of an entry: 32 *)
          Grow,        (* slots the ring of entries grows by: 64 *)
          NameLens, ValueLens,
          Sizes,       (* of the updates *)
          MaxFields, MaxUpdates

VARIABLE s

NameOf(n, len) == [i \in 1..len |-> 2 * n]

ValueOf(n, len) == [i \in 1..len |-> 2 * n + 1]

Cost(e) == Overhead + e.nl + e.vl

NoEntries == [up |-> FALSE, slot |-> <<>>, heap |-> <<>>, added |-> 0, deleted |-> 0, reused |-> 0,
              allocated |-> 0, size |-> 0, free |-> 0, storage |-> <<>>, pos |-> 0]

(* Slots are numbered from 0 in the code.                                  *)
EntryAt(h, n) == h.heap[h.slot[(n % h.allocated) + 1]]

-----------------------------------------------------------------------------

(* Whether the entry fits, after the oldest ones made room.                *)
Evicted(h, size) ==
    LET room(d) == h.free + MapThenSumSet(LAMBDA n : Cost(EntryAt(h, n)), h.deleted..(d - 1))
        d == Min({k \in h.deleted..h.added : size <= room(k)})
    IN [h EXCEPT !.deleted = d, !.free = room(d) - size]

ngx_http_v2_table_account(h, size) ==
    IF size <= h.free THEN [ok |-> TRUE, h |-> [h EXCEPT !.free = @ - size]]
    ELSE IF size > h.size THEN [ok |-> FALSE, h |-> [h EXCEPT !.deleted = h.added, !.free = h.size]]
    ELSE [ok |-> TRUE, h |-> Evicted(h, size)]

(* A string is written from pos on, its end at the start of the storage    *)
(* when it does not fit.                                                   *)
Written(h, bytes, avail) ==
    LET n == Len(bytes) IN
    IF avail >= n
    THEN [h EXCEPT !.storage = [i \in 1..TableSize |->
                                   IF i \in (h.pos + 1)..(h.pos + n) THEN bytes[i - h.pos] ELSE @[i]],
                   !.pos = @ + n]
    ELSE [h EXCEPT !.storage = [i \in 1..TableSize |->
                                   IF i <= n - avail THEN bytes[avail + i]
                                   ELSE IF i \in (h.pos + 1)..(h.pos + avail) THEN bytes[i - h.pos]
                                   ELSE @[i]],
                   !.pos = n - avail]

(* The ring is copied to a larger one when all its slots are in use.       *)
GrownAsIs(h) ==
    [h EXCEPT !.slot = @ \o [i \in 1..Grow |-> 0],
              !.added = h.allocated, !.deleted = 0, !.reused = 0, !.allocated = @ + Grow]

Grown(h) ==
    LET first == h.deleted % h.allocated IN
    [h EXCEPT !.slot = SubSeq(@, first + 1, h.allocated) \o SubSeq(@, 1, first) \o [i \in 1..Grow |-> 0],
              !.added = h.allocated, !.deleted = 0, !.reused = 0, !.allocated = @ + Grow]

Entry(h) ==
    IF h.reused = h.deleted THEN [at |-> Len(h.heap) + 1, h |-> h]
    ELSE [at |-> h.slot[(h.reused % h.allocated) + 1], h |-> [h EXCEPT !.reused = @ + 1]]

ngx_http_v2_add_header(h0, name, value) ==
    LET h == IF h0.up THEN h0
             ELSE [h0 EXCEPT !.up = TRUE, !.allocated = Grow, !.size = TableSize, !.free = TableSize,
                             !.slot = [i \in 1..Grow |-> 0],
                             !.storage = [i \in 1..TableSize |-> 0], !.pos = 0]
        a == ngx_http_v2_table_account(h, Overhead + Len(name) + Len(value))
        e == Entry(a.h)
        avail == TableSize - e.h.pos
        named == Written(e.h, name, avail)
        left == IF avail >= Len(name) THEN avail - Len(name) ELSE TableSize - Len(name)
        valued == Written(named, value, left)
        entry == [nl |-> Len(name), np |-> e.h.pos, vl |-> Len(value), vp |-> named.pos]
        kept == [valued EXCEPT !.heap = IF e.at > Len(@) THEN Append(@, entry) ELSE [@ EXCEPT ![e.at] = entry]]
        wide == IF kept.allocated = kept.added - kept.deleted THEN Grown(kept) ELSE kept
    IN IF ~a.ok THEN a.h
       ELSE [wide EXCEPT !.slot[(wide.added % wide.allocated) + 1] = e.at, !.added = @ + 1]

(* A size update of the client.                                            *)
ngx_http_v2_table_size(h, size) ==
    LET needed == h.size - size IN
    IF needed <= h.free THEN [h EXCEPT !.size = size, !.free = @ - needed]
    ELSE [Evicted(h, needed) EXCEPT !.size = size]

(* The bytes of a string, which may go on at the start of the storage.     *)
Read(h, pos, len) ==
    LET rest == TableSize - pos IN
    IF len > rest THEN SubSeq(h.storage, pos + 1, TableSize) \o SubSeq(h.storage, 1, len - rest)
    ELSE SubSeq(h.storage, pos + 1, pos + len)

(* The i-th newest entry.                                                  *)
ngx_http_v2_get_indexed_header(h, i) ==
    IF i <= h.added - h.deleted
    THEN LET e == EntryAt(h, h.added - i) IN <<Read(h, e.np, e.nl), Read(h, e.vp, e.vl)>>
    ELSE <<>>

-----------------------------------------------------------------------------

(* The table of the client, newest entry first.                            *)
ClientCost(f) == Overhead + f.nl + f.vl

ClientFits(table, size) ==
    LET sum(k) == MapThenSumSet(LAMBDA i : ClientCost(table[i]), 1..k)
        k == Max({n \in 0..Len(table) : sum(n) <= size})
    IN SubSeq(table, 1, k)

HpackInit == s = [h |-> NoEntries, table |-> <<>>, size |-> TableSize, n |-> 0, updates |-> 0]

(* A literal field with incremental indexing.                              *)
Field ==
    /\ s.n < MaxFields
    /\ \E nl \in NameLens, vl \in ValueLens :
           LET f == [n |-> s.n + 1, nl |-> nl, vl |-> vl] IN
           s' = [s EXCEPT !.n = @ + 1,
                          !.table = IF ClientCost(f) > s.size THEN <<>>
                                    ELSE <<f>> \o ClientFits(@, s.size - ClientCost(f)),
                          !.h = ngx_http_v2_add_header(@, NameOf(f.n, nl), ValueOf(f.n, vl))]

Update ==
    /\ s.updates < MaxUpdates
    /\ \E size \in Sizes :
           s' = [s EXCEPT !.updates = @ + 1, !.size = size,
                          !.table = ClientFits(@, size), !.h = ngx_http_v2_table_size(@, size)]

HpackNext == Field \/ Update

HpackSpec == HpackInit /\ [][HpackNext]_s

-----------------------------------------------------------------------------

(* Every index the client may use means the same field to nginx, name and  *)
(* value: neither ring has overwritten it                                  *)
(* (ngx_http_v2_get_indexed_header, ngx_http_v2_add_header).               *)
TablesAgree ==
    \A i \in DOMAIN s.table :
        LET f == s.table[i] IN
        ngx_http_v2_get_indexed_header(s.h, i) = <<NameOf(f.n, f.nl), ValueOf(f.n, f.vl)>>

(* The counters of the ring: no more entries than slots, counting those    *)
(* that are deleted and not used again, so that a deleted entry is never   *)
(* one in use; and free is what the entries leave of the size.             *)
RingExact ==
    LET h == s.h IN
    /\ h.reused <= h.deleted /\ h.deleted <= h.added /\ h.added - h.reused <= h.allocated
    /\ \A m, n \in h.deleted..(h.added - 1) :
           m # n => h.slot[(m % h.allocated) + 1] # h.slot[(n % h.allocated) + 1]
    /\ h.free = h.size - MapThenSumSet(LAMBDA n : Cost(EntryAt(h, n)), h.deleted..(h.added - 1))

-----------------------------------------------------------------------------

(* The tree of stream dependencies of a HTTP/2 connection                  *)
(* (http/v2/ngx_http_v2.c): HEADERS and PRIORITY frames put a node         *)
(* somewhere in the tree, a node whose stream is closed, or never opened,  *)
(* stays in the queue "closed" and is used again for another stream when   *)
(* there are enough of those.                                              *)
(*                                                                         *)
(* A queue of children is a set here, since only the way the weights       *)
(* round depends on its order.  The relative weight of a node is the       *)
(* product of the weights up to the root and is left out; the rank, which  *)
(* follows the same assignments, is kept.                                  *)

CONSTANTS Sids,        (* identifiers, odd ones for streams *)
          Weights,
          MaxClosed,   (* 32 *)
          CountMod,    (* closed_nodes has 8 bits: 256 *)
          Concurrent   (* http2_max_concurrent_streams *)

ROOT == 0

NULL == -1

Default == 16

-----------------------------------------------------------------------------

(* c is the connection: nodes by identifier, the children of each and of   *)
(* the root, the closed nodes and their counter.                           *)
RECURSIVE ngx_http_v2_node_children_update(_, _)

ngx_http_v2_node_children_update(c, n) ==
    FoldSet(LAMBDA k, d : ngx_http_v2_node_children_update([d EXCEPT !.node[k].rank = d.node[n].rank + 1], k),
            c, c.kids[n])

Unlinked(c, n) == [c EXCEPT !.kids = [p \in DOMAIN @ |-> @[p] \ {n}]]

Restricted(f, S) == [x \in S |-> f[x]]

ngx_http_v2_get_closed_node(c) ==
    LET n == Head(c.closed)
        p == c.node[n].parent
        weight == MapThenSumSet(LAMBDA k : c.node[k].weight, c.kids[n])
        d == Unlinked(c, n)
        adopted(k) == [c.node[k] EXCEPT !.parent = p,
                                        !.weight = Max({1, (c.node[n].weight * @) \div weight})]
        moved == [d EXCEPT !.node = [k \in DOMAIN @ |->
                                        IF k \in c.kids[n] THEN adopted(k)
                                        ELSE IF k = n THEN [@[k] EXCEPT !.rank = IF p = ROOT THEN 0 ELSE c.node[p].rank]
                                        ELSE @[k]]]
        ranked == ngx_http_v2_node_children_update(moved, n)
    IN [ranked EXCEPT !.kids = [k \in DOMAIN @ \ {n} |-> IF k = p THEN @[p] \cup @[n] ELSE @[k]],
                      !.node = Restricted(@, DOMAIN @ \ {n}),
                      !.closed = Tail(@), !.closed_nodes = (@ - 1) % CountMod]

ngx_http_v2_get_node_by_id(c, sid) ==
    IF sid \in DOMAIN c.node THEN c
    ELSE LET d == IF c.closed_nodes < MaxClosed THEN c ELSE ngx_http_v2_get_closed_node(c)
         IN [d EXCEPT !.node = [k \in DOMAIN @ \cup {sid} |->
                                   IF k = sid THEN [parent |-> NULL, rank |-> 0, weight |-> 0, stream |-> FALSE]
                                   ELSE @[k]],
                      !.kids = [k \in DOMAIN @ \cup {sid} |-> IF k = sid THEN {} ELSE @[k]]]

(* Whether the node is above the parent it is to get: the parents up to    *)
(* the rank of the node are looked at.                                     *)
RECURSIVE Above(_, _, _)

Above(c, next, n) ==
    /\ next # ROOT /\ c.node[next].rank >= c.node[n].rank
    /\ (next = n \/ Above(c, c.node[next].parent, n))

(* A parent that is below the node takes the place of the node first.      *)
Raised(c, n, p, exclusive) ==
    LET q == c.node[n].parent
        d == [Unlinked(c, p) EXCEPT !.kids[q] = @ \cup {p}, !.node[p].parent = q,
                                    !.node[p].rank = IF q = ROOT THEN 1 ELSE c.node[q].rank + 1]
    IN IF exclusive THEN d ELSE ngx_http_v2_node_children_update(d, p)

ToTail(c, n) == [c EXCEPT !.closed = Append(SelectSeq(@, LAMBDA k : k # n), n)]

ngx_http_v2_set_dependency(c, n, depend, excl) ==
    LET known == depend # 0 /\ depend \in DOMAIN c.node
        p == IF known THEN depend ELSE ROOT
        exclusive == excl /\ (known \/ depend = 0)
        up == IF known /\ c.node[n].parent # NULL /\ Above(c, c.node[p].parent, n)
              THEN Raised(c, n, p, exclusive) ELSE c
        ranked == [up EXCEPT !.node[n].rank = IF known THEN up.node[p].rank + 1 ELSE 1]
        renewed == IF known /\ ~c.node[p].stream THEN ToTail(ranked, p) ELSE ranked
        taken == IF exclusive
                 THEN [renewed EXCEPT !.node = [k \in DOMAIN @ |->
                                                   IF k \in renewed.kids[p] THEN [@[k] EXCEPT !.parent = n] ELSE @[k]],
                                      !.kids[n] = @ \cup renewed.kids[p], !.kids[p] = {}]
                 ELSE renewed
        out == IF taken.node[n].parent # NULL THEN Unlinked(taken, n) ELSE taken
        in == [out EXCEPT !.kids[p] = @ \cup {n}, !.node[n].parent = p]
    IN ngx_http_v2_node_children_update(in, n)

-----------------------------------------------------------------------------

(* The tree's part of the handlers of the frames.                          *)
ngx_http_v2_state_priority(c, sid, depend, excl, weight) ==
    IF depend = sid THEN c
    ELSE LET d == ngx_http_v2_get_node_by_id(c, sid)
             e == [d EXCEPT !.node[sid].weight = weight]
             fresh == e.node[sid].parent = NULL
             f == IF e.node[sid].stream THEN e
                  ELSE [ToTail(e, sid) EXCEPT !.closed_nodes = IF fresh THEN (@ + 1) % CountMod ELSE @]
         IN ngx_http_v2_set_dependency(f, sid, depend, excl)

ngx_http_v2_state_headers_prio(c, sid, priority, depend, excl, weight) ==
         IF (priority /\ depend = sid) \/ c.processing >= Concurrent THEN [c EXCEPT !.last_sid = sid]
         ELSE LET d == ngx_http_v2_get_node_by_id(c, sid)
                  e == IF d.node[sid].parent # NULL
                       THEN [d EXCEPT !.closed = SelectSeq(@, LAMBDA k : k # sid), !.closed_nodes = (@ - 1) % CountMod]
                       ELSE d
                  f == [e EXCEPT !.last_sid = sid, !.processing = @ + 1, !.node[sid].stream = TRUE]
              IN IF priority \/ f.node[sid].parent = NULL
                 THEN ngx_http_v2_set_dependency([f EXCEPT !.node[sid].weight = weight], sid, depend, excl)
                 ELSE f

ngx_http_v2_close_stream_prio(c, sid) ==
         [c EXCEPT !.node[sid].stream = FALSE, !.closed = Append(@, sid),
                   !.closed_nodes = (@ + 1) % CountMod, !.processing = @ - 1]

-----------------------------------------------------------------------------

PrioInit == s = [node |-> <<>>, kids |-> [k \in {ROOT} |-> {}], closed |-> <<>>, closed_nodes |-> 0,
                 last_sid |-> 0, processing |-> 0]

Headers ==
    \E sid \in {i \in Sids : i % 2 = 1 /\ i > s.last_sid} :
        \/ s' = ngx_http_v2_state_headers_prio(s, sid, FALSE, 0, FALSE, Default)
        \/ \E depend \in {0} \cup Sids, excl \in BOOLEAN, weight \in Weights :
               s' = ngx_http_v2_state_headers_prio(s, sid, TRUE, depend, excl, weight)

Priority ==
    \E sid \in Sids, depend \in {0} \cup Sids, excl \in BOOLEAN, weight \in Weights :
        s' = ngx_http_v2_state_priority(s, sid, depend, excl, weight)

Close == \E sid \in DOMAIN s.node : s.node[sid].stream /\ s' = ngx_http_v2_close_stream_prio(s, sid)

PrioNext == Headers \/ Priority \/ Close

PrioSpec == PrioInit /\ [][PrioNext]_s

-----------------------------------------------------------------------------

(* The nodes are a tree: the children of a node are those that have it as  *)
(* parent, and the rank of a node is one more than its parent's, so that   *)
(* no node is below itself (ngx_http_v2_set_dependency,                    *)
(* ngx_http_v2_get_closed_node).  The loop that looks for the node above   *)
(* its new parent ends by the rank alone.                                  *)
RanksExact ==
    /\ \A p \in DOMAIN s.kids : s.kids[p] = {n \in DOMAIN s.node : s.node[n].parent = p}
    /\ \A n \in DOMAIN s.node :
           /\ s.node[n].parent \in DOMAIN s.kids
           /\ s.node[n].rank = 1 + (IF s.node[n].parent = ROOT THEN 0 ELSE s.node[s.node[n].parent].rank)
           /\ s.node[n].weight \in 1..256

(* The queue "closed" has each node without a stream once, and its counter *)
(* is its length as far as 8 bits tell: a node taken from the queue is     *)
(* there, and no stream loses its node.                                    *)
ClosedExact ==
    /\ ToSet(s.closed) = {n \in DOMAIN s.node : ~s.node[n].stream}
    /\ IsInjective(s.closed)
    /\ s.closed_nodes = Len(s.closed) % CountMod
    /\ s.processing = Cardinality({n \in DOMAIN s.node : s.node[n].stream})

(* A connection keeps no more nodes than MaxClosed besides those its       *)
(* streams once needed, however many identifiers its client names.         *)
NodesBounded == Cardinality(DOMAIN s.node) <= MaxClosed + Concurrent

-----------------------------------------------------------------------------

(* The body of a HTTP/2 request on its way to an upstream                  *)
(* (http/v2/ngx_http_v2.c): DATA frames arrive in pieces, before and after *)
(* the request asks for its body; the body is kept in memory, in a file,   *)
(* or passed on as it comes; the window of the stream says how much the    *)
(* client may send.                                                        *)
(*                                                                         *)
(* The bytes of the body are 1, 2, 3...  A byte for the upstream is in the *)
(* buffer of the request ("buf", with its place there), in the temporary   *)
(* file, or still in the buffer that all connections of the worker read    *)
(* into ("recv"), where another read leaves a 0 of it.                     *)

CONSTANTS Modes,      (* of {"unbuffered", "memory", "sync"} *)
          Preread,    (* http2_body_preread_size *)
          BodyBuffers,(* values of client_body_buffer_size *)
          BodyMaxWindow,  (* NGX_HTTP_V2_MAX_WINDOW *)
          Total,      (* bytes a client sends *)
          Paddings,   (* bytes of padding with its length, 0 without *)
          FinAlone    (* END_STREAM comes with a DATA frame of its own *)

BodyInit ==
        \E declared \in BOOLEAN, body_buffer \in BodyBuffers :
            s = [declared |-> declared, body_buffer |-> body_buffer, sent |-> 0, fin |-> FALSE, cwin |-> Preread,
                 length |-> 0, padding |-> 0, part |-> "head", ending |-> FALSE, mine |-> FALSE,
                 recv |-> Preread, no_flow_control |-> FALSE, in_closed |-> FALSE, skip |-> FALSE,
                 pre |-> <<>>, mode |-> "none", size |-> 0, buf |-> <<>>, pos |-> 0, last |-> 0, rest |-> 1,
                 pending |-> <<>>, received |-> 0, file |-> FALSE, in_file_only |-> FALSE, posted |-> FALSE,
                 out |-> <<>>, error |-> "", over |-> FALSE]

Fails(c, e) == [c EXCEPT !.error = e, !.skip = TRUE]

Bytes(c, n) == [i \in 1..n |-> c.sent + i]

Credit(c, n) == [c EXCEPT !.recv = @ + n, !.cwin = @ + n]

-----------------------------------------------------------------------------

(* What is in the buffer goes down the body filters.  The last of them     *)
(* keeps it for the upstream, or writes it to the file.                    *)
ngx_http_v2_filter_request_body(c, data) ==
    LET n == IF c.mode = "sync" THEN Len(data) ELSE c.last - c.pos
        places == IF c.mode = "sync"
                  THEN [i \in 1..n |-> [in |-> IF c.rest > 0 \/ c.file \/ c.in_file_only THEN "file" ELSE "recv",
                                        at |-> data[i]]]
                  ELSE [i \in 1..n |-> [in |-> "buf", at |-> c.pos + i]]
        d == [c EXCEPT !.pos = c.last, !.received = @ + n, !.pending = @ \o places,
                       !.file = @ \/ (c.mode = "sync" /\ n > 0 /\ (c.rest > 0 \/ c.in_file_only))]
    IN IF c.declared /\ d.received > Total THEN Fails(c, "larger than declared")
       ELSE IF c.rest = 0 /\ c.declared /\ d.received # Total THEN Fails(c, "prematurely closed")
       ELSE d

ngx_http_v2_process_request_body(c, data, last) ==
    LET n == Len(data)
        d == IF c.mode = "sync" \/ n = 0 THEN c
             ELSE [c EXCEPT !.buf = SubSeq(@, 1, c.last) \o data \o SubSeq(@, c.last + n + 1, c.size),
                            !.last = @ + n]
        e == IF last THEN [d EXCEPT !.rest = 0] ELSE d
    IN IF c.mode # "sync" /\ n > c.size - c.last THEN Fails(c, "larger than declared")
       ELSE IF ~last /\ n = 0 THEN c
       ELSE IF c.mode = "unbuffered" THEN [e EXCEPT !.posted = TRUE]
       ELSE IF last \/ c.mode = "sync" THEN ngx_http_v2_filter_request_body(e, data)
       ELSE e

-----------------------------------------------------------------------------

(* A DATA frame: its head, its bytes, its padding.                         *)
ngx_http_v2_state_complete(c) == [c EXCEPT !.part = "head", !.mine = FALSE]

ngx_http_v2_state_skip_padded(c) ==
    IF c.length + c.padding = 0 THEN ngx_http_v2_state_complete(c)
    ELSE [c EXCEPT !.part = "skip", !.length = @ + c.padding, !.padding = 0]

(* The next n bytes of the frame.                                          *)
ngx_http_v2_state_read_data(c, n) ==
    LET last == n = c.length /\ c.ending
        data == Bytes(c, n)
        b == [c EXCEPT !.sent = @ + n, !.in_closed = @ \/ last]
        d == IF c.mode # "none" THEN ngx_http_v2_process_request_body(b, data, last)
             ELSE IF n > Preread - Len(c.pre) THEN Fails(b, "preread buffer overflow")
             ELSE [b EXCEPT !.pre = @ \o data]
        e == [d EXCEPT !.length = @ - n]
    IN IF c.skip THEN ngx_http_v2_state_skip_padded([c EXCEPT !.sent = @ + c.length])
       ELSE IF e.length > 0 THEN [e EXCEPT !.part = "data"]
       ELSE ngx_http_v2_state_skip_padded(e)

ngx_http_v2_state_data(c, len, padding, fin, n) ==
    LET size == len + padding
        d == [c EXCEPT !.recv = @ - size, !.cwin = @ - size, !.fin = fin, !.ending = fin,
                       !.length = len, !.padding = Max({0, padding - 1}), !.mine = TRUE]
        e == IF d.no_flow_control /\ d.recv < BodyMaxWindow \div 4 THEN Credit(d, BodyMaxWindow - d.recv) ELSE d
    IN ngx_http_v2_state_read_data(e, n)

-----------------------------------------------------------------------------

WindowFirst(c, mode) ==
    IF mode = "unbuffered" THEN Credit(c, c.size - Preread)
    ELSE Credit([c EXCEPT !.no_flow_control = TRUE], BodyMaxWindow - c.recv)

ngx_http_v2_read_request_body(c, mode) ==
    LET len == IF mode # "unbuffered" THEN Total
               ELSE Min({Max({IF c.declared THEN Min({Total, c.body_buffer}) ELSE c.body_buffer, Preread}), BodyMaxWindow})
        d == [c EXCEPT !.mode = mode, !.size = len, !.buf = [i \in 1..len |-> 0],
                       !.in_file_only = mode = "sync" /\ c.pre # <<>>, !.pre = <<>>]
        e == ngx_http_v2_process_request_body(d, c.pre, c.in_closed)
    IN IF e.error # "" \/ c.in_closed THEN e ELSE WindowFirst(e, mode)

ngx_http_v2_read_unbuffered_request_body(c) ==
    LET d == ngx_http_v2_filter_request_body([c EXCEPT !.posted = FALSE], <<>>)
        window == d.size - (IF d.mine THEN d.length ELSE 0)
        e == [d EXCEPT !.pos = 0, !.last = 0]
    IN IF d.error # "" \/ d.rest = 0 \/ d.pending # <<>> THEN d
       ELSE IF window < d.recv THEN Fails(e, "negative window update")
       ELSE Credit(e, window - d.recv)

-----------------------------------------------------------------------------

Live == s.error = "" /\ ~s.over

(* The client sends a frame that the window allows.                        *)
Data ==
    /\ Live /\ s.part = "head" /\ ~s.fin
    /\ \E len \in 0..(Total - s.sent), padding \in Paddings, fin \in BOOLEAN :
           /\ len + padding <= s.cwin
           /\ fin /\ s.declared => s.sent + len = Total
           /\ fin /\ FinAlone => len = 0
           /\ len = 0 => fin
           /\ \E n \in 0..len : s' = ngx_http_v2_state_data(s, len, padding, fin, n)

More == Live /\ s.part = "data" /\ \E n \in 1..s.length : s' = ngx_http_v2_state_read_data(s, n)

ngx_http_v2_state_skip ==
    /\ Live /\ s.part = "skip"
    /\ \E n \in 1..s.length :
           s' = IF n = s.length THEN ngx_http_v2_state_complete([s EXCEPT !.length = 0])
                ELSE [s EXCEPT !.length = @ - n]

ReadBody ==
    /\ Live /\ s.mode = "none"
    /\ \E mode \in Modes :
           /\ mode = "unbuffered" => ~s.in_closed
           /\ mode = "memory" => s.declared /\ Total <= s.body_buffer
           /\ s' = ngx_http_v2_read_request_body(s, mode)

(* What the upstream takes of the body, now in the way it is there.        *)
Byte(c, p) == IF p.in = "buf" THEN c.buf[p.at] ELSE p.at

PostedRead == Live /\ s.posted /\ s' = ngx_http_v2_read_unbuffered_request_body(s)

(* The upstream takes some bytes; when there are no more it asks for more. *)
Upstream ==
    /\ Live /\ s.pending # <<>> /\ (s.mode = "unbuffered" \/ s.rest = 0)
    /\ \E k \in 1..Len(s.pending) :
           LET c == [s EXCEPT !.out = @ \o [i \in 1..k |-> Byte(s, s.pending[i])],
                              !.pending = SubSeq(@, k + 1, Len(@))]
           IN s' = IF c.pending = <<>> /\ s.mode = "unbuffered"
                   THEN ngx_http_v2_read_unbuffered_request_body(c) ELSE c

(* Another connection of the worker reads.                                 *)
OtherRead ==
    /\ s.pending # <<>>
    /\ s' = [s EXCEPT !.pending = [i \in DOMAIN @ |-> IF @[i].in = "recv" THEN [@[i] EXCEPT !.at = 0] ELSE @[i]]]

(* The request ends before its body: the rest of a frame is skipped.       *)
Ends == Live /\ s' = [s EXCEPT !.over = TRUE]

BodyNext == Data \/ More \/ ngx_http_v2_state_skip \/ ReadBody \/ PostedRead \/ Upstream \/ OtherRead \/ Ends

BodySpec == BodyInit /\ [][BodyNext]_s

-----------------------------------------------------------------------------

(* The upstream gets the bytes the client sent, each once and in order,    *)
(* wherever they were kept on the way.                                     *)
BodyExact == \A i \in DOMAIN s.out : s.out[i] = i

(* The three errors of the code never happen to a client that keeps to its *)
(* window and its Content-Length: what the window allows always fits where *)
(* it goes, and a window never has to shrink                               *)
(* ("http2 preread buffer overflow", "http2 negative window update").      *)
WindowFits == s.error = ""

(* The window opens again: when the upstream has all there is of a body    *)
(* that is passed on, the client may send more, or its frame is under way  *)
(* (ngx_http_v2_read_unbuffered_request_body).                             *)
NotStarved ==
    Live /\ s.mode = "unbuffered" /\ ~s.in_closed /\ s.pending = <<>> /\ ~s.posted /\ s.pos = s.last =>
        s.recv > 0 \/ s.part # "head"

-----------------------------------------------------------------------------

(* The output of a HTTP/2 connection (http/v2/ngx_http_v2.c and            *)
(* ngx_http_v2_filter_module.c): the queue of frames, the windows of the   *)
(* connection and of its streams, the streams that wait for a window, how  *)
(* streams end, and how the connection becomes idle and is closed.         *)
(*                                                                         *)
(* s is the connection.  A stream is "new", "open" (its request is worked  *)
(* on), "sending", "ending" (terminated, its request still held by a       *)
(* thread), "closing" (closed, waiting for its frames) or "closed".        *)
(* out[1] is the next frame to write.  A frame takes one unit of the       *)
(* socket for its header and one for each byte of data.  Rate limits,      *)
(* allocation failures and TLS buffering are left out; the windows of the  *)
(* input are above.                                                        *)

CONSTANTS Streams,     (* 1..n, opened in this order *)
          Bodies,      (* sizes of responses *)
          FrameSize,   (* of DATA frames *)
          ConnWindow, InitWindow, OutMaxWindow,
          Updates,     (* increments a client sends *)
          InitWindows, (* values of SETTINGS_INITIAL_WINDOW_SIZE it sends *)
          Room,        (* of the socket buffer, in units *)
          MaxFrames,   (* frames a client sends besides its requests *)
          Trailers     (* responses have trailers *)

NewStream == [st |-> "new", in |-> 0, window |-> 0, queued |-> 0, exhausted |-> FALSE, waiting |-> FALSE,
              posted |-> FALSE, timer |-> FALSE, error |-> FALSE, rst_sent |-> FALSE, out_closed |-> FALSE,
              size |-> 0, got |-> 0, granted |-> 0]

Alive(c, i) == c.t[i].st \notin {"new", "closed"}

Units(f) == 1 + f.len

Left(f) == Units(f) - f.done

SumLeft(out) == FoldSeq(LAMBDA f, n : Left(f) + n, 0, out)

SumLen(out) == FoldSeq(LAMBDA f, n : f.len + n, 0, out)

-----------------------------------------------------------------------------

(* The three ways into the queue.  rank[i] orders the streams by the rank  *)
(* and the relative weight of their nodes, the smaller first.              *)
Frame(sid, len, fin, blocked, from) ==
    [sid |-> sid, len |-> len, fin |-> fin, blocked |-> blocked, from |-> from, done |-> 0]

Control == Frame(0, 0, FALSE, FALSE, 0)

After(c, k, f) == [c EXCEPT !.out = InsertAt(@, k + 1, f)]

LastIn(ks) == Max({0} \cup ks)

ngx_http_v2_queue_frame(c, f) ==
    After(c, LastIn({k \in DOMAIN c.out : c.out[k].blocked \/ c.out[k].sid = 0 \/ c.rank[c.out[k].sid] <= c.rank[f.sid]}), f)

ngx_http_v2_queue_blocked_frame(c, f) == After(c, LastIn({k \in DOMAIN c.out : c.out[k].blocked \/ c.out[k].sid = 0}), f)

ngx_http_v2_queue_ordered_frame(c, f) == After(c, Len(c.out), f)

-----------------------------------------------------------------------------

(* What follows a frame that is written, or whose header is.               *)
ngx_http_v2_handle_stream(c, i, self) ==
    IF c.t[i].waiting \/ i = self \/ (~c.t[i].error /\ c.t[i].exhausted) THEN c
    ELSE [c EXCEPT !.t[i].posted = TRUE]

ngx_http_v2_handle_frame(c, f) ==
    [c EXCEPT !.t[f.sid].queued = @ - 1, !.t[f.sid].out_closed = @ \/ f.fin,
              !.t[f.sid].got = @ + f.len, !.delivered = @ + f.len]

ngx_http_v2_data_frame_handler(c, f, self) ==
    IF f.sid = 0 THEN c ELSE ngx_http_v2_handle_stream(ngx_http_v2_handle_frame(c, f), f.sid, self)

(* As much of the queue is written as the socket takes.  The first frame   *)
(* that is not finished may not be removed from now on.                    *)
Wrote(out, k) ==
    [i \in DOMAIN out |->
        [out[i] EXCEPT !.done = @ + Max({0, Min({Left(out[i]), k - SumLeft(SubSeq(out, 1, i - 1))})})]]

Blocked(out) == IF out = <<>> THEN out ELSE [out EXCEPT ![1].blocked = TRUE]

(* started: the first frame left has a part of it written, and had none.   *)
Handled(c, wrote, m, started, self) ==
    LET each(a, f) == ngx_http_v2_data_frame_handler(a, f, self)
        last(a) == IF started THEN ngx_http_v2_handle_stream(a, wrote[m + 1].sid, self) ELSE a
    IN last(FoldLeft(each, c, SubSeq(wrote, 1, m)))

Sent(c, k, all, wrote, m, self) ==
    Handled([c EXCEPT !.room = @ - k, !.ready = (k = all), !.out = Blocked(SubSeq(wrote, m + 1, Len(wrote)))],
            wrote, m,
            /\ m < Len(wrote) /\ wrote[m + 1].sid # 0
            /\ wrote[m + 1].done > 0 /\ c.out[m + 1].done = 0,
            self)

SentAs(c, k, all, wrote, self) ==
    Sent(c, k, all, wrote, Cardinality({i \in DOMAIN wrote : Left(wrote[i]) = 0}), self)

SentOf(c, k, all, self) == SentAs(c, k, all, Wrote(c.out, k), self)

ngx_http_v2_send_output_queue(c, self) ==
    IF ~c.ready THEN c ELSE SentOf(c, Min({c.room, SumLeft(c.out)}), SumLeft(c.out), self)

-----------------------------------------------------------------------------

(* The body of a response is put into frames as far as the windows allow.  *)
ngx_http_v2_waiting_queue(c, i) ==
    IF c.t[i].waiting THEN c
    ELSE LET k == Max({0} \cup {n \in DOMAIN c.waiting : c.rank[c.waiting[n]] <= c.rank[i]})
         IN [c EXCEPT !.t[i].waiting = TRUE, !.waiting = InsertAt(@, k + 1, i)]

Declined(c, i) == c.t[i].window <= 0 \/ c.window = 0

ngx_http_v2_flow_control(c, i) ==
    IF c.t[i].window <= 0 THEN [c EXCEPT !.t[i].exhausted = TRUE]
    ELSE IF c.window = 0 THEN ngx_http_v2_waiting_queue(c, i)
    ELSE c

(* One frame after another, with the last the trailers.                    *)
RECURSIVE Framed(_, _, _)

Framed(c, i, limit) ==
    LET t == c.t[i]
        n == Min({FrameSize, limit, t.in})
        last == n = t.in
        d == ngx_http_v2_queue_frame(c, Frame(i, n, last /\ ~Trailers, FALSE, t.size - t.in))
        e == [d EXCEPT !.window = @ - n, !.t[i].window = @ - n, !.t[i].queued = @ + 1, !.t[i].in = @ - n]
    IN IF last
       THEN IF Trailers
            THEN [ngx_http_v2_queue_frame(e, Frame(i, 0, TRUE, TRUE, t.size)) EXCEPT !.t[i].queued = @ + 1]
            ELSE e
       ELSE IF limit = n THEN e ELSE Framed(e, i, limit - n)

Controlled(c, i) == IF c.t[i].in > 0 THEN ngx_http_v2_flow_control(c, i) ELSE c

ngx_http_v2_send_chain(c, i) ==
    IF c.t[i].in = 0 THEN c
    ELSE IF Declined(c, i) THEN ngx_http_v2_flow_control(c, i)
    ELSE Controlled(ngx_http_v2_send_output_queue(Framed(c, i, Min({c.window, c.t[i].window})), i), i)

-----------------------------------------------------------------------------

(* The end of a stream.                                                    *)
ngx_http_v2_send_rst_stream(c) == ngx_http_v2_queue_blocked_frame(c, Control)

StreamClosed(c, i) ==
    [c EXCEPT !.t[i] = [NewStream EXCEPT !.st = "closed"], !.processing = @ - 1,
              !.rposted = @ \/ (c.processing = 1 /\ ~c.blocked)]

ngx_http_v2_close_stream_out(c, i) ==
        IF c.t[i].queued > 0 THEN [c EXCEPT !.t[i].st = "closing"]
        ELSE StreamClosed(IF ~c.t[i].rst_sent /\ ~c.error /\ ~c.t[i].out_closed
                          THEN ngx_http_v2_send_rst_stream(c) ELSE c, i)

ngx_http_v2_filter_cleanup(c, i) ==
    LET gone == SelectSeq(c.out, LAMBDA f : f.sid = i /\ ~f.blocked)
        window == SumLen(gone)
        d == [c EXCEPT !.t[i].waiting = FALSE, !.waiting = SelectSeq(@, LAMBDA j : j # i),
                       !.out = SelectSeq(@, LAMBDA f : ~(f.sid = i /\ ~f.blocked)),
                       !.t[i].queued = @ - Len(gone)]
        woken == [j \in Streams |-> IF j \in ToSet(d.waiting)
                                    THEN [d.t[j] EXCEPT !.waiting = FALSE, !.posted = TRUE] ELSE d.t[j]]
    IN IF c.window = 0 /\ window > 0 THEN [d EXCEPT !.t = woken, !.waiting = <<>>, !.window = @ + window]
       ELSE [d EXCEPT !.window = @ + window]

(* held: a thread still works for the request.                             *)
ngx_http_terminate_request(c, i, held) ==
    LET d == IF c.t[i].st = "sending" THEN ngx_http_v2_filter_cleanup(c, i) ELSE c
    IN IF held THEN [d EXCEPT !.t[i].st = "ending", !.t[i].error = TRUE, !.t[i].in = 0]
       ELSE ngx_http_v2_close_stream_out([d EXCEPT !.t[i].in = 0], i)

(* The write handler of a stream.                                          *)
ngx_http_writer(c, i) ==
    LET d == ngx_http_v2_send_chain([c EXCEPT !.t[i].posted = FALSE], i)
    IN CASE c.t[i].st = "sending" ->
              IF d.t[i].in > 0 \/ d.t[i].queued > 0 THEN [d EXCEPT !.t[i].timer = TRUE]
              ELSE ngx_http_v2_close_stream_out(d, i)
         [] c.t[i].st = "closing" -> ngx_http_v2_close_stream_out([c EXCEPT !.t[i].posted = FALSE], i)
         [] OTHER -> [c EXCEPT !.t[i].posted = FALSE]

(* The read handler: a request that is open or sending sees the error.     *)
StreamGone(c, i, held) ==
    IF c.t[i].st \in {"open", "sending"} THEN ngx_http_terminate_request(c, i, held) ELSE c

ngx_http_v2_terminate_stream(c, i, held) ==
    IF c.t[i].rst_sent THEN c
    ELSE StreamGone([ngx_http_v2_send_rst_stream(c) EXCEPT !.t[i].rst_sent = TRUE, !.t[i].error = TRUE], i, held)

-----------------------------------------------------------------------------

(* The end of the connection.                                              *)
ngx_http_v2_handle_connection(c) ==
    IF c.out # <<>> \/ c.processing > 0 THEN c
    ELSE IF c.error \/ c.goaway THEN [c EXCEPT !.st = "closed"]
    ELSE [c EXCEPT !.st = "idle"]

RECURSIVE EachEnds(_, _, _)

EachEnds(c, S, held) ==
    IF S = {} THEN c
    ELSE LET i == Min(S)
             t == c.t[i]
             d == [c EXCEPT !.t[i].waiting = FALSE, !.t[i].error = TRUE, !.t[i].queued = 0]
             e == IF t.st \in {"open", "sending"} THEN ngx_http_terminate_request(d, i, i \in held)
                  ELSE IF t.st = "closing" /\ t.queued > 0 THEN ngx_http_v2_close_stream_out(d, i)
                  ELSE d
         IN EachEnds(e, S \ {i}, held)

ngx_http_v2_finalize_connection(c0, held) ==
    LET c == [c0 EXCEPT !.blocked = TRUE]
        d == IF ~c.error /\ ~c.goaway
             THEN ngx_http_v2_send_output_queue(ngx_http_v2_queue_blocked_frame(c, Control), 0) ELSE c
        e == EachEnds([d EXCEPT !.error = TRUE, !.out = <<>>, !.waiting = <<>>, !.st = "dead"],
                      {i \in Streams : Alive(d, i)}, held)
    IN IF d.processing = 0 THEN [d EXCEPT !.error = TRUE, !.blocked = FALSE, !.st = "closed"]
       ELSE IF e.processing > 0 THEN [e EXCEPT !.blocked = FALSE]
       ELSE [e EXCEPT !.blocked = FALSE, !.st = "closed"]

(* After the frames of a read: what they queued is sent.                   *)
ReadDone(c) ==
    IF c.st = "closed" \/ c.error THEN c
    ELSE LET d == [ngx_http_v2_send_output_queue(c, 0) EXCEPT !.blocked = FALSE]
         IN IF d.processing > 0 THEN d ELSE ngx_http_v2_handle_connection(d)

Reading(c) == [c EXCEPT !.blocked = TRUE, !.st = "active"]

(* Frames of the client.                                                   *)
ngx_http_v2_state_headers_out(c, i) ==
        IF c.goaway THEN c
        ELSE [c EXCEPT !.processing = @ + 1,
                       !.t[i] = [NewStream EXCEPT !.st = "open", !.window = c.init_window, !.granted = c.init_window]]

StreamWindow(c, i, k, held) ==
    LET d == [c EXCEPT !.t[i].window = @ + k, !.t[i].granted = @ + k, !.t[i].exhausted = FALSE]
    IN IF k > OutMaxWindow - c.t[i].window THEN ngx_http_v2_terminate_stream(c, i, held)
       ELSE IF c.t[i].exhausted THEN ngx_http_writer(d, i) ELSE d

RECURSIVE Woken(_)

Woken(c) ==
    IF c.waiting = <<>> THEN c
    ELSE LET i == Head(c.waiting)
             d == ngx_http_writer([c EXCEPT !.waiting = Tail(@), !.t[i].waiting = FALSE], i)
         IN IF d.window = 0 THEN d ELSE Woken(d)

ConnectionWindow(c, k, held) ==
    IF k > OutMaxWindow - c.window THEN ngx_http_v2_finalize_connection(c, held)
    ELSE Woken([c EXCEPT !.window = @ + k, !.granted = @ + k])

AdjustedOne(c, i, delta, held) ==
    LET d == [c EXCEPT !.t[i].window = @ + delta, !.t[i].granted = @ + delta]
    IN IF ~Alive(c, i) THEN c
       ELSE IF delta > 0 /\ c.t[i].window > OutMaxWindow - delta
       THEN ngx_http_v2_terminate_stream(c, i, i \in held)
       ELSE IF d.t[i].window > 0 /\ d.t[i].exhausted
       THEN ngx_http_writer([d EXCEPT !.t[i].exhausted = FALSE], i) ELSE d

RECURSIVE ngx_http_v2_adjust_windows(_, _, _, _)

ngx_http_v2_adjust_windows(c, S, delta, held) ==
    IF S = {} THEN c
    ELSE ngx_http_v2_adjust_windows(AdjustedOne(c, Min(S), delta, held), S \ {Min(S)}, delta, held)

ngx_http_v2_state_settings_params(c, w, held) ==
    ngx_http_v2_adjust_windows(ngx_http_v2_queue_ordered_frame([c EXCEPT !.init_window = w], Control),
                               Streams, w - c.init_window, held)

ngx_http_v2_state_rst_stream(c, i, held) ==
    StreamGone([c EXCEPT !.t[i].out_closed = TRUE, !.t[i].error = TRUE], i, held)

-----------------------------------------------------------------------------

OutInit ==
       s = [st |-> "idle", out |-> <<>>, waiting |-> <<>>, t |-> [i \in Streams |-> NewStream],
            rank |-> [i \in Streams |-> i], window |-> ConnWindow, init_window |-> InitWindow,
            ready |-> TRUE, room |-> Room, processing |-> 0, blocked |-> FALSE, rposted |-> FALSE,
            goaway |-> FALSE, error |-> FALSE, delivered |-> 0, granted |-> ConnWindow, frames |-> 0]

Readable == s.st \in {"active", "idle"}

Request ==
    /\ Readable /\ ~s.goaway
    /\ \E i \in {j \in Streams : s.t[j].st = "new"} :
           /\ \A j \in 1..(i - 1) : s.t[j].st # "new"
           /\ s' = ReadDone(ngx_http_v2_state_headers_out(Reading(s), i))

(* A frame of the client, besides requests.                                *)
ClientFrame ==
    /\ Readable /\ s.frames < MaxFrames
    /\ LET c == [Reading(s) EXCEPT !.frames = @ + 1] IN
       \E held \in SUBSET {i \in Streams : s.t[i].st \in {"open", "sending"}} :
           \/ \E k \in Updates : s' = ReadDone(ConnectionWindow(c, k, held))
           \/ \E w \in InitWindows : s' = ReadDone(ngx_http_v2_state_settings_params(c, w, held))
           \/ \E i \in Streams, k \in Updates : Alive(s, i) /\ s' = ReadDone(StreamWindow(c, i, k, i \in held))
           \/ \E i \in Streams : Alive(s, i) /\ s' = ReadDone(ngx_http_v2_state_rst_stream(c, i, i \in held))
           \/ \E i, j \in Streams :
                  i < j /\ s' = ReadDone([c EXCEPT !.rank[i] = s.rank[j], !.rank[j] = s.rank[i]])

(* The header of a response is queued and sent, and its body after it.     *)
Respond ==
    \E i \in Streams, n \in Bodies :
        /\ s.t[i].st = "open"
        /\ LET c == ngx_http_v2_queue_blocked_frame(s, Frame(i, 0, n = 0, TRUE, 0))
               d == [c EXCEPT !.t[i].queued = 1, !.t[i].st = "sending", !.t[i].in = n, !.t[i].size = n]
           IN s' = ngx_http_writer(ngx_http_v2_send_output_queue(d, i), i)

Posted == \E i \in Streams : s.t[i].posted /\ s' = ngx_http_writer(s, i)

(* The request ends on its own, with an error.                             *)
Fail == \E i \in Streams, held \in BOOLEAN :
            s.t[i].st \in {"open", "sending"} /\ s' = ngx_http_terminate_request(s, i, held)

Released == \E i \in Streams : s.t[i].st = "ending" /\ s' = ngx_http_v2_close_stream_out(s, i)

(* The send_timeout of a stream.                                           *)
ngx_http_v2_close_stream_handler ==
    \E i \in Streams :
        /\ s.t[i].timer
        /\ \/ s.t[i].st = "closing" /\ s' = ngx_http_v2_close_stream_out([s EXCEPT !.t[i].timer = FALSE], i)
           \/ s.t[i].st = "sending" /\ s' = ngx_http_terminate_request([s EXCEPT !.t[i].timer = FALSE], i, FALSE)

(* The client has read what the socket held.                               *)
ngx_http_v2_write_handler ==
    /\ s.room < Room
    /\ LET c == [s EXCEPT !.room = Room, !.ready = TRUE]
           d == [ngx_http_v2_send_output_queue([c EXCEPT !.blocked = TRUE], 0) EXCEPT !.blocked = FALSE]
       IN s' = IF s.ready \/ s.st # "active" THEN c
               ELSE IF ~d.ready THEN d ELSE ngx_http_v2_handle_connection(d)

ngx_http_v2_handle_connection_handler ==
    /\ s.rposted /\ s.st # "closed"
    /\ LET c == [s EXCEPT !.rposted = FALSE] IN
       s' = IF s.st = "dead" THEN (IF s.processing = 0 THEN ngx_http_v2_finalize_connection(c, {}) ELSE c)
            ELSE ReadDone(Reading(c))

(* The worker is told to end: a GOAWAY for a connection in use.            *)
CloseIdle ==
    /\ Readable /\ ~s.rposted /\ ~s.goaway
    /\ s' = IF s.st = "idle" THEN ngx_http_v2_finalize_connection(s, {})
            ELSE ngx_http_v2_send_output_queue(
                     ngx_http_v2_queue_blocked_frame([s EXCEPT !.goaway = TRUE], Control), 0)

ngx_http_v2_idle_handler == s.st = "idle" /\ s' = ngx_http_v2_finalize_connection(s, {})

(* The client is gone, or does not read for too long.                      *)
Broken ==
    /\ Readable
    /\ \E held \in SUBSET {i \in Streams : s.t[i].st \in {"open", "sending"}} :
           s' = ngx_http_v2_finalize_connection([s EXCEPT !.error = TRUE], held)

OutNext ==
       \/ Request \/ ClientFrame \/ Respond \/ Posted \/ Fail \/ Released
       \/ ngx_http_v2_close_stream_handler \/ ngx_http_v2_write_handler
       \/ ngx_http_v2_handle_connection_handler \/ CloseIdle \/ ngx_http_v2_idle_handler \/ Broken

OutSpec == OutInit /\ [][OutNext]_s

-----------------------------------------------------------------------------

FramesOf(i) == SelectSeq(s.out, LAMBDA f : f.sid = i)

(* A stream counts its frames in the queue, so that it is not freed before *)
(* they have left it, and the queue of waiting streams is what the streams *)
(* say: neither has a stream that is no more (ngx_http_v2_close_stream_out,    *)
(* ngx_http_v2_filter_cleanup).                                            *)
QueuedExact ==
    /\ \A i \in Streams : s.t[i].queued = Len(FramesOf(i))
    /\ ToSet(s.waiting) = {i \in Streams : s.t[i].waiting} /\ IsInjective(s.waiting)
    /\ s.processing = Cardinality({i \in Streams : Alive(s, i)})

(* Of what the client granted, each byte is still in the window, in the    *)
(* queue, or sent: no more is ever sent, and what a terminated stream did  *)
(* not send is not lost to the connection (ngx_http_v2_send_chain,         *)
(* ngx_http_v2_filter_cleanup, ngx_http_v2_adjust_windows).                *)
WindowExact ==
    s.st \in {"active", "idle"} =>
        /\ s.window >= 0 /\ s.window + SumLen(s.out) + s.delivered = s.granted
        /\ \A i \in Streams :
               s.t[i].st \in {"open", "sending"} =>
                   s.t[i].window + SumLen(FramesOf(i)) + s.t[i].got = s.t[i].granted

(* The frames of a response are in the queue in the order of its body,     *)
(* whatever the priorities do, and END_STREAM is on the last one only      *)
(* (ngx_http_v2_queue_frame).                                              *)
InOrder ==
    \A i \in Streams : s.t[i].st = "sending" =>
        LET fs == FramesOf(i)
            at(k) == s.t[i].got + SumLen(SubSeq(fs, 1, k - 1))
        IN /\ \A k \in DOMAIN fs : (fs[k].len > 0 => fs[k].from = at(k)) /\ (fs[k].fin => k = Len(fs))
           /\ at(Len(fs) + 1) = s.t[i].size - s.t[i].in
           /\ s.t[i].out_closed /\ ~s.t[i].error => fs = <<>>

(* A response does not stop for nothing: a stream that has more to send    *)
(* has an event posted, frames on the way, or waits for a window that is   *)
(* used up (ngx_http_v2_flow_control, the two wakeups).                    *)
NotStuck ==
    /\ \A i \in Streams :
           s.t[i].st = "sending" =>
               \/ s.t[i].posted \/ s.t[i].queued > 0
               \/ s.t[i].waiting /\ s.window = 0
               \/ s.t[i].exhausted /\ s.t[i].window <= 0
    /\ s.st = "active" /\ (\E k \in DOMAIN s.out : s.out[k].sid # 0) => ~s.ready

(* The connection ends once, after its streams, and does not stay open     *)
(* for nothing: without streams and frames it is idle, or about to be      *)
(* (ngx_http_v2_handle_connection, ngx_http_v2_finalize_connection).       *)
ConnectionEnds ==
    /\ s.st = "closed" => s.processing = 0
    /\ s.st = "dead" => s.processing > 0 \/ s.rposted
    /\ s.st = "active" /\ s.processing = 0 /\ s.out = <<>> => s.rposted
=============================================================================
