-------------------------------- MODULE Geo ---------------------------------
(***************************************************************************)
(* The geo module: ranges with the binary base, and networks in a radix    *)
(* tree.                                                                   *)
(***************************************************************************)
EXTENDS Integers, Sequences, FiniteSets, FiniteSetsExt, SequencesExt

(* The geo block with ranges (http/modules/ngx_http_geo_module.c and       *)
(* stream/ngx_stream_geo_module.c): the directives of the block, a file it *)
(* includes, and the binary base nginx keeps beside that file.             *)
(*                                                                         *)
(* An address is a number; Block addresses have the same high half.  The   *)
(* configuration is written as it is first read and may be read again,     *)
(* with the file edited by somebody else in between.                       *)

CONSTANTS Block, Blocks,  (* 0x10000 and 0x10000 in the code *)
          RangeValues,         (* value v is v bytes long *)
          Spots,          (* addresses where ranges start and end *)
          Kinds,          (* the directives of the block *)
          RangeMaxConf, MaxLoads, MaxTime,
          Texts,          (* the contents the included file may have *)
          Many,           (* 100000 in the code *)
          EditWhileRead,  (* the file may change during a load *)
          RangeStream

VARIABLE s

Addrs == 0..(Block * Blocks - 1)

Highs == 0..(Blocks - 1)

None == 0

Add(lo, hi, v) == [op |-> "add", lo |-> lo, hi |-> hi, v |-> v]

Del(lo, hi) == [op |-> "delete", lo |-> lo, hi |-> hi, v |-> None]

RangeDefault(v) == [op |-> "default", lo |-> 0, hi |-> 0, v |-> v]

Include == [op |-> "include", lo |-> 0, hi |-> 0, v |-> None]

Text(n) ==
    CASE n = 1 -> <<Add(0, 1, 1), Add(Block - 1, Block + 1, 2)>>
      [] n = 2 -> <<Add(0, 2, 2), Add(1, 1, 1), Del(0, 0), Del(1, 2)>>
      [] n = 3 -> <<RangeDefault(1), Add(1, 2, 2), Add(Block, Block, 2)>>
      [] n = 4 -> <<Add(0, 1, 1), Add(1, 2, 2), Add(Block, Block, 1)>>
      [] OTHER -> <<>>

(* 255.255.255.255 is INADDR_NONE, which no range starts or ends with.     *)
Directives ==
    LET ends == {p \in Spots \X Spots : p[1] <= p[2]} \ {<<a, Max(Addrs)>> : a \in Spots} IN
    (IF "add" \in Kinds THEN {Add(p[1], p[2], v) : p \in ends, v \in RangeValues} ELSE {})
        \union (IF "delete" \in Kinds THEN {Del(p[1], p[2]) : p \in ends} ELSE {})
        \union (IF "default" \in Kinds THEN {RangeDefault(v) : v \in RangeValues} ELSE {})
        \union (IF "include" \in Kinds THEN {Include} ELSE {})

-----------------------------------------------------------------------------

(* Sizes in the base: a header, the values, a null value, the table of the *)
(* high halves, and for each of them its ranges and a null pointer.        *)
ValueSize(v) == 2 + v

RangeSize == 2

PointerSize == 1

EmptySize == 4 + 2 + Blocks * PointerSize

(* The tail of the values: each is kept once.                              *)
ngx_http_geo_value(c, v) ==
    IF v \in c.vals THEN c
    ELSE [c EXCEPT !.vals = @ \union {v}, !.size = @ + ValueSize(v)]

ngx_stream_geo_value(c, v) == ngx_http_geo_value(c, v)

GeoValue(c, v) == IF RangeStream THEN ngx_stream_geo_value(c, v) ELSE ngx_http_geo_value(c, v)

(* The part of lo..hi that has the high half h.                            *)
PieceLo(h, lo) == IF lo > h * Block THEN lo % Block ELSE 0

PieceHi(h, hi) == IF hi < (h + 1) * Block THEN hi % Block ELSE Block - 1

HighsOf(lo, hi) == (lo \div Block)..(hi \div Block)

RangeOf(a, e, v) == [start |-> a, end |-> e, value |-> v]

Around(a, i, mid) == SubSeq(a, 1, i - 1) \o mid \o SubSeq(a, i + 1, Len(a))

Overlap == <<RangeOf(-1, -1, None)>>

PlaceNoSplit(a, lo, hi, v) ==
    LET below == {i \in DOMAIN a : ~(hi < a[i].start)} IN
    IF below = {} THEN <<RangeOf(lo, hi, v)>> \o a
    ELSE LET i == Max(below)
             r == a[i]
             new == RangeOf(lo, hi, v)
         IN CASE lo > r.end -> Around(a, i, <<r, new>>)
              [] lo = r.start /\ hi = r.end -> Around(a, i, <<new>>)
              [] lo > r.start /\ hi < r.end ->
                     Around(a, i, <<[r EXCEPT !.end = lo - 1], new>>)
              [] lo = r.start /\ hi < r.end -> Around(a, i, <<new, [r EXCEPT !.start = hi + 1]>>)
              [] lo > r.start /\ hi = r.end -> Around(a, i, <<[r EXCEPT !.end = lo - 1], new>>)
              [] OTHER -> Overlap

Place(a, lo, hi, v) ==
    LET below == {i \in DOMAIN a : ~(hi < a[i].start)} IN
    IF below = {} THEN <<RangeOf(lo, hi, v)>> \o a
    ELSE LET i == Max(below)
             r == a[i]
             new == RangeOf(lo, hi, v)
         IN CASE lo > r.end -> Around(a, i, <<r, new>>)
              [] lo = r.start /\ hi = r.end -> Around(a, i, <<new>>)
              [] lo > r.start /\ hi < r.end ->
                     Around(a, i, <<[r EXCEPT !.end = lo - 1], new, [r EXCEPT !.start = hi + 1]>>)
              [] lo = r.start /\ hi < r.end -> Around(a, i, <<new, [r EXCEPT !.start = hi + 1]>>)
              [] lo > r.start /\ hi = r.end -> Around(a, i, <<[r EXCEPT !.end = lo - 1], new>>)
              [] OTHER -> Overlap

(* The first high half where the range overlaps another ends the parsing;  *)
(* those before it keep it.                                                *)
ngx_http_geo_add_range(c, lo, hi, v) ==
    LET placed == [h \in HighsOf(lo, hi) |-> Place(c.low[h], PieceLo(h, lo), PieceHi(h, hi), v)]
        bad == {h \in DOMAIN placed : placed[h] = Overlap}
    IN [c EXCEPT !.rv = IF bad = {} THEN "ok" ELSE "error",
                 !.low = [h \in Highs |->
                             IF h \in DOMAIN placed /\ \A b \in bad : h < b THEN placed[h] ELSE @[h]]]

ngx_stream_geo_add_range(c, lo, hi, v) == ngx_http_geo_add_range(c, lo, hi, v)

(* Only a range that is there as it is gets deleted; another is a warning. *)
Without(a, lo, hi) == SelectSeq(a, LAMBDA r : ~(r.start = lo /\ r.end = hi))

ngx_http_geo_delete_range(c, lo, hi) ==
    [c EXCEPT !.low = [h \in Highs |-> IF h \in HighsOf(lo, hi)
                                       THEN Without(@[h], PieceLo(h, lo), PieceHi(h, hi))
                                       ELSE @[h]]]

ngx_stream_geo_delete_range(c, lo, hi) == ngx_http_geo_delete_range(c, lo, hi)

ngx_http_geo_range(c, d) ==
    IF d.op = "default" THEN [GeoValue(c, d.v) EXCEPT !.default = d.v]
    ELSE IF c.binary THEN [c EXCEPT !.rv = "error"]
    ELSE LET n == [c EXCEPT !.entries = @ + 1, !.outside = TRUE] IN
         IF d.op = "delete" THEN ngx_http_geo_delete_range(n, d.lo, d.hi)
         ELSE ngx_http_geo_add_range(GeoValue(n, d.v), d.lo, d.hi, d.v)

ngx_stream_geo_range(c, d) ==
    IF d.op = "default" THEN [GeoValue(c, d.v) EXCEPT !.default = d.v]
    ELSE IF c.binary THEN [c EXCEPT !.rv = "error"]
    ELSE LET n == [c EXCEPT !.entries = @ + 1, !.outside = TRUE] IN
         IF d.op = "delete" THEN ngx_stream_geo_delete_range(n, d.lo, d.hi)
         ELSE ngx_stream_geo_add_range(GeoValue(n, d.v), d.lo, d.hi, d.v)

GeoRange(c, d) == IF RangeStream THEN ngx_stream_geo_range(c, d) ELSE ngx_http_geo_range(c, d)

Parsed(c, text) ==
    FoldLeft(LAMBDA acc, d : IF acc.rv = "error" THEN acc ELSE GeoRange(acc, d), c, text)

-----------------------------------------------------------------------------

NoBase == [have |-> FALSE, low |-> [h \in Highs |-> <<>>], mtime |-> 0, made |-> 0, size |-> 0]

ngx_http_geo_include_binary_base(t) ==
    IF ~t.base.have THEN "declined"
    ELSE IF t.c.outside \/ t.c.binary THEN "error"
    ELSE IF t.base.mtime < t.mtime THEN "declined"
    ELSE "ok"

ngx_stream_geo_include_binary_base(t) == ngx_http_geo_include_binary_base(t)

ngx_http_geo_include(t) ==
    LET rc == IF RangeStream THEN ngx_stream_geo_include_binary_base(t)
              ELSE ngx_http_geo_include_binary_base(t)
        c == [t.c EXCEPT !.allow = @ /\ ~t.c.outside]
    IN CASE rc = "error" -> [t.c EXCEPT !.rv = "error"]
         [] rc = "ok" -> [t.c EXCEPT !.binary = TRUE, !.low = t.base.low]
         [] OTHER -> [Parsed(c, Text(t.text)) EXCEPT !.includes = @ + 1, !.outside = FALSE]

ngx_stream_geo_include(t) == ngx_http_geo_include(t)

ngx_http_geo(t, d) ==
    IF d.op = "include" THEN ngx_http_geo_include(t) ELSE ngx_http_geo_range(t.c, d)

ngx_stream_geo(t, d) ==
    IF d.op = "include" THEN ngx_stream_geo_include(t) ELSE ngx_stream_geo_range(t.c, d)

(* The bytes the base is written with, after a file of data_size is made.  *)
ngx_http_geo_copy_values(vals) == MapThenSumSet(ValueSize, vals)

ngx_stream_geo_copy_values(vals) == ngx_http_geo_copy_values(vals)

CopyValues(vals) ==
    IF RangeStream THEN ngx_stream_geo_copy_values(vals) ELSE ngx_http_geo_copy_values(vals)

RangesSize(low) ==
    MapThenSumSet(LAMBDA h : IF low[h] = <<>> THEN 0 ELSE Len(low[h]) * RangeSize + PointerSize, Highs)

ngx_http_geo_create_binary_base(t) ==
    [t EXCEPT !.base = [have |-> TRUE, low |-> t.c.low, mtime |-> t.now, made |-> t.c.size,
                        size |-> EmptySize + CopyValues(t.c.vals) + RangesSize(t.c.low)]]

ngx_stream_geo_create_binary_base(t) == ngx_http_geo_create_binary_base(t)

ngx_http_geo_block(t) ==
    LET c == IF t.c.binary THEN t.c ELSE [t.c EXCEPT !.size = @ + RangesSize(t.c.low)]
        end == [t EXCEPT !.c = c, !.pc = IF c.rv = "ok" THEN "done" ELSE "failed"]
    IN IF ~c.binary /\ c.allow /\ ~c.outside /\ c.entries > Many /\ c.includes = 1
       THEN ngx_http_geo_create_binary_base(end)
       ELSE end

ngx_stream_geo_block(t) ==
    LET c == IF t.c.binary THEN t.c ELSE [t.c EXCEPT !.size = @ + RangesSize(t.c.low)]
        end == [t EXCEPT !.c = c, !.pc = IF c.rv = "ok" THEN "done" ELSE "failed"]
    IN IF ~c.binary /\ c.allow /\ ~c.outside /\ c.entries > Many /\ c.includes = 1
       THEN ngx_stream_geo_create_binary_base(end)
       ELSE end

(* The value of the variable for an address.                               *)
ngx_http_geo_range_variable(c, a) ==
    LET a1 == c.low[a \div Block]
        in == {i \in DOMAIN a1 : a % Block \in a1[i].start..a1[i].end}
    IN IF in = {} THEN c.default ELSE a1[Min(in)].value

ngx_stream_geo_range_variable(c, a) == ngx_http_geo_range_variable(c, a)

RangeVariable(c, a) ==
         IF RangeStream THEN ngx_stream_geo_range_variable(c, a) ELSE ngx_http_geo_range_variable(c, a)

-----------------------------------------------------------------------------

NewBlock == [low |-> [h \in Highs |-> <<>>], default |-> None, vals |-> {}, size |-> EmptySize,
             entries |-> 0, outside |-> FALSE, includes |-> 0, allow |-> TRUE, binary |-> FALSE,
             rv |-> "ok"]

RangeInit == s \in [pc : {"block"}, c : {NewBlock}, conf : {<<>>}, at : {1}, loads : {1},
                    text : Texts, read : {<<>>}, mtime : {0}, now : {0}, base : {NoBase}, accepted : {FALSE}]

(* What the configuration says, with the file as it is when it is included.*)
Reads(t, d) == IF d.op = "include" THEN t.read \o Text(t.text) ELSE Append(t.read, d)

Directive ==
    /\ s.pc = "block" /\ s.c.rv = "ok"
    /\ \E d \in IF s.at <= Len(s.conf) THEN {s.conf[s.at]}
                ELSE IF s.loads = 1 /\ Len(s.conf) < RangeMaxConf THEN Directives
                ELSE {} :
           s' = [s EXCEPT !.c = IF RangeStream THEN ngx_stream_geo(s, d) ELSE ngx_http_geo(s, d),
                          !.read = Reads(s, d),
                          !.conf = IF s.at <= Len(@) THEN @ ELSE Append(@, d),
                          !.at = @ + 1]

RangeBlockEnd ==
         /\ s.pc = "block" /\ (s.c.rv = "ok" => s.at > Len(s.conf))
         /\ s' = [(IF RangeStream THEN ngx_stream_geo_block(s) ELSE ngx_http_geo_block(s))
                      EXCEPT !.accepted = @ \/ s.c.rv = "ok"]

Reload ==
    /\ s.pc \in {"done", "failed"} /\ s.loads < MaxLoads
    /\ s' = [s EXCEPT !.pc = "block", !.c = NewBlock, !.at = 1, !.read = <<>>, !.loads = @ + 1]

(* The file is edited, and the time of day goes on.                        *)
Edit ==
    /\ EditWhileRead \/ (s.pc # "block" /\ s.base.mtime < s.now)
    /\ s.loads < MaxLoads
    /\ \E n \in Texts \ {s.text} : s' = [s EXCEPT !.text = n, !.mtime = s.now, !.accepted = FALSE]

Tick == s.now < MaxTime /\ s' = [s EXCEPT !.now = @ + 1]

RangeNext == Directive \/ RangeBlockEnd \/ Reload \/ Edit \/ Tick

RangeSpec == RangeInit /\ [][RangeNext]_s

-----------------------------------------------------------------------------

(* The reference: a value for each address, and where ranges start.        *)
Said0 == [val |-> [a \in Addrs |-> None], cut |-> {h * Block : h \in 0..Blocks}, default |-> None,
          ok |-> TRUE]

SaidPiece(r, a, b, d) ==
    LET valued == \A x \in a..b : r.val[x] # None
        inside == r.cut \intersect ((a + 1)..b)
    IN IF d.op = "add"
       THEN [r EXCEPT !.ok = @ /\ ((valued /\ inside = {}) \/ \A x \in a..b : r.val[x] = None),
                      !.val = [x \in Addrs |-> IF x \in a..b THEN d.v ELSE @[x]],
                      !.cut = (@ \ inside) \union {a, b + 1}]
       ELSE IF valued /\ inside = {} /\ {a, b + 1} \subseteq r.cut
       THEN [r EXCEPT !.val = [x \in Addrs |-> IF x \in a..b THEN None ELSE @[x]]]
       ELSE r

SaidOne(r, d) ==
    IF d.op = "default" THEN [r EXCEPT !.default = d.v]
    ELSE FoldLeft(LAMBDA acc, h : SaidPiece(acc, Max({d.lo, h * Block}),
                                            Min({d.hi, h * Block + Block - 1}), d),
                  r, SetToSortSeq(HighsOf(d.lo, d.hi), <))

Said(text) == FoldLeft(SaidOne, Said0, text)

(* A block that is accepted says what its directives and its file say: each*)
(* address has the value of the last range added over it and not deleted   *)
(* since, or the default (ngx_http_geo_add_range, delete_range and the use *)
(* of the binary base); a block whose ranges overlap is not accepted.      *)
AsWritten ==
    s.pc = "done" =>
        LET said == Said(s.read) IN
        /\ said.ok
        /\ \A a \in Addrs : RangeVariable(s.c, a) = IF said.val[a] = None THEN said.default ELSE said.val[a]

(* The ranges of a high half stay sorted and disjoint, which the scan of   *)
(* ngx_http_geo_add_range from the last one relies on.                     *)
SortedRanges ==
    \A h \in Highs : LET a == s.c.low[h] IN
        /\ \A i \in DOMAIN a : 0 <= a[i].start /\ a[i].start <= a[i].end /\ a[i].end < Block
        /\ \A i \in 2..Len(a) : a[i - 1].end < a[i].start

(* The base has exactly the size its file was made with: data_size, summed *)
(* while the block was read, is what ngx_http_geo_create_binary_base       *)
(* writes, and what the walk over the ranges of a base stops at.           *)
BaseSizeExact == s.base.made = s.base.size

(* A configuration that was accepted is accepted again when nothing has    *)
(* changed: the base made meanwhile is not one the block cannot use        *)
(* (outside_entries and allow_binary_include).                             *)
AcceptedAgain == s.pc = "failed" => ~s.accepted

-----------------------------------------------------------------------------

(* The geo block with networks: the trees of core/ngx_radix_tree.c, for    *)
(* IPv4 (32 bits) and for IPv6 (128), and the directives that fill them    *)
(* (ngx_http_geo_cidr, ngx_stream_geo_cidr).                               *)
(*                                                                         *)
(* A node is the sequence of bits that leads to it; a tree maps its nodes  *)
(* to their values.                                                        *)

CONSTANTS Width,         (* bits of an address *)
          Preallocated,  (* bits of the nodes made with the tree: 6 on amd64 *)
          CidrValues, CidrMaxConf,
          MaxDeletes,
          Families,      (* of the networks in the block *)
          CidrStream

Bits == {0, 1}

Keys(n) == [1..n -> Bits]

Networks == UNION {Keys(n) : n \in 0..Width}

Root == <<>>

NoValue == 0

Null == -1   (* ngx_http_variable_null_value *)

Left(node) == Append(node, 0)

Right(node) == Append(node, 1)

Children(tree, node) == {Left(node), Right(node)} \intersect DOMAIN tree

Parent(node) == SubSeq(node, 1, Len(node) - 1)

ngx_radix_tree_create == [node \in UNION {Keys(n) : n \in 0..Preallocated} |-> NoValue]

(* New nodes are made down to the one of the network.                      *)
Inserted(tree, net, v) ==
    [node \in DOMAIN tree \union Prefixes(net) |->
        IF node = net THEN v ELSE IF node \in DOMAIN tree THEN tree[node] ELSE NoValue]

(* The result: busy when the network has a value.                          *)
ngx_radix32tree_insert(tree, net, v) ==
    IF net \in DOMAIN tree /\ tree[net] # NoValue THEN [rc |-> "busy", tree |-> tree]
    ELSE [rc |-> "ok", tree |-> Inserted(tree, net, v)]

ngx_radix128tree_insert(tree, net, v) == ngx_radix32tree_insert(tree, net, v)

Freed(tree, net) ==
    LET empty(n) == LET node == SubSeq(net, 1, n) IN
                    /\ n > 0 /\ tree[node] = NoValue
                    /\ Children(tree, node) \subseteq {SubSeq(net, 1, n + 1)}
    IN {SubSeq(net, 1, n) : n \in {m \in 1..(Len(net) - 1) : \A k \in m..(Len(net) - 1) : empty(k)}}
           \union {net}

ngx_radix32tree_delete(tree, net) ==
    IF net \notin DOMAIN tree THEN [rc |-> "error", tree |-> tree]
    ELSE IF Children(tree, net) # {}
    THEN IF tree[net] # NoValue THEN [rc |-> "ok", tree |-> [tree EXCEPT ![net] = NoValue]]
         ELSE [rc |-> "error", tree |-> tree]
    ELSE [rc |-> "ok",
          tree |-> [node \in DOMAIN tree \ Freed(tree, net) |-> tree[node]]]

ngx_radix128tree_delete(tree, net) == ngx_radix32tree_delete(tree, net)

ngx_radix32tree_find(tree, key) ==
    LET met == {n \in 0..Width : SubSeq(key, 1, n) \in DOMAIN tree /\ tree[SubSeq(key, 1, n)] # NoValue} IN
    IF met = {} THEN NoValue ELSE tree[SubSeq(key, 1, Max(met))]

ngx_radix128tree_find(tree, key) == ngx_radix32tree_find(tree, key)

-----------------------------------------------------------------------------

Insert(f, tree, net, v) ==
    IF f = 6 THEN ngx_radix128tree_insert(tree, net, v) ELSE ngx_radix32tree_insert(tree, net, v)

Delete(f, tree, net) ==
    IF f = 6 THEN ngx_radix128tree_delete(tree, net) ELSE ngx_radix32tree_delete(tree, net)

Find(f, tree, key) ==
    IF f = 6 THEN ngx_radix128tree_find(tree, key) ELSE ngx_radix32tree_find(tree, key)

ngx_http_geo_cidr_add(c, f, net, v) ==
    LET a == Insert(f, c.tree[f], net, v)
        d == Delete(f, c.tree[f], net)
        b == Insert(f, d.tree, net, v)
    IN IF a.rc = "ok" THEN [c EXCEPT !.tree[f] = a.tree]
       ELSE IF d.rc = "error" \/ b.rc # "ok" THEN [c EXCEPT !.tree[f] = d.tree, !.rv = "error"]
       ELSE [c EXCEPT !.tree[f] = b.tree]

ngx_stream_geo_cidr_add(c, f, net, v) == ngx_http_geo_cidr_add(c, f, net, v)

CidrAdd(c, f, net, v) ==
    IF CidrStream THEN ngx_stream_geo_cidr_add(c, f, net, v) ELSE ngx_http_geo_cidr_add(c, f, net, v)

CidrDelete(c, f, net) ==
    LET d == Delete(f, c.tree[f], net) IN
    [c EXCEPT !.tree[f] = d.tree, !.warned = d.rc # "ok"]

(* The low bits of an address outside its mask are meaningless.            *)
ngx_http_geo_cidr_value(addr, len) == SubSeq(addr, 1, len)

ngx_stream_geo_cidr_value(addr, len) == ngx_http_geo_cidr_value(addr, len)

CidrValue(addr, len) ==
    IF CidrStream THEN ngx_stream_geo_cidr_value(addr, len) ELSE ngx_http_geo_cidr_value(addr, len)

(* The default is the network 0/0 of both trees.                           *)
ngx_http_geo_cidr(c, d) ==
    LET net == CidrValue(d.addr, d.len) IN
    CASE d.op = "default" ->
             LET one == CidrAdd(c, 4, Root, d.v) IN
             IF one.rv = "error" THEN one ELSE CidrAdd(one, 6, Root, d.v)
      [] d.op = "delete" -> CidrDelete(c, d.f, net)
      [] OTHER -> CidrAdd(c, d.f, net, d.v)

ngx_stream_geo_cidr(c, d) == ngx_http_geo_cidr(c, d)

CidrBlock(c) ==
    [c EXCEPT !.tree[4] = Insert(4, @, Root, Null).tree, !.tree[6] = Insert(6, @, Root, Null).tree]

(* An address that cannot be had is looked up as 255.255.255.255, a mapped *)
(* one as the IPv4 address it has.                                         *)
ngx_http_geo_cidr_variable(c, a) ==
    CASE a.kind = "none" -> Find(4, c.tree[4], [i \in 1..Width |-> 1])
      [] a.kind = "inet6" -> Find(6, c.tree[6], a.key)
      [] OTHER -> Find(4, c.tree[4], a.key)

ngx_stream_geo_cidr_variable(c, a) == ngx_http_geo_cidr_variable(c, a)

CidrVariable(c, a) ==
        IF CidrStream THEN ngx_stream_geo_cidr_variable(c, a) ELSE ngx_http_geo_cidr_variable(c, a)

-----------------------------------------------------------------------------

(* val is what has been said of each network of each family.               *)
CidrInit == s = [pc |-> "block", n |-> 0, deletes |-> 0,
                 c |-> [tree |-> [f \in {4, 6} |-> ngx_radix_tree_create], rv |-> "ok", warned |-> FALSE],
                 absent |-> FALSE,
                 val |-> [f \in {4, 6} |-> [net \in Networks |-> NoValue]]]

Written(d) ==
    LET net == SubSeq(d.addr, 1, d.len) IN
    CASE d.op = "default" -> [f \in {4, 6} |-> [s.val[f] EXCEPT ![Root] = d.v]]
      [] d.op = "delete" -> [s.val EXCEPT ![d.f][net] = NoValue]
      [] OTHER -> [s.val EXCEPT ![d.f][net] = d.v]

Cidr(d) ==
    /\ s.pc = "block" /\ s.c.rv = "ok" /\ s.n < CidrMaxConf
    /\ s' = [s EXCEPT !.c = LET c == [s.c EXCEPT !.warned = FALSE] IN
                            IF CidrStream THEN ngx_stream_geo_cidr(c, d) ELSE ngx_http_geo_cidr(c, d),
                      !.val = Written(d),
                      !.absent = d.op = "delete" /\ s.val[d.f][SubSeq(d.addr, 1, d.len)] = NoValue,
                      !.n = @ + 1,
                      !.deletes = IF d.op = "delete" THEN @ + 1 ELSE @]

Network == \E f \in Families, addr \in Keys(Width), len \in 0..Width, v \in CidrValues :
               Cidr([op |-> "network", f |-> f, addr |-> addr, len |-> len, v |-> v])

Delete1 == /\ s.deletes < MaxDeletes
           /\ \E f \in Families, addr \in Keys(Width), len \in 0..Width :
                  Cidr([op |-> "delete", f |-> f, addr |-> addr, len |-> len, v |-> NoValue])

CidrDefault == \E v \in CidrValues :
                   Cidr([op |-> "default", f |-> 4, addr |-> Root, len |-> 0, v |-> v])

CidrBlockEnd == s.pc = "block" /\ s' = [s EXCEPT !.pc = "done", !.c = CidrBlock(@)]

CidrNext == Network \/ Delete1 \/ CidrDefault \/ CidrBlockEnd

CidrSpec == CidrInit /\ [][CidrNext]_s

-----------------------------------------------------------------------------

Longest(f, key) ==
    LET in == {n \in 0..Width : s.val[f][SubSeq(key, 1, n)] # NoValue} IN
    IF in = {} THEN Null ELSE s.val[f][SubSeq(key, 1, Max(in))]

Clients ==
    [kind : {"inet", "inet6", "mapped", "none"}, key : Keys(Width)]

(* Whatever was added, replaced and deleted, the value of the variable is  *)
(* that of the longest network the address is in, and the null value when  *)
(* there is none: ngx_http_geo_cidr_variable never copies a value that is  *)
(* not there.                                                              *)
LongestNetwork ==
    s.pc = "done" => \A a \in Clients :
        CidrVariable(s.c, a) = CASE a.kind = "none" -> Longest(4, [i \in 1..Width |-> 1])
                                 [] a.kind = "inet6" -> Longest(6, a.key)
                                 [] OTHER -> Longest(4, a.key)

(* The trees keep no branch that leads to no value: beyond the nodes made  *)
(* with the tree, the node a walk ends at has one (the loop of             *)
(* ngx_radix32tree_delete towards the root), and every node has its parent.*)
NoDeadBranch ==
    \A f \in {4, 6} : \A node \in DOMAIN s.c.tree[f] :
        /\ node # Root => Parent(node) \in DOMAIN s.c.tree[f]
        /\ (Len(node) > Preallocated /\ Children(s.c.tree[f], node) = {}) => s.c.tree[f][node] # NoValue

(* Replacing the value of a network never fails: a busy network can be     *)
(* deleted and added (the "invalid radix tree" of ngx_http_geo_cidr_add).  *)
NeverInvalid == s.c.rv = "ok"

=============================================================================
