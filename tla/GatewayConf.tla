---------------------------- MODULE GatewayConf ----------------------------
(***************************************************************************)
(* How the proxy, fastcgi, uwsgi and scgi modules read their directives    *)
(* and inherit them from level to level: http{}, server{}, location{} and  *)
(* the nameless blocks of "if" and "limit_except".                         *)
(*                                                                         *)
(* Level 0 is http{}; levels 1 .. 3 are merged in this order, each with    *)
(* its parent.  The directives given at a level are kept in "given": what  *)
(* a level ends up with is compared with what they say.                    *)
(* Conventions: -1 is NGX_CONF_UNSET, 0 is NULL, a bit mask is a set,      *)
(* an array is [own |-> level of its directive, e |-> elements] and the    *)
(* array with own = -1 is the unset pointer.                               *)
(***************************************************************************)
EXTENDS Integers, Sequences, FiniteSets, SequencesExt

CONSTANTS Gateway,     \* "proxy", "fastcgi", "uwsgi" or "scgi"
          Shape,       \* the tree of levels
          Facet,       \* which directives are given
          MaxTotal     \* bound: directives in the whole configuration

VARIABLE s

PageSize == 2
BigTemp  == 64
Levels   == 0 .. 3

Parent == IF Shape = "siblings" THEN <<0, 1, 0>> ELSE <<0, 1, 2>>
Kind(l) == IF l = 0 THEN "main"
           ELSE CASE Shape = "siblings" -> <<"server", "location", "server">>[l]
                  [] Shape = "nested"   -> <<"server", "location", "location">>[l]
                  [] Shape = "if"       -> <<"server", "location", "if">>[l]
                  [] Shape = "limit"    -> <<"server", "location", "limit">>[l]
Noname(l) == Kind(l) \in {"if", "limit"}

-----------------------------------------------------------------------------
(* Directives *)

Given(d, a) == [d |-> d, a |-> a]
Directives ==
  CASE Facet = "store"  -> {Given("store", a) : a \in {"off", "on", "path"}} \cup
                           {Given("cache", a) : a \in {"off", "zone", "value"}} \cup
                           {Given("key", "k")}
    [] Facet = "bufs"   -> {Given("buffer_size", <<n>>) : n \in {1, 6}} \cup
                           {Given("buffers", a) : a \in {<<1, 4>>, <<3, 2>>, <<4, 5>>}} \cup
                           {Given("busy", <<n>>) : n \in {4, 9}} \cup
                           {Given("temp", <<4>>), Given("max_temp", <<0>>), Given("max_temp", <<5>>)}
    [] Facet = "masks"  -> {Given("next", a) : a \in {{"off"}, {"error", "off"}, {"500"}}} \cup
                           {Given("stale", a) : a \in {{"error"}, {"error", "off"}, {"timeout"}}} \cup
                           {Given("methods", {"POST"})}
    [] Facet = "params" -> {Given(d, k) : d \in {"param", "param_empty"}, k \in {"IMS", "X"}} \cup
                           {Given("cache", "zone"), Given("cache", "off")}
    [] Facet = "hide"   -> {Given("hide", h) : h \in {"A", "Date"}} \cup
                           {Given("pass_header", h) : h \in {"A", "Date"}}
    [] Facet = "pass"   -> {Given("pass", "server"), Given("pass", "variable")} \cup
                           {Given("hide", "A"), Given("pass_header", "A")}

NoArray == [own |-> -1, e |-> <<>>]
NoCode  == [built |-> FALSE, sent |-> {}, named |-> {}]
NoHash  == [built |-> FALSE, h |-> {}]

\* A location structure before its directives are read
ngx_http_fastcgi_create_loc_conf ==
  [store |-> -1, svalues |-> 0, cache |-> -1, zone |-> 0, cvalue |-> 0, key |-> 0,
   bsize |-> -1, bnum |-> 0, bufsize |-> 0,
   busyconf |-> -1, busy |-> 0, tempconf |-> -1, temp |-> 0, maxconf |-> -1, max |-> 0,
   next |-> {}, stale |-> {}, methods |-> {},
   hide |-> NoArray, pass |-> NoArray, hash |-> NoHash,
   upstream |-> 0, lengths |-> 0, handler |-> FALSE,
   source |-> NoArray, params |-> NoCode, pcache |-> NoCode]

ngx_http_proxy_create_loc_conf == ngx_http_fastcgi_create_loc_conf
ngx_http_uwsgi_create_loc_conf == ngx_http_fastcgi_create_loc_conf
ngx_http_scgi_create_loc_conf  == ngx_http_fastcgi_create_loc_conf
CreateLocConf == CASE Gateway = "proxy"   -> ngx_http_proxy_create_loc_conf
                   [] Gateway = "fastcgi" -> ngx_http_fastcgi_create_loc_conf
                   [] Gateway = "uwsgi"   -> ngx_http_uwsgi_create_loc_conf
                   [] Gateway = "scgi"    -> ngx_http_scgi_create_loc_conf

Failed == [bad |-> TRUE]
Read(c) == [bad |-> FALSE, c |-> c]

\* "is duplicate"; "off"; not beside a cache; a path is compiled, "on" is not
ngx_http_fastcgi_store(c, l, a) ==
  IF c.store # -1 THEN Failed
  ELSE IF a = "off" THEN Read([c EXCEPT !.store = 0])
  ELSE IF c.cache > 0 THEN Failed
  ELSE Read([c EXCEPT !.store = 1, !.svalues = IF a = "path" THEN l + 1 ELSE 0])

ngx_http_proxy_store(c, l, a) == ngx_http_fastcgi_store(c, l, a)
ngx_http_uwsgi_store(c, l, a) == ngx_http_fastcgi_store(c, l, a)
ngx_http_scgi_store(c, l, a)  == ngx_http_fastcgi_store(c, l, a)

ngx_http_fastcgi_cache(c, l, a) ==
  IF c.cache # -1 THEN Failed
  ELSE IF a = "off" THEN Read([c EXCEPT !.cache = 0])
  ELSE IF c.store > 0 THEN Failed
  ELSE Read([c EXCEPT !.cache = 1, !.cvalue = IF a = "value" THEN l + 1 ELSE 0,
                      !.zone = IF a = "value" THEN 0 ELSE l + 1])

ngx_http_proxy_cache(c, l, a) == ngx_http_fastcgi_cache(c, l, a)
ngx_http_uwsgi_cache(c, l, a) == ngx_http_fastcgi_cache(c, l, a)
ngx_http_scgi_cache(c, l, a)  == ngx_http_fastcgi_cache(c, l, a)

ngx_http_fastcgi_cache_key(c, l) == IF c.key # 0 THEN Failed ELSE Read([c EXCEPT !.key = l + 1])

ngx_http_proxy_cache_key(c, l) == ngx_http_fastcgi_cache_key(c, l)
ngx_http_uwsgi_cache_key(c, l) == ngx_http_fastcgi_cache_key(c, l)
ngx_http_scgi_cache_key(c, l)  == ngx_http_fastcgi_cache_key(c, l)

\* The handler of the location is set; an address with variables is evaluated for each request
ngx_http_fastcgi_pass(c, l, a) ==
  IF c.upstream # 0 \/ c.lengths # 0 THEN Failed
  ELSE Read([c EXCEPT !.handler = TRUE,
                      !.upstream = IF a = "variable" THEN 0 ELSE l,
                      !.lengths = IF a = "variable" THEN l ELSE 0])

ngx_http_proxy_pass(c, l, a) == ngx_http_fastcgi_pass(c, l, a)
ngx_http_uwsgi_pass(c, l, a) == ngx_http_fastcgi_pass(c, l, a)
ngx_http_scgi_pass(c, l, a)  == ngx_http_fastcgi_pass(c, l, a)

\* A line is added to the array of this level
Pushed(array, l, e) == [own |-> l, e |-> Append(array.e, e)]
ngx_http_upstream_param_set_slot(c, l, d, a) ==
  Read([c EXCEPT !.source = Pushed(@, l, [key |-> a, value |-> IF d = "param" THEN "v" ELSE ""])])
ngx_conf_set_str_array_slot(c, d, l, a) ==
  Read(IF d = "hide" THEN [c EXCEPT !.hide = Pushed(@, l, a)]
       ELSE [c EXCEPT !.pass = Pushed(@, l, a)])

ngx_conf_set_size_slot(c, d, a) ==
  CASE d = "buffer_size" -> IF c.bsize # -1 THEN Failed ELSE Read([c EXCEPT !.bsize = a])
    [] d = "busy"        -> IF c.busyconf # -1 THEN Failed ELSE Read([c EXCEPT !.busyconf = a])
    [] d = "temp"        -> IF c.tempconf # -1 THEN Failed ELSE Read([c EXCEPT !.tempconf = a])
    [] d = "max_temp"    -> IF c.maxconf # -1 THEN Failed ELSE Read([c EXCEPT !.maxconf = a])
ngx_conf_set_bufs_slot(c, a) ==
  IF c.bnum # 0 THEN Failed ELSE Read([c EXCEPT !.bnum = a[1], !.bufsize = a[2]])
ngx_conf_set_bitmask_slot(c, d, a) ==
  Read(CASE d = "next"    -> [c EXCEPT !.next = @ \cup a \cup {"set"}]
         [] d = "stale"   -> [c EXCEPT !.stale = @ \cup a \cup {"set"}]
         [] d = "methods" -> [c EXCEPT !.methods = @ \cup a \cup {"set"}])

StoreSlot(c, l, a) == CASE Gateway = "proxy"   -> ngx_http_proxy_store(c, l, a)
                        [] Gateway = "fastcgi" -> ngx_http_fastcgi_store(c, l, a)
                        [] Gateway = "uwsgi"   -> ngx_http_uwsgi_store(c, l, a)
                        [] Gateway = "scgi"    -> ngx_http_scgi_store(c, l, a)
CacheSlot(c, l, a) == CASE Gateway = "proxy"   -> ngx_http_proxy_cache(c, l, a)
                        [] Gateway = "fastcgi" -> ngx_http_fastcgi_cache(c, l, a)
                        [] Gateway = "uwsgi"   -> ngx_http_uwsgi_cache(c, l, a)
                        [] Gateway = "scgi"    -> ngx_http_scgi_cache(c, l, a)
KeySlot(c, l) == CASE Gateway = "proxy"   -> ngx_http_proxy_cache_key(c, l)
                   [] Gateway = "fastcgi" -> ngx_http_fastcgi_cache_key(c, l)
                   [] Gateway = "uwsgi"   -> ngx_http_uwsgi_cache_key(c, l)
                   [] Gateway = "scgi"    -> ngx_http_scgi_cache_key(c, l)
PassSlot(c, l, a) == CASE Gateway = "proxy"   -> ngx_http_proxy_pass(c, l, a)
                       [] Gateway = "fastcgi" -> ngx_http_fastcgi_pass(c, l, a)
                       [] Gateway = "uwsgi"   -> ngx_http_uwsgi_pass(c, l, a)
                       [] Gateway = "scgi"    -> ngx_http_scgi_pass(c, l, a)

Slot(c, l, d) ==
  CASE d.d = "store"       -> StoreSlot(c, l, d.a)
    [] d.d = "cache"       -> CacheSlot(c, l, d.a)
    [] d.d = "key"         -> KeySlot(c, l)
    [] d.d = "pass"        -> PassSlot(c, l, d.a)
    [] d.d \in {"param", "param_empty"} -> ngx_http_upstream_param_set_slot(c, l, d.d, d.a)
    [] d.d \in {"hide", "pass_header"} -> ngx_conf_set_str_array_slot(c, d.d, l, d.a)
    [] d.d = "buffers"     -> ngx_conf_set_bufs_slot(c, d.a)
    [] d.d \in {"next", "stale", "methods"} -> ngx_conf_set_bitmask_slot(c, d.d, d.a)
    [] OTHER               -> ngx_conf_set_size_slot(c, d.d, d.a[1])

\* The contexts a directive is allowed in: only proxy_pass in limit_except{}
Allowed(l, d) ==
  IF d.d = "pass" THEN Kind(l) \in {"location", "if"} \/ (Kind(l) = "limit" /\ Gateway = "proxy")
  ELSE ~Noname(l)

-----------------------------------------------------------------------------
(* The merge of one level with its parent *)

MergeValue(c, p, default) == IF c # -1 THEN c ELSE IF p # -1 THEN p ELSE default
MergeMask(c, p, default)  == IF c # {} THEN c ELSE IF p # {} THEN p ELSE default

\* A store turned on here turns an inherited cache off, and the other way round
StoreMerged(c, p) ==
  LET x == [c EXCEPT !.cache = IF c.store > 0 THEN 0 ELSE @]
      y == [x EXCEPT !.store = IF x.cache > 0 THEN 0 ELSE @] IN
  IF y.store # -1 THEN y
  ELSE [y EXCEPT !.store = MergeValue(@, p.store, 0), !.svalues = p.svalues]

SizeOf(c) == IF c.bsize < c.bufsize THEN c.bufsize ELSE c.bsize

Buffers(c, p) == [c EXCEPT !.bsize = MergeValue(@, p.bsize, PageSize),
                           !.bnum = IF @ # 0 THEN @ ELSE IF p.bnum # 0 THEN p.bnum ELSE 8,
                           !.bufsize = IF c.bnum # 0 THEN @
                                       ELSE IF p.bnum # 0 THEN p.bufsize ELSE PageSize]

\* What is given is inherited, the default is computed for this level
Sizes(c, p, size) ==
  LET busyconf == MergeValue(c.busyconf, p.busyconf, -1)
      tempconf == MergeValue(c.tempconf, p.tempconf, -1)
      maxconf  == MergeValue(c.maxconf, p.maxconf, -1) IN
  [c EXCEPT !.busyconf = busyconf, !.busy = IF busyconf = -1 THEN 2 * size ELSE busyconf,
            !.tempconf = tempconf, !.temp = IF tempconf = -1 THEN 2 * size ELSE tempconf,
            !.maxconf = maxconf, !.max = IF maxconf = -1 THEN BigTemp ELSE maxconf]

\* The checks made after each of them
SizesBad(c) ==
  \/ c.bnum < 2
  \/ c.busy < SizeOf(c)
  \/ c.busy > (c.bnum - 1) * c.bufsize
  \/ c.temp < SizeOf(c)
  \/ c.max # 0 /\ c.max < SizeOf(c)

BuffersMerged(c, p) ==
  LET b == Buffers(c, p) IN Sizes(b, p, SizeOf(b))

OffOnly(mask) == IF "off" \in mask THEN {"set", "off"} ELSE mask

NextMerged(c, p) == [c EXCEPT !.next = OffOnly(MergeMask(@, p.next, {"set", "error", "timeout"}))]

UseStale(c, p) ==
  LET mask == OffOnly(MergeMask(c, p, {"set", "off"})) IN
  IF "error" \in mask THEN mask \cup {"nolive"} ELSE mask

CacheMerged(c, p) ==
  LET x == IF c.cache # -1 THEN c
           ELSE [c EXCEPT !.cache = MergeValue(@, p.cache, 0), !.zone = p.zone, !.cvalue = p.cvalue] IN
  [x EXCEPT !.stale = UseStale(@, p.stale),
            !.methods = (IF @ = {} THEN p.methods ELSE @) \cup {"GET", "HEAD"},
            !.key = IF @ = 0 THEN p.key ELSE @]

-----------------------------------------------------------------------------
(* The response headers that are not passed on *)

DefaultHidden == {"Date"}

\* Mutant of HideInherited: both are inherited as soon as one is not given
HideInheritedBoth(c, p) ==
  IF c.hide.own = -1 \/ c.pass.own = -1
  THEN [c EXCEPT !.hide = p.hide, !.pass = p.pass, !.hash = p.hash]
  ELSE c

HideInherited(c, p) ==
  IF c.hide.own = -1 /\ c.pass.own = -1
  THEN [c EXCEPT !.hide = p.hide, !.pass = p.pass, !.hash = p.hash]
  ELSE [c EXCEPT !.hide = IF @.own = -1 THEN p.hide ELSE @,
                 !.pass = IF @.own = -1 THEN p.pass ELSE @]

HideHash(c) == [built |-> TRUE, h |-> (DefaultHidden \cup ToSet(c.hide.e)) \ ToSet(c.pass.e)]

\* The pair of the level and its parent: http{} keeps the hash for all servers
ngx_http_upstream_hide_headers_hash(c, p) ==
  LET x == HideInherited(c, p) IN
  IF x.hash.built THEN <<x, p>>
  ELSE LET y == [x EXCEPT !.hash = HideHash(x)] IN
       <<y, IF ~p.hash.built /\ y.hide.own = p.hide.own /\ y.pass.own = p.pass.own
            THEN [p EXCEPT !.hash = y.hash] ELSE p>>

-----------------------------------------------------------------------------
(* The request parameters *)

Line(k, v) == [key |-> k, value |-> v]
BaseDefaults  == IF Gateway = "proxy" THEN <<Line("X", "d"), Line("KA", "")>> ELSE <<>>
CacheDefaults == BaseDefaults \o <<Line("IMS", "d")>>

\* Default lines that are not given are added
WithDefaults(src, defaults) ==
  src \o SelectSeq(defaults, LAMBDA h : \A i \in DOMAIN src : src[i].key # h.key)

\* A header of the client is replaced (named) by the line with its name; an empty
\* line of a header only removes it.  For proxy all lines are headers, for the
\* others the ones that start with HTTP_
IsHeader(k) == Gateway = "proxy" \/ k = "IMS"

Compiled(src) ==
  [built |-> TRUE,
   sent |-> {<<src[i].key, src[i].value>> : i \in {j \in DOMAIN src : src[j].value # "" \/ ~IsHeader(src[j].key)}},
   named |-> {src[i].key : i \in {j \in DOMAIN src : IsHeader(src[j].key)}}]

\* The fastcgi, uwsgi and scgi modules have no default parameters but the cache's
ngx_http_fastcgi_init_params(code, source, defaults) ==
  IF code.built THEN code
  ELSE IF source.own = -1 /\ defaults = <<>> THEN [code EXCEPT !.built = TRUE]
  ELSE Compiled(WithDefaults(source.e, defaults))

ngx_http_uwsgi_init_params(code, source, defaults) == ngx_http_fastcgi_init_params(code, source, defaults)
ngx_http_scgi_init_params(code, source, defaults)  == ngx_http_fastcgi_init_params(code, source, defaults)

ngx_http_proxy_init_headers(code, source, defaults) ==
  IF code.built THEN code ELSE Compiled(WithDefaults(source.e, defaults))

InitParams(code, source, defaults) ==
  CASE Gateway = "proxy"   -> ngx_http_proxy_init_headers(code, source, defaults)
    [] Gateway = "fastcgi" -> ngx_http_fastcgi_init_params(code, source, defaults)
    [] Gateway = "uwsgi"   -> ngx_http_uwsgi_init_params(code, source, defaults)
    [] Gateway = "scgi"    -> ngx_http_scgi_init_params(code, source, defaults)

\* "special handling to preserve conf->params in the "http" section"
Preserved(c, p) ==
  IF ~p.params.built /\ c.source.own = p.source.own
  THEN [p EXCEPT !.params = c.params, !.pcache = c.pcache] ELSE p

Inherited(c, p) ==
  IF c.source.own # -1 THEN c
  ELSE [c EXCEPT !.params = p.params, !.pcache = p.pcache, !.source = p.source]

ParamsMerged(c, p) ==
  LET x == Inherited(c, p)
      y == [x EXCEPT !.params = InitParams(@, x.source, BaseDefaults),
                     !.pcache = IF x.cache = 1 THEN InitParams(@, x.source, CacheDefaults) ELSE @]
  IN <<y, Preserved(y, p)>>

-----------------------------------------------------------------------------
(* The address *)

\* Nameless blocks inherit the address; limit_except{} gets the handler too
PassMerged(c, p, l) ==
  LET x == IF Noname(l) /\ c.upstream = 0 /\ c.lengths = 0
           THEN [c EXCEPT !.upstream = p.upstream, !.lengths = p.lengths] ELSE c IN
  [x EXCEPT !.handler = @ \/ (Kind(l) = "limit" /\ (x.upstream # 0 \/ x.lengths # 0))]

-----------------------------------------------------------------------------
(* The merges of the four modules, in the order of the code *)

\* From the hidden headers to the end
HeadersMerged(c, p, l) ==
  LET h == ngx_http_upstream_hide_headers_hash(c, p) IN
  ParamsMerged(PassMerged(h[1], p, l), h[2])

ngx_http_fastcgi_merge_loc_conf(c, p, l) ==
  HeadersMerged(CacheMerged(NextMerged(c, p), p), p, l)

ProxyBuffersMerged(c, p) == BuffersMerged(StoreMerged(c, p), p)
ProxyCacheMerged(c, p)   == CacheMerged(NextMerged(c, p), p)
ngx_http_proxy_merge_loc_conf(c, p, l) == HeadersMerged(ProxyCacheMerged(c, p), p, l)

UwsgiBuffersMerged(c, p) == BuffersMerged(StoreMerged(c, p), p)
UwsgiCacheMerged(c, p)   == CacheMerged(NextMerged(c, p), p)
ngx_http_uwsgi_merge_loc_conf(c, p, l) == HeadersMerged(UwsgiCacheMerged(c, p), p, l)

ScgiBuffersMerged(c, p) == BuffersMerged(StoreMerged(c, p), p)
ScgiCacheMerged(c, p)   == CacheMerged(NextMerged(c, p), p)
ngx_http_scgi_merge_loc_conf(c, p, l) == HeadersMerged(ScgiCacheMerged(c, p), p, l)

Sized(c, p) == CASE Gateway = "proxy"   -> ProxyBuffersMerged(c, p)
                 [] Gateway = "fastcgi" -> BuffersMerged(StoreMerged(c, p), p)
                 [] Gateway = "uwsgi"   -> UwsgiBuffersMerged(c, p)
                 [] Gateway = "scgi"    -> ScgiBuffersMerged(c, p)
Rest(c, p, l) == CASE Gateway = "proxy"   -> ngx_http_proxy_merge_loc_conf(c, p, l)
                   [] Gateway = "fastcgi" -> ngx_http_fastcgi_merge_loc_conf(c, p, l)
                   [] Gateway = "uwsgi"   -> ngx_http_uwsgi_merge_loc_conf(c, p, l)
                   [] Gateway = "scgi"    -> ngx_http_scgi_merge_loc_conf(c, p, l)

-----------------------------------------------------------------------------
(* Reading, then merging *)

Init == s = [stage |-> "read", level |-> 0, total |-> 0,
             given |-> [l \in Levels |-> <<>>],
             conf |-> [l \in Levels |-> CreateLocConf]]

\* One directive of the level that is read
Directive ==
  /\ s.stage = "read" /\ s.total < MaxTotal
  /\ \E d \in Directives :
       /\ Allowed(s.level, d)
       /\ LET r == Slot(s.conf[s.level], s.level, d) IN
          s' = IF r.bad THEN [s EXCEPT !.stage = "refused"]
               ELSE [s EXCEPT !.conf[s.level] = r.c, !.total = @ + 1,
                              !.given[s.level] = Append(@, d)]

\* The end of a level's block
Close ==
  /\ s.stage = "read"
  /\ s' = IF s.level = 3 THEN [s EXCEPT !.stage = "merge", !.level = 1]
          ELSE [s EXCEPT !.level = @ + 1]

\* The merge of one level; an error ends the reading of the configuration
ngx_http_merge_servers ==
  /\ s.stage = "merge"
  /\ LET l == s.level
         p == Parent[l]
         z == Sized(s.conf[l], s.conf[p]) IN
     s' = IF SizesBad(z) THEN [s EXCEPT !.stage = "bad"]
          ELSE LET m == Rest(z, s.conf[p], l) IN
               [s EXCEPT !.conf[l] = m[1], !.conf[p] = m[2],
                         !.level = @ + 1, !.stage = IF l = 3 THEN "done" ELSE "merge"]

Next == Directive \/ Close \/ ngx_http_merge_servers
Spec == Init /\ [][Next]_s

-----------------------------------------------------------------------------
(* What the directives say *)

Merged(l) == l > 0 /\ (s.stage = "done" \/ (s.stage \in {"merge", "bad"} /\ l < s.level))

RECURSIVE Path(_)
Path(l) == IF l = 0 THEN <<0>> ELSE Append(Path(Parent[l]), l)

\* The directives of a level with one of these names
Lines(l, names) == SelectSeq(s.given[l], LAMBDA d : d.d \in names)

\* The level nearest to l for which the test holds, or -1
Nearest(l, Test(_)) ==
  LET hits == {i \in DOMAIN Path(l) : Test(Path(l)[i])} IN
  IF hits = {} THEN -1 ELSE Path(l)[CHOOSE i \in hits : \A j \in hits : j <= i]

StoreOn(k) == \E i \in DOMAIN s.given[k] : s.given[k][i] \in {Given("store", "on"), Given("store", "path")}
CacheOn(k) == \E i \in DOMAIN s.given[k] : s.given[k][i] \in {Given("cache", "zone"), Given("cache", "value")}

\* A response is stored, or cached, as the nearest level says that has a word in
\* it: the one that gives the directive, or turns the other on.  Both are never
\* on at once, and the path or the zone is that of the same level.
\* (merge_loc_conf(), store(), cache())
StoreOrCache ==
  \A l \in 1 .. 3 : Merged(l) =>
    LET st == Nearest(l, LAMBDA k : Lines(k, {"store"}) # <<>> \/ CacheOn(k))
        ca == Nearest(l, LAMBDA k : Lines(k, {"cache"}) # <<>> \/ StoreOn(k))
        c  == s.conf[l] IN
    /\ (c.store = 1) = (st # -1 /\ StoreOn(st))
    /\ (c.cache = 1) = (ca # -1 /\ CacheOn(ca))
    /\ ~(c.store = 1 /\ c.cache = 1)
    /\ c.store = 1 => (c.svalues # 0) = (Lines(st, {"store"})[1].a = "path")
    /\ c.store = 1 /\ c.svalues # 0 => c.svalues = st + 1
    /\ c.cache = 1 => IF Lines(ca, {"cache"})[1].a = "zone" THEN c.zone = ca + 1 /\ c.cvalue = 0
                                                            ELSE c.cvalue = ca + 1 /\ c.zone = 0

\* The values in force at l: given at the nearest level, or the default
InForce(l, name, default) ==
  LET k == Nearest(l, LAMBDA x : Lines(x, {name}) # <<>>) IN
  IF k = -1 THEN default ELSE Lines(k, {name})[1].a

ExpectedSize(l) == LET a == InForce(l, "buffer_size", <<PageSize>>)[1]
                       b == InForce(l, "buffers", <<8, PageSize>>)[2] IN IF a < b THEN b ELSE a
ExpectedBusy(l) == InForce(l, "busy", <<2 * ExpectedSize(l)>>)[1]
ExpectedTemp(l) == InForce(l, "temp", <<2 * ExpectedSize(l)>>)[1]
ExpectedMax(l)  == InForce(l, "max_temp", <<BigTemp>>)[1]
ExpectedBad(l) ==
  LET bufs == InForce(l, "buffers", <<8, PageSize>>) IN
  \/ bufs[1] < 2
  \/ ExpectedBusy(l) \notin ExpectedSize(l) .. (bufs[1] - 1) * bufs[2]
  \/ ExpectedTemp(l) < ExpectedSize(l)
  \/ ExpectedMax(l) \in 1 .. ExpectedSize(l) - 1

\* Limits that are not given follow the buffers of their own level, not those of
\* the level they are inherited from; a configuration is refused at the first
\* level at which the values in force do not fit together, and only there.
\* (merge_loc_conf(), busy_buffers_size_conf and the like)
SizesExact ==
  /\ \A l \in 1 .. 3 : Merged(l) =>
       /\ ~ExpectedBad(l)
       /\ s.conf[l].busy = ExpectedBusy(l)
       /\ s.conf[l].temp = ExpectedTemp(l)
       /\ s.conf[l].max = ExpectedMax(l)
  /\ s.stage = "bad" => ExpectedBad(s.level)

AllMasks(k, name) == UNION {Lines(k, {name})[i].a : i \in DOMAIN Lines(k, {name})}

\* What "off" says wins over the other words of its level, and a stale response
\* that may be used after an error may be used when no server is left, at this
\* level and at those that inherit it.  (merge_loc_conf(), cache_use_stale)
MasksExact ==
  \A l \in 1 .. 3 : Merged(l) =>
    LET st == Nearest(l, LAMBDA x : Lines(x, {"stale"}) # <<>>)
        nx == Nearest(l, LAMBDA x : Lines(x, {"next"}) # <<>>)
        c  == s.conf[l] IN
    /\ ("nolive" \in c.stale) = (st # -1 /\ "error" \in AllMasks(st, "stale") /\ "off" \notin AllMasks(st, "stale"))
    /\ "off" \in c.stale => c.stale = {"off", "set"}
    /\ ("off" \in c.stale) = (st = -1 \/ "off" \in AllMasks(st, "stale"))
    /\ ("off" \in c.next) = (nx # -1 /\ "off" \in AllMasks(nx, "next"))
    /\ {"GET", "HEAD"} \subseteq c.methods

\* The lines of the nearest level that has any, as param_set_slot() keeps them
ExpectedSource(l) ==
  LET k == Nearest(l, LAMBDA x : Lines(x, {"param", "param_empty"}) # <<>>) IN
  IF k = -1 THEN <<>>
  ELSE [i \in DOMAIN Lines(k, {"param", "param_empty"}) |->
          LET d == Lines(k, {"param", "param_empty"})[i] IN Line(d.a, IF d.d = "param" THEN "v" ELSE "")]

\* At every level a request carries the lines of the nearest level that gives
\* any, and the defaults that are not among them; a cached one also the defaults
\* of the cache.  Sharing the compiled code between http{} and its servers never
\* hands a server the lines, or the defaults, of another.
\* (init_params(), init_headers(), the special handling of http{})
ParamsExact ==
  \A l \in 1 .. 3 : Merged(l) =>
    LET src == ExpectedSource(l)
        plain == Compiled(WithDefaults(src, BaseDefaults))
        full  == Compiled(WithDefaults(src, CacheDefaults)) IN
    /\ s.conf[l].params = plain
    /\ s.conf[l].cache = 1 => s.conf[l].pcache = full

\* A header is hidden if it is hidden by default or by the nearest list of hidden
\* headers, unless the nearest list of passed headers names it: at every level,
\* whichever of the servers was merged first.
\* (ngx_http_upstream_hide_headers_hash())
HideExact ==
  \A l \in 1 .. 3 : Merged(l) =>
    LET h == Nearest(l, LAMBDA x : Lines(x, {"hide"}) # <<>>)
        p == Nearest(l, LAMBDA x : Lines(x, {"pass_header"}) # <<>>)
        Names(k, name) == IF k = -1 THEN {} ELSE {Lines(k, {name})[i].a : i \in DOMAIN Lines(k, {name})} IN
    s.conf[l].hash.h = (DefaultHidden \cup Names(h, "hide")) \ Names(p, "pass_header")

\* A nameless block without an address of its own has the one of its location,
\* with or without variables but never both; other levels never inherit one.  A
\* request that is subject to limit_except{} is still handed to the module.
\* (merge_loc_conf(), clcf->noname and clcf->lmt_excpt)
PassExact ==
  \A l \in 1 .. 3 : Merged(l) =>
    LET own  == Lines(l, {"pass"})
        from == IF own = <<>> /\ Noname(l) THEN Parent[l] ELSE l
        a    == Lines(from, {"pass"})
        c    == s.conf[l] IN
    /\ c.upstream = IF a # <<>> /\ a[1].a = "server" THEN from ELSE 0
    /\ c.lengths = IF a # <<>> /\ a[1].a = "variable" THEN from ELSE 0
    /\ Kind(l) \in {"location", "limit"} => c.handler = (a # <<>>)

=============================================================================
