------------------------------ MODULE Servers -------------------------------
(***************************************************************************)
(* From the configuration to the server and the location of a request: the *)
(* listening addresses, the names of the servers and the tree of           *)
(* locations.                                                              *)
(***************************************************************************)
EXTENDS Integers, Sequences, SequencesExt, FiniteSets

(* The "listen" directives of nginx, from the configuration text to the    *)
(* server a connection reaches: ngx_http_add_listen() and what it calls    *)
(* gather the addresses of each port and their servers and options,        *)
(* ngx_http_optimize_servers() sorts them and decides which addresses get  *)
(* a socket of their own, and ngx_http_init_connection() picks the         *)
(* configuration for the local address of an accepted connection.  The     *)
(* stream and the mail modules have copies of the second and the third     *)
(* part behind a listen directive that refuses duplicates; conf.kind is the *)
(* copy.  Only IPv4 addresses; the copies for IPv6 differ in the type. *)

CONSTANTS ListenKinds,     (* of "http", "stream" and "mail" *)
          Wild,       (* the wildcard address "*" *)
          Addresses, (* the other local addresses *)
          Ports,     (* (port, family, socket type) triples *)
          MaxListen, (* bound: directives of one configuration *)
          MaxServers, (* bound: server{} blocks *)
          Workers    (* worker_processes *)

VARIABLES listenConf, ls, conn

listenVars == <<listenConf, ls, conn>>

(* conf is the configuration read so far, said its directives in order; ls *)
(* are the listening sockets, conn is a connection once one is accepted.   *)
None == [server |-> 0]

ListenInit == /\ \E k \in ListenKinds : listenConf = [kind |-> k, phase |-> "read", server |-> 1, listen |-> FALSE,
                                                      ports |-> <<>>, said |-> <<>>]
              /\ ls = <<>>
              /\ conn = None

-----------------------------------------------------------------------------

(* The gathering of addresses, ngx_http_add_listen().                      *)

(* A server is added to an address once: FALSE is the error "a duplicate   *)
(* listen".                                                                *)
ngx_http_add_server(cscf, addr) == \A i \in DOMAIN addr.servers : addr.servers[i] # cscf

ngx_http_add_address(cscf, lsopt) ==
    [opt |-> lsopt, default |-> cscf, servers |-> <<cscf>>]

Overwrite(cscf, lsopt, addr) ==
    [addr EXCEPT !.servers = Append(@, cscf),
                 !.opt = [(IF lsopt.set THEN lsopt ELSE @) EXCEPT
                            !.default = addr.opt.default \/ lsopt.default,
                            !.ssl = addr.opt.ssl \/ lsopt.ssl],
                 !.default = IF lsopt.default THEN cscf ELSE @]

DuplicateOptions(lsopt, addr) ==
    \/ lsopt.set /\ addr.opt.set
    \/ lsopt.default /\ addr.opt.default

(* The addresses of one port with one more directive, or <<>> on an error. *)
ngx_http_add_addresses(cscf, addrs, lsopt) ==
    LET same == {i \in DOMAIN addrs : addrs[i].opt.addr = lsopt.addr}
    IN IF same = {} THEN Append(addrs, ngx_http_add_address(cscf, lsopt))
       ELSE LET i == CHOOSE j \in same : \A k \in same : j <= k
            IN IF ~ngx_http_add_server(cscf, addrs[i]) \/ DuplicateOptions(lsopt, addrs[i])
               THEN <<>>
               ELSE [addrs EXCEPT ![i] = Overwrite(cscf, lsopt, @)]

NewPair(addrs, lsopt) == \A i \in DOMAIN addrs : addrs[i].opt.addr # lsopt.addr

ngx_stream_core_listen(cscf, addrs, lsopt) ==
    IF NewPair(addrs, lsopt) THEN Append(addrs, ngx_http_add_address(cscf, lsopt))
    ELSE <<>>

ngx_mail_core_listen(cscf, addrs, lsopt) ==
    IF NewPair(addrs, lsopt) THEN Append(addrs, ngx_http_add_address(cscf, lsopt))
    ELSE <<>>

AddAddresses(cscf, addrs, lsopt) ==
    IF listenConf.kind = "http" THEN ngx_http_add_addresses(cscf, addrs, lsopt)
    ELSE IF listenConf.kind = "stream" THEN ngx_stream_core_listen(cscf, addrs, lsopt)
    ELSE ngx_mail_core_listen(cscf, addrs, lsopt)

(* The ports of the configuration with one more directive.                 *)
ngx_http_add_listen(c, lsopt) ==
    LET here == {i \in DOMAIN c.ports : c.ports[i].port = lsopt.port}
        i == IF here = {} THEN Len(c.ports) + 1 ELSE CHOOSE j \in here : TRUE
        addrs == IF here = {} THEN <<>> ELSE c.ports[i].addrs
        new == AddAddresses(c.server, addrs, lsopt)
    IN [c EXCEPT !.listen = TRUE,
                 !.said = Append(@, [lsopt EXCEPT !.server = c.server]),
                 !.phase = IF new = <<>> THEN "refused" ELSE @,
                 !.ports = IF new = <<>> THEN @
                           ELSE IF here = {} THEN Append(@, [port |-> lsopt.port, addrs |-> new])
                           ELSE [@ EXCEPT ![i].addrs = new]]

(* The "listen" directive.  Every socket option (bind, backlog=, rcvbuf=,  *)
(* deferred, reuseport, ...) sets both set and bind.                       *)
ngx_http_core_listen ==
    /\ listenConf.phase = "read" /\ Len(listenConf.said) < MaxListen
    /\ \E port \in Ports, addr \in Addresses \cup {Wild}, b \in {"no", "bind", "reuseport"},
          d \in (IF listenConf.kind = "http" THEN BOOLEAN ELSE {FALSE}), ssl \in BOOLEAN :
          listenConf' = ngx_http_add_listen(listenConf,
                           [port |-> port, addr |-> addr, set |-> b # "no", bind |-> b # "no",
                            reuseport |-> b = "reuseport", default |-> d, ssl |-> ssl, server |-> 0])
    /\ UNCHANGED <<ls, conn>>

(* The end of a server{} block: without a listen directive an HTTP server  *)
(* listens on "*" of the default port, a stream or mail one is refused.    *)
DefaultPort == CHOOSE p \in Ports : TRUE

ngx_http_core_server(c) ==
    IF c.listen THEN c
    ELSE IF listenConf.kind = "http"
    THEN ngx_http_add_listen(c, [port |-> DefaultPort, addr |-> Wild, set |-> FALSE,
                                 bind |-> FALSE, reuseport |-> FALSE,
                                 default |-> FALSE, ssl |-> FALSE, server |-> 0])
    ELSE [c EXCEPT !.phase = "refused"]

NextServer ==
    /\ listenConf.phase = "read" /\ listenConf.server < MaxServers
    /\ LET c == ngx_http_core_server(listenConf)
       IN listenConf' = IF c.phase = "refused" THEN c
                        ELSE [c EXCEPT !.server = @ + 1, !.listen = FALSE]
    /\ UNCHANGED <<ls, conn>>

-----------------------------------------------------------------------------

(* Which addresses get a socket.                                           *)

BindFirst(a, b) == IF a.opt.bind /\ ~b.opt.bind THEN -1
                   ELSE IF ~a.opt.bind /\ b.opt.bind THEN 1 ELSE 0

(* The order of addresses: explicit bindings, implicit ones, the wildcard. *)
ngx_http_cmp_conf_addrs(a, b) ==
    IF a.opt.addr = Wild THEN 1
    ELSE IF b.opt.addr = Wild THEN -1
    ELSE BindFirst(a, b)

(* ngx_sort(): insertion, from the end, before the first smaller element.  *)
ngx_sort(addrs) ==
    FoldLeft(LAMBDA s, x :
               LET ok == {i \in 0..Len(s) :
                            \A j \in i+1..Len(s) : ngx_http_cmp_conf_addrs(s[j], x) > 0}
                   at == CHOOSE i \in ok : \A j \in ok : i <= j
               IN SubSeq(s, 1, at) \o <<x>> \o SubSeq(s, at + 1, Len(s)),
             <<>>, addrs)

(* The configuration of one address as the socket keeps it.                *)
ngx_http_add_addrs(addrs, naddrs) ==
    [i \in 1..naddrs |-> [addr |-> addrs[i].opt.addr, server |-> addrs[i].default,
                          ssl |-> addrs[i].opt.ssl]]

(* One socket, or one for each worker with reuseport.                      *)
ngx_clone_listening(sock, reuseport) ==
    [n \in 1..(IF reuseport THEN Workers ELSE 1) |-> [sock EXCEPT !.worker = n]]

(* The loop over the sorted addresses: addrs is the rest of the array from *)
(* "addr", i counts the implicit addresses passed on the way.              *)
RECURSIVE BindLoop(_, _, _, _)

BindLoop(port, addrs, i, bind_wildcard) ==
    IF i > Len(addrs) THEN <<>>
    ELSE IF bind_wildcard /\ ~addrs[i].opt.bind
    THEN BindLoop(port, addrs, i + 1, bind_wildcard)
    ELSE ngx_clone_listening([port |-> port, addr |-> addrs[i].opt.addr, worker |-> 1,
                              addrs |-> ngx_http_add_addrs(addrs, i)],
                             addrs[i].opt.reuseport /\ listenConf.kind # "mail")
         \o BindLoop(port, Tail(addrs), i, bind_wildcard)

ngx_http_init_listening(port) ==
    LET sorted == ngx_sort(port.addrs)
        last == Len(sorted)
        bind_wildcard == sorted[last].opt.addr = Wild
        addrs == IF bind_wildcard THEN [sorted EXCEPT ![last].opt.bind = TRUE]
                 ELSE sorted
    IN BindLoop(port.port, addrs, 1, bind_wildcard)

(* The same loop in the other two configurations.                          *)
ngx_stream_optimize_servers(port) == ngx_http_init_listening(port)

ngx_mail_optimize_servers(port) == ngx_http_init_listening(port)

Optimize(port) ==
    CASE listenConf.kind = "http" -> ngx_http_init_listening(port)
      [] listenConf.kind = "stream" -> ngx_stream_optimize_servers(port)
      [] OTHER -> ngx_mail_optimize_servers(port)

(* The end of the block: the last server, then ngx_http_optimize_servers() *)
(* for every port.                                                         *)
ngx_http_block ==
    /\ listenConf.phase = "read"
    /\ LET c == ngx_http_core_server(listenConf)
       IN /\ listenConf' = IF c.phase = "refused" THEN c ELSE [c EXCEPT !.phase = "run"]
          /\ ls' = IF c.phase = "refused" THEN <<>>
                   ELSE FlattenSeq([p \in DOMAIN c.ports |-> Optimize(c.ports[p])])
    /\ UNCHANGED conn

-----------------------------------------------------------------------------

(* A connection.                                                           *)

(* The kernel gives a connection to the socket bound to its local address, *)
(* or else to the one bound to the wildcard.                               *)
Delivered(port, local) ==
    LET own == {i \in DOMAIN ls : ls[i].port = port /\ ls[i].addr = local}
        any == {i \in DOMAIN ls : ls[i].port = port /\ ls[i].addr = Wild}
    IN IF own # {} THEN own ELSE any

(* The last address of the socket stands for all that are not named.       *)
ngx_http_init_connection(addrs, local) ==
    LET named == {i \in 1..Len(addrs) - 1 : addrs[i].addr = local}
    IN IF named = {} THEN addrs[Len(addrs)]
       ELSE addrs[CHOOSE i \in named : \A j \in named : i <= j]

Connect ==
    /\ listenConf.phase = "run" /\ conn = None
    /\ \E port \in Ports, local \in Addresses :
          \/ /\ Delivered(port, local) = {}
             /\ conn' = [server |-> -1, port |-> port, local |-> local]
          \/ \E i \in Delivered(port, local) :
                LET a == ngx_http_init_connection(ls[i].addrs, local)
                IN conn' = [server |-> a.server, port |-> port, local |-> local,
                            ssl |-> a.ssl]
    /\ UNCHANGED <<listenConf, ls>>

ListenNext == ngx_http_core_listen \/ NextServer \/ ngx_http_block \/ Connect

ListenSpec == ListenInit /\ [][ListenNext]_listenVars

-----------------------------------------------------------------------------

(* Properties.                                                             *)

Said(port, addr) == SelectSeq(listenConf.said, LAMBDA d : d.port = port /\ d.addr = addr)

(* The directives that concern a local address: those that name it, or     *)
(* those of the wildcard when none does.                                   *)
Concern(port, local) == IF Said(port, local) # <<>> THEN Said(port, local)
                        ELSE Said(port, Wild)

(* A connection reaches the default server of its address: of the servers  *)
(* with a directive for this very address, or for "*" when there is none,  *)
(* the one marked default_server, else the first (ngx_http_add_addresses,  *)
(* ngx_http_init_listening, ngx_http_init_connection).  It is refused only *)
(* when no directive covers it.                                            *)
RightServer ==
    conn # None =>
      LET c == Concern(conn.port, conn.local)
          d == {i \in DOMAIN c : c[i].default}
      IN conn.server = IF c = <<>> THEN -1
                       ELSE IF d = {} THEN c[1].server
                       ELSE c[CHOOSE i \in d : TRUE].server

(* "ssl" on any directive of an address holds for all its connections,     *)
(* whichever directive has the socket options and overwrites the others    *)
(* (lines 1229-1274 of ngx_http_add_addresses).                            *)
SslIsKept ==
    conn # None /\ conn.server > 0 =>
      conn.ssl = \E i \in DOMAIN Concern(conn.port, conn.local) :
                    Concern(conn.port, conn.local)[i].ssl

(* Sockets never collide: one for an address and worker, and beside a      *)
(* wildcard socket only addresses that asked for one; every address that   *)
(* asked for a socket has it.                                              *)
SocketsAsAsked ==
    listenConf.phase = "run" =>
            \A port \in Ports :
               LET socks == {ls[i].addr : i \in {j \in DOMAIN ls : ls[j].port = port}}
                   asked == {a \in Addresses \cup {Wild} :
                               \E i \in DOMAIN Said(port, a) : Said(port, a)[i].bind}
                   named == {a \in Addresses \cup {Wild} : Said(port, a) # <<>>}
               IN /\ \A i, j \in DOMAIN ls : ls[i].port = ls[j].port /\ ls[i].addr = ls[j].addr
                        /\ ls[i].worker = ls[j].worker => i = j
                  /\ socks = IF Wild \in named THEN asked \cup {Wild} ELSE named

(* A configuration is refused exactly for what the messages say: a server  *)
(* with two directives for an address, socket options given twice or two   *)
(* default servers for an address; for stream and mail any second          *)
(* directive for an address, or a server without one.                      *)
RefusedExactly ==
    LET s == listenConf.said
        clash(i, j) == s[i].port = s[j].port /\ s[i].addr = s[j].addr
                       /\ (listenConf.kind = "http" => s[i].server = s[j].server
                          \/ (s[i].set /\ s[j].set) \/ (s[i].default /\ s[j].default))
        bare == listenConf.kind # "http" /\ ~listenConf.listen
    IN /\ (\E i, j \in DOMAIN s : i < j /\ clash(i, j)) => listenConf.phase = "refused"
       /\ listenConf.phase = "refused" => bare \/ \E i, j \in DOMAIN s : i < j /\ clash(i, j)

-----------------------------------------------------------------------------

(* The choice of a virtual server by name: the names of the servers of one *)
(* address are entered by ngx_hash_add_key(), which refuses conflicts, put *)
(* into an exact hash and two wildcard hashes by ngx_hash_init() and       *)
(* ngx_hash_wildcard_init(), and looked up for the Host of a request by    *)
(* ngx_hash_find_combined(); regular expressions come last.  A name is a   *)
(* sequence of character codes, as the prefix comparisons of the wildcard  *)
(* hashes tell "a", "a-" and "a." apart.                                   *)

CONSTANTS FormOf,     (* the server_name arguments, and what each text means *)
          DomainOf,   (* the Host values of requests, and their domains *)
          NoHosts,    (* Host values that are none *)
          NameRegexes,    (* regular expressions, each the set of hosts it matches *)
          MaxNames,   (* bound: names of the configuration *)
          MaxSize,    (* server_names_hash_max_size *)
          BucketSize  (* server_names_hash_bucket_size *)

VARIABLES phase, said, ha, nameConf, found

nameVars == <<phase, said, ha, nameConf, found>>

Dot == 46

Star == 42

Colon == 58

NULL == 0

(* A server has the number of its (only) name; 0 stands for no server, the *)
(* default server is -1.                                                   *)
Default == -1

IsUpper(c) == c \in 65..90

ngx_tolower(c) == IF IsUpper(c) THEN c + 32 ELSE c

ngx_strlow(s) == [i \in DOMAIN s |-> ngx_tolower(s[i])]

(* A domain is a sequence of labels; Text joins them with dots.            *)
Text(d) == FlattenSeq([i \in DOMAIN d |-> IF i = 1 THEN d[i] ELSE <<Dot>> \o d[i]])

NameNames == DOMAIN FormOf

Hosts == DOMAIN DomainOf \cup NoHosts

-----------------------------------------------------------------------------

(* The hash table.                                                         *)

(* ngx_hash_key() modulo the size, which is all that is used of it; the    *)
(* names are too short for it to leave 64 bits.                            *)
ngx_hash_key(name, size) == FoldLeft(LAMBDA k, c : (k * 31 + c) % size, 0, name)

Align8(n) == ((n + 7) \div 8) * 8

NGX_HASH_ELT_SIZE(name) == 8 + Align8(Len(name) + 2)

InBucket(names, size, b) == SelectSeq(names, LAMBDA x : ngx_hash_key(x.key, size) = b)

BucketBytes(names, size, b) ==
    FoldLeft(LAMBDA n, x : n + NGX_HASH_ELT_SIZE(x.key), 0, InBucket(names, size, b))

Fits(names, size) == \A b \in 0..size - 1 : BucketBytes(names, size, b) <= BucketSize - 8

(* The first number of buckets for which every bucket fits, else the       *)
(* largest allowed: the bucket size is then ignored.                       *)
HashSize(names) ==
    LET per == (BucketSize - 8) \div 16
        start == IF Len(names) \div per = 0 THEN 1 ELSE Len(names) \div per
        ok == {n \in start..MaxSize : Fits(names, n)}
    IN IF ok = {} THEN MaxSize ELSE CHOOSE n \in ok : \A m \in ok : n <= m

ngx_hash_init(names) ==
    LET size == HashSize(names)
    IN [size |-> size,
        buckets |-> [b \in 0..size - 1 |->
                       [i \in DOMAIN InBucket(names, size, b) |->
                          LET x == InBucket(names, size, b)[i]
                          IN [key |-> ngx_strlow(x.key), value |-> x.value]]]]

TooLong(names) == \E i \in DOMAIN names : BucketSize < NGX_HASH_ELT_SIZE(names[i].key) + 8

NoValue == [tag |-> -1]

(* The first element of the bucket with this very name.                    *)
ngx_hash_find(hash, name) ==
    LET b == hash.buckets[ngx_hash_key(name, hash.size)]
        at == {i \in DOMAIN b : b[i].key = name}
    IN IF at = {} THEN NoValue ELSE b[CHOOSE i \in at : \A j \in at : i <= j].value

-----------------------------------------------------------------------------

(* The wildcard hashes.  A value is the server with tag 0 or 1, or a       *)
(* nested hash with tag 2 or 3; an odd tag excludes the name itself.       *)

DotsIn(s) == {i \in DOMAIN s : s[i] = Dot}

StartsWith(s, t, len) == Len(s) >= len /\ SubSeq(s, 1, len) = SubSeq(t, 1, len)

(* The names that follow names[n] and share its first label.               *)
SameLabel(names, n, len, dot) ==
    LET differs == {i \in n + 1..Len(names) :
                      \/ ~StartsWith(names[i].key, names[n].key, len)
                      \/ ~dot /\ Len(names[i].key) > len /\ names[i].key[len + 1] # Dot}
        stop == IF differs = {} THEN Len(names) + 1
                ELSE CHOOSE i \in differs : \A j \in differs : i <= j
    IN stop - 1

RECURSIVE ngx_hash_wildcard_init(_)

ngx_hash_wildcard_init(names) ==
    LET RECURSIVE Groups(_)
        Groups(n) ==
          IF n > Len(names) THEN <<>>
          ELSE LET key == names[n].key
                   dot == DotsIn(key) # {}
                   first == IF dot THEN (CHOOSE i \in DotsIn(key) :
                                           \A j \in DotsIn(key) : i <= j) - 1
                            ELSE Len(key)
                   len == IF dot THEN first + 1 ELSE first
                   last == SameLabel(names, n, len, dot)
                   rest == (IF Len(key) # len
                            THEN <<[names[n] EXCEPT !.key = SubSeq(key, len + 1, Len(key))]>>
                            ELSE <<>>)
                           \o [i \in 1..last - n |->
                                 LET x == names[n + i]
                                 IN [x EXCEPT !.key = SubSeq(x.key, first + 2, Len(x.key))]]
                   wdc == [hash |-> ngx_hash_wildcard_init(rest).hash,
                           value |-> IF Len(key) = len THEN names[n].value.server ELSE NULL]
               IN <<[key |-> SubSeq(key, 1, first),
                     value |-> IF rest # <<>>
                               THEN [tag |-> IF dot THEN 3 ELSE 2, wdc |-> wdc]
                               ELSE [tag |-> IF dot THEN 1 ELSE 0,
                                     server |-> names[n].value.server]]>>
                  \o Groups(last + 1)
    IN [hash |-> ngx_hash_init(Groups(1)), value |-> NULL]

(* "*.example.com" and ".example.com": labels from the last.               *)
RECURSIVE ngx_hash_find_wc_head(_, _)

ngx_hash_find_wc_head(hwc, name) ==
    LET n == IF DotsIn(name) = {} THEN 0
             ELSE CHOOSE i \in DotsIn(name) : \A j \in DotsIn(name) : j <= i
        value == ngx_hash_find(hwc.hash, SubSeq(name, n + 1, Len(name)))
    IN CASE value = NoValue -> hwc.value
         [] value # NoValue /\ value.tag \in {2, 3} ->
              IF n = 0 THEN IF value.tag = 3 THEN NULL ELSE value.wdc.value
              ELSE LET v == ngx_hash_find_wc_head(value.wdc, SubSeq(name, 1, n - 1))
                   IN IF v # NULL THEN v ELSE value.wdc.value
         [] OTHER -> IF value.tag = 1 /\ n = 0 THEN NULL ELSE value.server

(* "www.example.*": labels from the first; the name must go on after the   *)
(* labels of the wildcard.                                                 *)
RECURSIVE ngx_hash_find_wc_tail(_, _)

ngx_hash_find_wc_tail(hwc, name) ==
    IF DotsIn(name) = {} THEN NULL
    ELSE LET i == CHOOSE k \in DotsIn(name) : \A j \in DotsIn(name) : k <= j
             value == ngx_hash_find(hwc.hash, SubSeq(name, 1, i - 1))
         IN CASE value = NoValue -> hwc.value
              [] value # NoValue /\ value.tag \in {2, 3} ->
                   LET v == ngx_hash_find_wc_tail(value.wdc, SubSeq(name, i + 1, Len(name)))
                   IN IF v # NULL THEN v ELSE value.wdc.value
              [] OTHER -> value.server

ngx_hash_find_combined(hash, name) ==
    LET exact == IF hash.exact = <<>> THEN NoValue ELSE ngx_hash_find(hash.exact[1], name)
        head == IF hash.wc_head = <<>> THEN NULL ELSE ngx_hash_find_wc_head(hash.wc_head[1], name)
        tail == IF hash.wc_tail = <<>> THEN NULL ELSE ngx_hash_find_wc_tail(hash.wc_tail[1], name)
    IN IF exact # NoValue THEN exact.server
       ELSE IF name = <<>> THEN NULL
       ELSE IF head # NULL THEN head ELSE tail

-----------------------------------------------------------------------------

(* The entering of names.                                                  *)

Invalid(key) ==
    \/ Len(SelectSeq(key, LAMBDA c : c = Star)) > 1
    \/ \E i \in 1..Len(key) - 1 : key[i] = Dot /\ key[i + 1] = Dot

(* "com.example." of "*.example.com" and "com.example" of ".example.com":  *)
(* the labels after the first character, in reverse.                       *)
Reversed(key) ==
    LET RECURSIVE Rev(_, _)
        Rev(i, end) == IF i = 1 THEN SubSeq(key, 2, end)
                       ELSE IF key[i] = Dot
                       THEN SubSeq(key, i + 1, end) \o <<Dot>> \o Rev(i - 1, i - 1)
                       ELSE Rev(i - 1, end)
    IN Rev(Len(key), Len(key))

(* The three wildcard forms, an exact name, or NGX_DECLINED.               *)
KeyForm(key) ==
    LET n == Len(key)
    IN CASE Invalid(key) -> "declined"
         [] ~Invalid(key) /\ n > 1 /\ key[1] = Dot -> "both"
         [] ~Invalid(key) /\ n > 2 /\ key[1] = Star /\ key[2] = Dot -> "head"
         [] ~Invalid(key) /\ n > 2 /\ key[1] # Dot /\ key[n - 1] = Dot /\ key[n] = Star -> "tail"
         [] OTHER -> IF \E i \in 1..n : key[i] = Star THEN "declined" ELSE "exact"

(* ".example.com" is entered among the exact names as well as among the    *)
(* leading wildcards; rc "busy" is a conflict, the name is ignored.        *)
ngx_hash_add_key(h, key, server) ==
    LET form == KeyForm(key)
        v == [tag |-> 0, server |-> server]
        bare == CASE form = "both" -> Tail(key)
                  [] form = "head" -> SubSeq(key, 3, Len(key))
                  [] form = "tail" -> SubSeq(key, 1, Len(key) - 1)
                  [] OTHER -> key
        g == IF form \in {"exact", "both"} THEN [h EXCEPT !.keys_hash = @ \cup {bare}] ELSE h
    IN IF form = "declined" THEN [h EXCEPT !.rc = "declined"]
       ELSE IF form \in {"exact", "both"} /\ bare \in h.keys_hash THEN [h EXCEPT !.rc = "busy"]
       ELSE IF form = "exact"
       THEN [g EXCEPT !.rc = "ok", !.keys = Append(@, [key |-> key, value |-> v])]
       ELSE IF form = "tail"
       THEN IF bare \in h.wc_tail_hash THEN [g EXCEPT !.rc = "busy"]
            ELSE [g EXCEPT !.rc = "ok", !.wc_tail_hash = @ \cup {bare},
                           !.wc_tail = Append(@, [key |-> SubSeq(key, 1, Len(key) - 2), value |-> v])]
       ELSE IF bare \in h.wc_head_hash THEN [g EXCEPT !.rc = "busy"]
       ELSE [g EXCEPT !.rc = "ok", !.wc_head_hash = @ \cup {bare},
                      !.wc_head = Append(@, [key |-> Reversed(key), value |-> v])]

-----------------------------------------------------------------------------

(* The servers of an address.                                              *)

strcmp(s, t) ==
    LET at(x, i) == IF i > Len(x) THEN 0 ELSE x[i]
        n == IF Len(s) > Len(t) THEN Len(s) ELSE Len(t)
        d == {i \in 1..n : at(s, i) # at(t, i)}
        i == CHOOSE k \in d : \A j \in d : k <= j
    IN IF d = {} THEN 0 ELSE at(s, i) - at(t, i)

(* A dot is the lowest character, so that names under a common parent are  *)
(* together.                                                               *)
ngx_dns_strcmp(s, t) ==
    strcmp([i \in DOMAIN s |-> IF s[i] = Dot THEN 32 ELSE ngx_tolower(s[i])],
           [i \in DOMAIN t |-> IF t[i] = Dot THEN 32 ELSE ngx_tolower(t[i])])

ngx_http_cmp_dns_wildcards(x, y) == ngx_dns_strcmp(x.key, y.key) < 0

NameSorted(names) == SortSeq(names, LAMBDA x, y : ngx_http_cmp_dns_wildcards(x, y))

(* The hashes, each a sequence of one, empty when it has no names.         *)
ngx_http_server_names(h) ==
    [exact |-> IF h.keys = <<>> THEN <<>> ELSE <<ngx_hash_init(h.keys)>>,
     wc_head |-> IF h.wc_head = <<>> THEN <<>> ELSE <<ngx_hash_wildcard_init(NameSorted(h.wc_head))>>,
     wc_tail |-> IF h.wc_tail = <<>> THEN <<>> ELSE <<ngx_hash_wildcard_init(NameSorted(h.wc_tail))>>]

NameInit == /\ phase = "read" /\ said = <<>> /\ found = NULL /\ nameConf = NULL
            /\ ha = [keys |-> <<>>, wc_head |-> <<>>, wc_tail |-> <<>>, keys_hash |-> {},
                     wc_head_hash |-> {}, wc_tail_hash |-> {}, rc |-> "ok"]

(* server_name refuses "*" without a dot after it, and "."; the name is    *)
(* entered in lower case.                                                  *)
ngx_http_core_server_name ==
    /\ phase = "read" /\ Len(said) < MaxNames
    /\ \E name \in NameNames, rx \in NameRegexes \cup {{}} :
          IF rx # {}
          THEN /\ said' = Append(said, [name |-> <<>>, regex |-> rx, rc |-> "ok"])
               /\ UNCHANGED <<phase, ha>>
          ELSE LET h == ngx_hash_add_key(ha, ngx_strlow(name), Len(said) + 1)
                   bad == name[1] = Star /\ (Len(name) < 3 \/ name[2] # Dot)
               IN IF bad \/ h.rc = "declined" \/ TooLong(<<[key |-> name]>>)
                  THEN phase' = "refused" /\ UNCHANGED <<said, ha>>
                  ELSE /\ said' = Append(said, [name |-> name, regex |-> {}, rc |-> h.rc])
                       /\ ha' = h
                       /\ UNCHANGED phase
    /\ UNCHANGED <<nameConf, found>>

(* With one server, and it without captures, there is nothing to choose.   *)
ngx_http_optimize_servers ==
    /\ phase = "read" /\ Len(said) > 1
    /\ phase' = "run"
    /\ nameConf' = ngx_http_server_names(ha)
    /\ UNCHANGED <<said, ha, found>>

DotTwice(host) == \E i \in 1..Len(host) - 1 : host[i] = Dot /\ host[i + 1] = Dot

(* The host up to a port, without a dot at its end, in lower case; <<>> is *)
(* refused (a host with two dots in a row, or an empty one).               *)
ngx_http_validate_host(host) ==
    LET colon == {i \in DOMAIN host : host[i] = Colon}
        len == IF colon = {} THEN Len(host)
               ELSE (CHOOSE i \in colon : \A j \in colon : i <= j) - 1
        dot_pos == IF DotsIn(host) = {} THEN -1
                   ELSE CHOOSE i \in DotsIn(host) : \A j \in DotsIn(host) : j <= i
        n == IF dot_pos = len THEN len - 1 ELSE len
    IN IF DotTwice(host) \/ n = 0 THEN <<>> ELSE ngx_strlow(SubSeq(host, 1, n))

(* The server for a valid host: hashes, then regular expressions in order. *)
ngx_http_find_virtual_server(host) ==
    LET v == ngx_hash_find_combined(nameConf, host)
        rx == {i \in DOMAIN said : said[i].name = <<>> /\ host \in said[i].regex}
    IN IF v # NULL THEN v
       ELSE IF rx # {} THEN CHOOSE i \in rx : \A j \in rx : i <= j
       ELSE Default

Request ==
    /\ phase = "run"
    /\ \E text \in Hosts :
          LET host == ngx_http_validate_host(text)
          IN found' = [text |-> text,
                       server |-> IF host = <<>> THEN <<>>
                                  ELSE <<ngx_http_find_virtual_server(host)>>]
    /\ phase' = "done"
    /\ UNCHANGED <<said, ha, nameConf>>

NameNext == ngx_http_core_server_name \/ ngx_http_optimize_servers \/ Request

NameSpec == NameInit /\ [][NameNext]_nameVars

-----------------------------------------------------------------------------

(* Properties.                                                             *)

Suffix(d, e) == Len(d) > Len(e) /\ SubSeq(d, Len(d) - Len(e) + 1, Len(d)) = e

Prefix(d, e) == Len(d) > Len(e) /\ SubSeq(d, 1, Len(e)) = e

NameAccepted == {i \in DOMAIN said : said[i].rc = "ok"}

NamesOf(forms) == {i \in NameAccepted : said[i].name # <<>> /\ FormOf[said[i].name].form \in forms}

Dom(i) == FormOf[said[i].name].dom

NameLongest(S) == CHOOSE i \in S : \A j \in S : Len(Dom(j)) <= Len(Dom(i))

(* What the documentation of the hashes describes: the exact name first    *)
(* (".a" is exact for "a"), then the longest leading wildcard, then the    *)
(* longest trailing one, then the first regular expression.                *)
Reference(d) ==
    LET exact == {i \in NamesOf({"exact", "both"}) : Dom(i) = d}
        head == {i \in NamesOf({"head", "both"}) : Suffix(d, Dom(i))}
        tail == {i \in NamesOf({"tail"}) : Prefix(d, Dom(i))}
        rx == {i \in DOMAIN said : said[i].name = <<>> /\ Text(d) \in said[i].regex}
    IN IF exact # {} THEN CHOOSE i \in exact : TRUE
       ELSE IF head # {} THEN NameLongest(head)
       ELSE IF tail # {} THEN NameLongest(tail)
       ELSE IF rx # {} THEN CHOOSE i \in rx : \A j \in rx : i <= j
       ELSE Default

(* The wildcard hashes, whose nesting depends on the order the names sort  *)
(* into and on two bits of every value, give for every host the server of  *)
(* the best of the accepted names, however the host is written             *)
(* (ngx_hash_wildcard_init, ngx_hash_find_combined, validate_host).        *)
BestNameWins ==
    phase = "done" => found.server = IF found.text \in NoHosts THEN <<>>
                                     ELSE <<Reference(DomainOf[found.text])>>

(* A name is ignored only when an earlier one takes the same hosts: an     *)
(* equal exact name, an equal wildcard of either leading form; no two      *)
(* accepted names clash (NGX_BUSY of ngx_hash_add_key).                    *)
Clash(i, j) ==
    LET f == FormOf[said[i].name]
        g == FormOf[said[j].name]
        kinds(x) == CASE x.form = "both" -> {"exact", "head"} [] OTHER -> {x.form}
    IN f.dom = g.dom /\ kinds(f) \cap kinds(g) # {}

IgnoredForAClash ==
    LET named == {i \in DOMAIN said : said[i].name # <<>>}
    IN \A j \in named :
         /\ said[j].rc = "busy" => \E i \in named : i < j /\ Clash(i, j)
         /\ said[j].rc = "ok" => \A i \in named : i < j /\ said[i].rc = "ok" => ~Clash(i, j)

-----------------------------------------------------------------------------

(***************************************************************************)
(* How the location of a request is found.  http/ngx_http.c sorts the      *)
(* locations of a level, joins an exact and an inclusive one of the same   *)
(* name, nests the longer names below their prefixes and makes a search    *)
(* tree of each such list; http/ngx_http_core_module.c walks it with the   *)
(* URI, looks into nested locations and tries the regular expressions.     *)
(* Checked against a reference that knows only the list of locations.      *)
(*                                                                         *)
(* Characters are their codes.  A regular expression is the character a    *)
(* URI must contain; it stands for any test of the URI.                    *)
(***************************************************************************)

CONSTANTS LocNames,      \* names of prefix and exact locations
          LocKinds,      \* kinds of locations used
          LocRegexes,    \* characters of regular expressions used
          Parents,    \* TRUE if locations may be nested
          MaxLoc,     \* bound: locations of a configuration
          Uris        \* the URIs looked up

VARIABLE locConf         \* the locations in the order of the configuration

locVars == <<locConf>>

SlashCh == 47

Loc(kind, name, parent) == [kind |-> kind, name |-> name, parent |-> parent]

Exact(l) == l.kind = "="

Inclusive(l) == l.kind \in {"", "^~", "auto"}

Lists(l) == l.kind \in {"noname", "@", "~"}     \* kept apart from the tree

Level(p) == SelectSeq([i \in DOMAIN locConf |-> i], LAMBDA i : locConf[i].parent = p)

-----------------------------------------------------------------------------

(* ngx_filename_cmp on at most n characters; names end in a zero.  '/' is  *)
(* the lowest character.                                                   *)
ChAt(s, i) == IF i <= Len(s) THEN s[i] ELSE 0

Rank(c) == IF c = SlashCh THEN 0 ELSE c

RECURSIVE CmpFrom(_, _, _, _)

CmpFrom(s, t, i, n) ==
    LET a == ChAt(s, i)
        b == ChAt(t, i)
    IN IF n = 0 THEN 0
       ELSE CASE a = b -> IF a = 0 THEN 0 ELSE CmpFrom(s, t, i + 1, n - 1)
              [] a # b /\ (a = 0 \/ b = 0) -> a - b
              [] a # b /\ a # 0 /\ b # 0 -> Rank(a) - Rank(b)

ngx_filename_cmp(s, t, n) == CmpFrom(s, t, 1, n)

Min2(a, b) == IF a < b THEN a ELSE b

(* ngx_http_cmp_locations *)
Shift(l) == CASE l.kind = "noname" -> 3 [] l.kind = "@" -> 2 [] l.kind = "~" -> 1 [] OTHER -> 0

ngx_http_cmp_locations(x, y) ==
    LET rc == ngx_filename_cmp(x.name, y.name, Min2(Len(x.name), Len(y.name)) + 1)
    IN CASE Shift(x) # Shift(y) -> Shift(x) - Shift(y)
         [] Shift(x) = Shift(y) /\ Shift(x) \in {1, 3} -> 0
         [] Shift(x) = Shift(y) /\ Shift(x) = 2 -> rc
         [] Shift(x) = Shift(y) /\ Shift(x) = 0 ->
              IF rc = 0 /\ ~Exact(x) /\ Exact(y) THEN 1 ELSE rc

(* ngx_queue_sort: each element goes behind the last one not above it. *)
SortedIn(q, i) ==
    LET below == {k \in 0..Len(q) : k = 0 \/ ngx_http_cmp_locations(locConf[q[k]], locConf[i]) <= 0}
        k == CHOOSE k \in below : \A j \in below : j <= k
    IN SubSeq(q, 1, k) \o <<i>> \o SubSeq(q, k + 1, Len(q))

ngx_queue_sort(q) == FoldLeft(SortedIn, <<>>, q)

(* ngx_http_init_locations: what is kept apart is cut off the sorted list. *)
LocSorted(p) == ngx_queue_sort(Level(p))

Apart(p, kind) == SelectSeq(LocSorted(p), LAMBDA i : locConf[i].kind = kind)

Static(p) ==
    LET q == SelectSeq(LocSorted(p), LAMBDA i : ~Lists(locConf[i]))
    IN [k \in 1..Len(q) |->
          [name |-> locConf[q[k]].name, exact |-> IF Exact(locConf[q[k]]) THEN q[k] ELSE 0,
           incl |-> IF Exact(locConf[q[k]]) THEN 0 ELSE q[k], auto |-> locConf[q[k]].kind = "auto",
           list |-> <<>>]]

-----------------------------------------------------------------------------

(* ngx_http_join_exact_locations; <<>> if there is a duplicate. *)
Same(x, y) == x.name = y.name

Dup(x, y) == Same(x, y) /\ ((x.exact # 0 /\ y.exact # 0) \/ (x.incl # 0 /\ y.incl # 0))

HasDup(q) == \E k \in 1..(Len(q) - 1) : Dup(q[k], q[k + 1])

RECURSIVE Joined(_)

Joined(q) ==
    IF Len(q) < 2 THEN q
    ELSE IF Same(q[1], q[2])
         THEN Joined(<<[q[1] EXCEPT !.incl = q[2].incl, !.auto = @ \/ q[2].auto]>> \o SubSeq(q, 3, Len(q)))
         ELSE <<q[1]>> \o Joined(Tail(q))

(* ngx_http_create_locations_list: the names that begin with an inclusive  *)
(* one and follow it go to its list.                                       *)
RECURSIVE Nested(_)

Nested(q) ==
    IF Len(q) < 2 THEN q
    ELSE LET h == q[1]
             stop == {k \in 2..Len(q) : \/ Len(h.name) > Len(q[k].name)
                                        \/ ngx_filename_cmp(h.name, q[k].name, Len(h.name)) # 0}
             x == IF stop = {} THEN Len(q) + 1 ELSE CHOOSE k \in stop : \A j \in stop : k <= j
         IN IF h.incl = 0 THEN <<h>> \o Nested(Tail(q))
            ELSE <<[h EXCEPT !.list = Nested(SubSeq(q, 2, x - 1))]>> \o Nested(SubSeq(q, x, Len(q)))

(* ngx_http_create_locations_tree: the middle one is the root; its list is *)
(* a tree below it, with names without what they have in common.           *)
NoTree == <<>>

RECURSIVE ngx_http_create_locations_tree(_, _)

ngx_http_create_locations_tree(q, prefix) ==
    LET mid == Len(q) \div 2 + 1
        x == q[mid]
    IN IF q = <<>> THEN NoTree
       ELSE <<[name |-> SubSeq(x.name, prefix + 1, Len(x.name)), exact |-> x.exact, incl |-> x.incl,
               auto |-> x.auto,
               left |-> ngx_http_create_locations_tree(SubSeq(q, 1, mid - 1), prefix),
               right |-> ngx_http_create_locations_tree(SubSeq(q, mid + 1, Len(q)), prefix),
               tree |-> ngx_http_create_locations_tree(x.list, Len(x.name))]>>

Tree(p) == ngx_http_create_locations_tree(Nested(Joined(Static(p))), 0)

-----------------------------------------------------------------------------

(* ngx_http_core_find_static_location: <<result, location>>. *)
RECURSIVE Walk(_, _, _)

Walk(node, uri, rv) ==
    IF node = NoTree THEN rv
    ELSE LET d == node[1]
             n == Min2(Len(uri), Len(d.name))
             rc == ngx_filename_cmp(uri, d.name, n)
             same == rc = 0
         IN CASE rc < 0 -> Walk(d.left, uri, rv)
              [] rc > 0 -> Walk(d.right, uri, rv)
              [] same /\ Len(uri) > Len(d.name) ->
                   IF d.incl # 0 THEN Walk(d.tree, SubSeq(uri, n + 1, Len(uri)), <<"again", d.incl>>)
                   ELSE Walk(d.right, uri, rv)
              [] same /\ Len(uri) = Len(d.name) ->
                   IF d.exact # 0 THEN <<"ok", d.exact>> ELSE <<"again", d.incl>>
              [] same /\ Len(uri) < Len(d.name) ->
                   Walk(d.left, uri,
                        IF Len(uri) + 1 = Len(d.name) /\ d.auto
                        THEN <<"done", IF d.exact # 0 THEN d.exact ELSE d.incl>> ELSE rv)

(* ngx_http_core_find_location from location p (0 is the server). *)
Matches(i, uri) == \E k \in DOMAIN uri : uri[k] = locConf[i].name[1]

FirstMatch(q, uri) == SelectSeq(q, LAMBDA i : Matches(i, uri))

RECURSIVE ngx_http_core_find_location(_, _)

AfterNested(uri, t, noregex, hit) ==
    IF t[1] \in {"ok", "done"} \/ noregex \/ hit = <<>> THEN t
    ELSE <<"ok", ngx_http_core_find_location(hit[1], uri)[2]>>

AfterStatic(p, uri, s) ==
    AfterNested(uri, IF s[1] = "again" THEN ngx_http_core_find_location(s[2], uri) ELSE s,
                s[1] = "again" /\ locConf[s[2]].kind = "^~", FirstMatch(Apart(p, "~"), uri))

ngx_http_core_find_location(p, uri) == AfterStatic(p, uri, Walk(Tree(p), uri, <<"declined", p>>))

-----------------------------------------------------------------------------

(* ngx_http_core_location: a location block, at the server or inside       *)
(* another location, unless that may not hold it.                          *)
LocAccepted(l) ==
       l.parent # 0 =>
          /\ locConf[l.parent].kind \notin {"=", "@", "noname"} /\ l.kind # "@"
          /\ \/ l.kind \in {"~", "noname"}
             \/ ngx_filename_cmp(l.name, locConf[l.parent].name, Len(locConf[l.parent].name)) = 0

ngx_http_core_location ==
    /\ Len(locConf) < MaxLoc
    /\ \A p \in 0..Len(locConf) : ~HasDup(Static(p))
    /\ \E k \in LocKinds, p \in IF Parents THEN 0..Len(locConf) ELSE {0} :
         \E n \in CASE k = "~" -> {<<c>> : c \in LocRegexes}
                    [] k \in {"noname", "@"} -> {<<64>>}
                    [] k = "auto" -> {n \in LocNames : Last(n) = SlashCh}    \* set by proxy_pass and alike
                    [] OTHER -> LocNames :
           /\ LocAccepted(Loc(k, n, p))
           /\ locConf' = Append(locConf, Loc(k, n, p))

LocInit == locConf = <<>>

LocNext == ngx_http_core_location

LocSpec == LocInit /\ [][LocNext]_locVars

-----------------------------------------------------------------------------

(* Reference *)
Own(p) == {i \in DOMAIN locConf : locConf[i].parent = p}

PrefixesOf(p, uri) == {i \in Own(p) : Inclusive(locConf[i]) /\ IsPrefix(locConf[i].name, uri)}

LocLongest(p, uri) == CHOOSE i \in PrefixesOf(p, uri) :
                          \A j \in PrefixesOf(p, uri) : Len(locConf[j].name) <= Len(locConf[i].name)

ExactOf(p, uri) == {i \in Own(p) : Exact(locConf[i]) /\ locConf[i].name = uri}

(* a location with auto_redirect whose name is the URI and a slash; what   *)
(* redirects is its exact namesake if there is one                         *)
AutoOf(p, uri) ==
    IF ~\E i \in Own(p) : locConf[i].kind = "auto" /\ locConf[i].name = Append(uri, SlashCh) THEN {}
    ELSE LET e == ExactOf(p, Append(uri, SlashCh))
         IN IF e # {} THEN e ELSE {i \in Own(p) : Inclusive(locConf[i]) /\ locConf[i].name = Append(uri, SlashCh)}

StaticRef(p, uri) ==
    CASE ExactOf(p, uri) # {} -> <<"ok", CHOOSE i \in ExactOf(p, uri) : TRUE>>
      [] ExactOf(p, uri) = {} /\ \E i \in PrefixesOf(p, uri) : locConf[i].name = uri ->
           <<"again", LocLongest(p, uri)>>
      [] ExactOf(p, uri) = {} /\ ~\E i \in PrefixesOf(p, uri) : locConf[i].name = uri ->
           CASE AutoOf(p, uri) # {} -> <<"done", CHOOSE i \in AutoOf(p, uri) : TRUE>>
             [] AutoOf(p, uri) = {} /\ PrefixesOf(p, uri) # {} -> <<"again", LocLongest(p, uri)>>
             [] OTHER -> <<"declined", p>>

RECURSIVE FindRef(_, _)

RefAfterNested(uri, t, noregex, hits) ==
    IF t[1] \in {"ok", "done"} \/ noregex \/ hits = {} THEN t
    ELSE <<"ok", FindRef(CHOOSE i \in hits : \A j \in hits : i <= j, uri)[2]>>

RefAfterStatic(p, uri, s) ==
    RefAfterNested(uri, IF s[1] = "again" THEN FindRef(s[2], uri) ELSE s,
                   s[1] = "again" /\ locConf[s[2]].kind = "^~",
                   {i \in Own(p) : locConf[i].kind = "~" /\ Matches(i, uri)})

FindRef(p, uri) == RefAfterStatic(p, uri, StaticRef(p, uri))

Valid == \A p \in 0..Len(locConf) : ~HasDup(Static(p))

(* A search of the tree ends at the exact location of the URI, or the      *)
(* longest prefix of it, or the automatic redirect to it, whatever the     *)
(* order of the locations in the configuration and the shape of the tree.  *)
TreeFindsLongest ==
    Valid => \A p \in {0} \cup {locConf[i].parent : i \in DOMAIN locConf} : \A t \in {Tree(p)} :
                 \A u \in Uris : Walk(t, u, <<"declined", p>>) = StaticRef(p, u)

(* Nested locations, "^~" and regular expressions take precedence as       *)
(* documented, with the regular expressions in the order configured.       *)
FindsAsReference == Valid => \A u \in Uris : ngx_http_core_find_location(0, u) = FindRef(0, u)

(* Of two locations of one level with the same name, exactly those of the  *)
(* same sort are refused as duplicates.                                    *)
DuplicatesAreFound ==
    ~Valid <=> \E i, j \in DOMAIN locConf :
                  /\ i # j /\ locConf[i].parent = locConf[j].parent /\ locConf[i].name = locConf[j].name
                  /\ (Exact(locConf[i]) /\ Exact(locConf[j])) \/ (Inclusive(locConf[i]) /\ Inclusive(locConf[j]))
=============================================================================
