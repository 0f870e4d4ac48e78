--------------------------- MODULE UpstreamPeers ----------------------------
(***************************************************************************)
(* The servers of an upstream: how one is chosen and judged, and the cache *)
(* of connections to them.                                                 *)
(***************************************************************************)
EXTENDS Integers, Sequences, SequencesExt, FiniteSets, FiniteSetsExt

(* The load balancers of an upstream{} block: weighted round robin with    *)
(* backup servers, least_conn, ip_hash, hash and consistent hash.  They    *)
(* share the peers (in shared memory with "zone", where every get and free *)
(* is one step under the lock of the peers) and the bitmap of peers a      *)
(* request has tried.  A request gets a peer, holds it, and frees it as    *)
(* good or failed; ngx_http_upstream_next() then asks for another one.     *)

CONSTANTS Mods,         (* "http" and "stream" have each their copy of the balancers *)
          Methods,      (* of "rr", "least_conn", "ip_hash", "hash", "chash" *)
          Servers,      (* the server lines: weight, max_conns, max_fails, backup, down *)
          FailTimeout,  (* fail_timeout of every server *)
          BalRequests,
          Key,          (* what is hashed of a request: three bytes of address *)
          Crc,          (* crc32 of a key with its n-th rehash prefix, as used *)
          Points,       (* consistent hash: the servers of the sorted points *)
          MaxTime, MaxFailures, BalMaxRequests, (* bounds *)
          MaxTurns      (* how many gets the history keeps *)

VARIABLES method, peers, reqs, now, log

balVars == <<method, peers, reqs, now, log>>

-----------------------------------------------------------------------------

(* The peers.                                                              *)

Peer(s) == [weight |-> s.weight, effective_weight |-> s.weight, current_weight |-> 0,
            conns |-> 0, max_conns |-> s.max_conns, fails |-> 0,
            max_fails |-> s.max_fails, accessed |-> 0, checked |-> 0,
            down |-> s.down, server |-> s.name]

(* Two lists: the servers, and the backup servers.                         *)
ngx_http_upstream_init_round_robin ==
    LET list(b) == SelectSeq(Servers, LAMBDA s : s.backup = b)
    IN [g \in {1, 2} |-> [i \in DOMAIN list(g = 2) |-> Peer(list(g = 2)[i])]]

ngx_stream_upstream_init_round_robin == ngx_http_upstream_init_round_robin

HasBackup == peers[2] # <<>>

(* A single peer is used whatever its state: with backup servers there is  *)
(* none.                                                                   *)
BalSingle == Len(peers[1]) = 1 /\ ~HasBackup

TotalWeight(ps) == FoldLeft(LAMBDA n, p : n + p.weight, 0, ps)

ngx_http_upstream_tries == Len(peers[1]) + Len(peers[2])

(* The state of a request's peer data: grp is rrp->peers, cur the peer     *)
(* held, hash and htries belong to the hash methods.                       *)
ngx_http_upstream_init_round_robin_peer(r) ==
    [st |-> "get", grp |-> 1, tried |-> {}, cur |-> 0, tries |-> ngx_http_upstream_tries,
     hash |-> CASE method.by = "ip_hash" -> 89
                [] method.by = "chash" -> Crc[r, 0] % Len(Points)
                [] OTHER -> 0,
     htries |-> 0, rehash |-> 0, got |-> <<>>]

ngx_stream_upstream_init_round_robin_peer(r) == ngx_http_upstream_init_round_robin_peer(r)

BalIdle == [st |-> "idle", got |-> <<>>]

BalInit == /\ method \in {m \in [mod : Mods, by : Methods] : m.by = "ip_hash" => m.mod = "http"}
           /\ peers = IF method.mod = "http" THEN ngx_http_upstream_init_round_robin
                      ELSE ngx_stream_upstream_init_round_robin
           /\ reqs = [r \in BalRequests |-> BalIdle]
           /\ now = FailTimeout + 1
           /\ log = [failures |-> 0, requests |-> 0, turns |-> <<>>,
                     probe |-> [g \in {1, 2} |-> [i \in DOMAIN peers[g] |-> 0]]]

(* A peer that may be used now by a request that has tried the peers given.*)
Disabled(p) == p.max_fails > 0 /\ p.fails >= p.max_fails /\ now - p.checked <= FailTimeout

Full(p) == p.max_conns > 0 /\ p.conns >= p.max_conns

Usable(ps, i, tried) == i \notin tried /\ ~ps[i].down /\ ~Disabled(ps[i]) /\ ~Full(ps[i])

(* One turn of the smooth weighted round robin among the peers of S: each  *)
(* gains its effective weight, the largest is chosen and pays the total.   *)
TurnAfter(ps, S) ==
    LET up == [i \in DOMAIN ps |-> IF i \notin S THEN ps[i]
                 ELSE [ps[i] EXCEPT !.current_weight = @ + ps[i].effective_weight,
                                    !.effective_weight = IF @ < ps[i].weight THEN @ + 1 ELSE @]]
        total == MapThenSumSet(LAMBDA i : up[i].effective_weight, S)
        best == CHOOSE i \in S : \A j \in S : \/ up[j].current_weight < up[i].current_weight
                                              \/ up[j].current_weight = up[i].current_weight /\ i <= j
    IN [ps |-> [up EXCEPT ![best].current_weight = @ - total], best |-> best]

Turn(ps, S) ==
    LET up == [i \in DOMAIN ps |-> IF i \notin S THEN ps[i]
                 ELSE [ps[i] EXCEPT !.current_weight = @ + ps[i].effective_weight,
                                    !.effective_weight = IF @ < ps[i].weight THEN @ + 1 ELSE @]]
        total == MapThenSumSet(LAMBDA i : ps[i].effective_weight, S)
        best == CHOOSE i \in S : \A j \in S : \/ up[j].current_weight < up[i].current_weight
                                              \/ up[j].current_weight = up[i].current_weight /\ i <= j
    IN [ps |-> [up EXCEPT ![best].current_weight = @ - total], best |-> best]

(* The chosen peer is counted; a disabled one that is tried again after    *)
(* its timeout is not tried by others for another one.                     *)
TakeUnchecked(p) == [p EXCEPT !.conns = @ + 1]

Take(p) == [p EXCEPT !.conns = @ + 1,
                     !.checked = IF now - p.checked > FailTimeout THEN now ELSE @]

Held(ps, q, i) ==
    [ps |-> [peers EXCEPT ![q.grp] = [ps EXCEPT ![i] = Take(@)]],
     q |-> [q EXCEPT !.st = "held", !.cur = i, !.tried = @ \cup {i},
                     !.got = Append(@, <<q.grp, i>>)]]

Busy(q) == [ps |-> peers, q |-> [q EXCEPT !.st = "busy"]]

(* Which peer a method picks from a list of peers, given those usable.     *)
ngx_http_upstream_get_peer(ps, S) == Turn(ps, S)

ngx_http_upstream_get_least_conn_peer(ps, S) ==
    LET least(i) == \A j \in S : ps[i].conns * ps[j].weight <= ps[j].conns * ps[i].weight
        best == {i \in S : least(i)}
    IN IF Cardinality(best) = 1 THEN [ps |-> ps, best |-> CHOOSE i \in best : TRUE]
       ELSE Turn(ps, best)

BackupPeers(q) == [q EXCEPT !.grp = 2, !.tried = {}]

(* Round robin or least_conn over the servers, then the backup servers;    *)
(* moving on to them forgets what was tried.                               *)
RECURSIVE ngx_http_upstream_get_round_robin_peer(_)

ngx_http_upstream_get_round_robin_peer(q) ==
    LET ps == peers[q.grp]
        S == {i \in DOMAIN ps : Usable(ps, i, q.tried)}
        t == IF method.by = "least_conn" THEN ngx_http_upstream_get_least_conn_peer(ps, S)
             ELSE ngx_http_upstream_get_peer(ps, S)
    IN IF BalSingle
       THEN IF ps[1].down \/ Full(ps[1]) THEN Busy(q)
            ELSE [ps |-> [peers EXCEPT ![1][1].conns = @ + 1],
                  q |-> [q EXCEPT !.st = "held", !.cur = 1, !.got = Append(@, <<1, 1>>)]]
       ELSE IF S # {} THEN Held(t.ps, q, t.best)
       ELSE IF q.grp = 1 /\ HasBackup
       THEN ngx_http_upstream_get_round_robin_peer(BackupPeers(q))
       ELSE Busy(q)

(* The peer the point w of the weights falls on.                           *)
ByWeight(ps, w) ==
    LET below(i) == FoldLeft(LAMBDA n, p : n + p.weight, 0, SubSeq(ps, 1, i - 1))
    IN CHOOSE i \in DOMAIN ps : below(i) <= w /\ w < below(i) + ps[i].weight

(* The next hash of the method: bytes of the address, or the crc32 with a  *)
(* growing prefix added to the sum.                                        *)
NextHash(r, q) ==
    IF method.by = "ip_hash" THEN FoldLeft(LAMBDA h, b : (h * 113 + b) % 6271, q.hash, Key[r])
    ELSE q.hash + Crc[r, q.rehash]

(* ip_hash and hash: twenty tries at a usable peer by hash, then round     *)
(* robin.                                                                  *)
RECURSIVE ngx_http_upstream_get_hash_peer(_, _)

ngx_http_upstream_get_hash_peer(r, q) ==
    LET ps == peers[q.grp]
        h == NextHash(r, q)
        i == ByWeight(ps, h % TotalWeight(ps))
        n == [q EXCEPT !.hash = h, !.rehash = @ + 1]
    IN IF q.htries > 20 \/ BalSingle THEN ngx_http_upstream_get_round_robin_peer(q)
       ELSE IF Usable(ps, i, q.tried) THEN Held(ps, n, i)
       ELSE ngx_http_upstream_get_hash_peer(r, [n EXCEPT !.htries = @ + 1])

(* Consistent hash: from the request's point on, the first server with a   *)
(* usable peer; all points are passed once.                                *)
RECURSIVE ngx_http_upstream_get_chash_peer(_)

ngx_http_upstream_get_chash_peer(q) ==
    LET ps == peers[1]
        server == Points[(q.hash % Len(Points)) + 1]
        S == {i \in DOMAIN ps : ps[i].server = server /\ Usable(ps, i, q.tried)}
        t == Turn(ps, S)
        n == [q EXCEPT !.hash = @ + 1, !.htries = @ + 1]
    IN IF S # {} THEN Held(t.ps, q, t.best)
       ELSE IF n.htries >= Len(Points) THEN Busy(n)
       ELSE ngx_http_upstream_get_chash_peer(n)

(* The stream module repeats the balancers for its sessions.               *)
ngx_stream_upstream_get_round_robin_peer(q) == ngx_http_upstream_get_round_robin_peer(q)

ngx_stream_upstream_get_least_conn_peer(q) == ngx_http_upstream_get_round_robin_peer(q)

ngx_stream_upstream_get_hash_peer(r, q) == ngx_http_upstream_get_hash_peer(r, q)

ngx_stream_upstream_get_chash_peer(q) == ngx_http_upstream_get_chash_peer(q)

GetPeer(r, q) ==
    CASE method.mod = "stream" /\ method.by = "rr" -> ngx_stream_upstream_get_round_robin_peer(q)
      [] method.mod = "stream" /\ method.by = "least_conn" -> ngx_stream_upstream_get_least_conn_peer(q)
      [] method.mod = "stream" /\ method.by = "hash" -> ngx_stream_upstream_get_hash_peer(r, q)
      [] method.mod = "stream" /\ method.by = "chash" -> ngx_stream_upstream_get_chash_peer(q)
      [] method.mod = "http" /\ method.by \in {"rr", "least_conn"} ->
            ngx_http_upstream_get_round_robin_peer(q)
      [] method.mod = "http" /\ method.by \in {"ip_hash", "hash"} ->
            ngx_http_upstream_get_hash_peer(r, q)
      [] method.mod = "http" /\ method.by = "chash" -> ngx_http_upstream_get_chash_peer(q)

-----------------------------------------------------------------------------

(* The life of a request.                                                  *)

Start(r) ==
    /\ reqs[r].st = "idle" /\ log.requests < BalMaxRequests
    /\ reqs' = [reqs EXCEPT ![r] = IF method.mod = "http"
                                      THEN ngx_http_upstream_init_round_robin_peer(r)
                                      ELSE ngx_stream_upstream_init_round_robin_peer(r)]
    /\ log' = [log EXCEPT !.requests = @ + 1]
    /\ UNCHANGED <<method, peers, now>>

Get(r) ==
    /\ reqs[r].st = "get"
    /\ \E a \in {GetPeer(r, reqs[r])} :
          /\ peers' = a.ps
          /\ reqs' = [reqs EXCEPT ![r] = a.q]
          /\ log' = IF a.q.st = "held"
                    THEN [log EXCEPT !.turns = IF Len(@) < MaxTurns THEN Append(@, a.q.cur) ELSE @,
                                     !.probe[a.q.grp][a.q.cur] = now]
                    ELSE log
    /\ UNCHANGED <<method, now>>

ngx_http_upstream_free_round_robin_peer(p, failed) ==
    LET ew == IF p.max_fails > 0 THEN p.effective_weight - p.weight \div p.max_fails
              ELSE p.effective_weight
    IN IF BalSingle THEN [p EXCEPT !.conns = @ - 1]
       ELSE IF failed
       THEN [p EXCEPT !.fails = @ + 1, !.accessed = now, !.checked = now,
                      !.effective_weight = IF ew < 0 THEN 0 ELSE ew, !.conns = @ - 1]
       ELSE [p EXCEPT !.fails = IF p.accessed < p.checked THEN 0 ELSE @, !.conns = @ - 1]

ngx_stream_upstream_free_round_robin_peer(p, failed) ==
    ngx_http_upstream_free_round_robin_peer(p, failed)

(* The request is answered, or the peer failed and ngx_http_upstream_next() *)
(* goes on while there are tries left.                                     *)
Free(r, failed) ==
    LET q == reqs[r]
        tries == IF BalSingle \/ q.tries = 0 THEN 0 ELSE q.tries - 1
    IN /\ q.st = "held"
       /\ failed => log.failures < MaxFailures
       /\ peers' = [peers EXCEPT ![q.grp][q.cur] =
                      IF method.mod = "http" THEN ngx_http_upstream_free_round_robin_peer(@, failed)
                      ELSE ngx_stream_upstream_free_round_robin_peer(@, failed)]
       /\ reqs' = [reqs EXCEPT ![r] = IF failed /\ tries > 0
                                      THEN [q EXCEPT !.st = "get", !.tries = tries]
                                      ELSE BalIdle]
       /\ log' = IF failed THEN [log EXCEPT !.failures = @ + 1] ELSE log
       /\ UNCHANGED <<method, now>>

(* A stream connection that is established reports so before it is freed.  *)
ngx_stream_upstream_notify_round_robin_peer(r) ==
    /\ method.mod = "stream" /\ reqs[r].st = "held"
    /\ LET q == reqs[r]
           p == peers[q.grp][q.cur]
       IN /\ p.accessed < p.checked /\ p.fails > 0
          /\ peers' = [peers EXCEPT ![q.grp][q.cur].fails = 0]
    /\ UNCHANGED <<method, reqs, now, log>>

(* No live upstream: the request is finalized with 502.                    *)
NoLive(r) ==
    /\ reqs[r].st = "busy"
    /\ reqs' = [reqs EXCEPT ![r] = BalIdle]
    /\ UNCHANGED <<method, peers, now, log>>

Tick == /\ now < MaxTime /\ now' = now + 1
        /\ UNCHANGED <<method, peers, reqs, log>>

BalNext == \/ \E r \in BalRequests : \/ Start(r) \/ Get(r) \/ NoLive(r)
                                     \/ ngx_stream_upstream_notify_round_robin_peer(r)
                                     \/ \E f \in BOOLEAN : Free(r, f)
           \/ Tick

BalSpec == BalInit /\ [][BalNext]_balVars

-----------------------------------------------------------------------------

(* Properties.                                                             *)

(* What the peers gain in a turn the chosen one pays: the current weights  *)
(* of a list always sum up to zero, whoever was skipped, has failed or has *)
(* recovered (ngx_http_upstream_get_peer, also within least_conn and       *)
(* consistent hash).  Otherwise a peer would be preferred for ever.        *)
WeightsBalance ==
    \A g \in {1, 2} : MapThenSumSet(LAMBDA i : peers[g][i].current_weight, DOMAIN peers[g]) = 0

(* The connection counter of a peer is the number of requests that hold it *)
(* and never passes max_conns, through failures, retries, the move to the  *)
(* backup servers and requests that are refused.                           *)
ConnsExact ==
    \A g \in {1, 2} : \A i \in DOMAIN peers[g] :
       LET p == peers[g][i]
       IN /\ p.conns = Cardinality({r \in BalRequests : reqs[r].st = "held"
                                       /\ reqs[r].grp = g /\ reqs[r].cur = i})
          /\ p.max_conns > 0 => p.conns <= p.max_conns

(* A request never gets the same peer twice: the bitmap of peers tried     *)
(* outlives every failure, and is cleared only with the move to the other  *)
(* list.                                                                   *)
NeverTwice == \A r \in BalRequests : \A i, j \in DOMAIN reqs[r].got : i # j => reqs[r].got[i] # reqs[r].got[j]

(* A disabled peer is probed by one request in a fail_timeout: two gets of *)
(* a peer with max_fails failures are further apart than that, whichever   *)
(* requests make them.                                                     *)
OneProbe ==
    \A g \in {1, 2} : \A i \in DOMAIN peers[g] :
       LET p == peers[g][i]
       IN peers'[g][i].conns > p.conns /\ p.max_fails > 0 /\ p.fails >= p.max_fails
          /\ ~BalSingle
          => now - log.probe[g][i] > FailTimeout

(* A request finds no live upstream only when no server and no backup      *)
(* server could be used by it at that moment.                              *)
BusyMeansNone ==
    \A r \in BalRequests : reqs[r].st = "get" /\ reqs'[r].st = "busy" =>
       /\ BalSingle \/ reqs[r].grp = 2 \/ \A i \in DOMAIN peers[1] : ~Usable(peers[1], i, reqs[r].tried)
       /\ \A i \in DOMAIN peers[2] :
             ~Usable(peers[2], i, IF reqs[r].grp = 2 THEN reqs[r].tried ELSE {})

(* Smooth round robin: while no peer has failed, each run of as    *)
(* many gets as the total weight, counted from the start, holds each       *)
(* server as often as its weight says.                                     *)
Rotation ==
    LET w == TotalWeight(peers[1])
        full == (Len(log.turns) \div w) * w
    IN log.failures = 0 =>
         \A i \in DOMAIN peers[1] :
            Cardinality({k \in 1..full : log.turns[k] = i}) * w = full * peers[1][i].weight

-----------------------------------------------------------------------------

(* The cache of idle upstream connections ("keepalive") between            *)
(* ngx_event_connect_peer() and ngx_http_upstream_next(): a request asks   *)
(* the balancer for a peer, takes an idle connection to that peer from the *)
(* cache or opens one, and gives a healthy connection back.  A server may  *)
(* close an idle connection at any time; the event that says so may come   *)
(* after the connection was taken.                                         *)

CONSTANTS Peers,        (* the addresses the balancer chooses from *)
          KeepRequests, Conns,
          MaxCached,    (* the argument of "keepalive" *)
          MaxOpened,    (* bound: connections opened in all *)
          KeepMaxRequests   (* bound: requests in all *)

VARIABLE ka

None == 0

Closed == [st |-> "closed", addr |-> None, ready |-> FALSE, dead |-> FALSE, item |-> None]

KeepIdle == [st |-> "idle", tries |-> 0, tried |-> {}, addr |-> None, conn |-> None,
             cached |-> FALSE, fresh |-> FALSE, new |-> 0, status |-> 0]

ngx_http_upstream_init_keepalive ==
    [cache |-> <<>>, free |-> [i \in 1..MaxCached |-> MaxCached + 1 - i],
     item |-> [i \in 1..MaxCached |-> [conn |-> None, addr |-> None]],
     conns |-> [c \in Conns |-> Closed], reqs |-> [r \in KeepRequests |-> KeepIdle],
     used |-> [a \in Peers |-> 0], exiting |-> FALSE, opened |-> 0, started |-> 0]

KeepInit == ka = ngx_http_upstream_init_keepalive

KeepSingle == Cardinality(Peers) = 1

(* The request begins with the tries of its balancer.                      *)
ngx_http_upstream_init_keepalive_peer(r) ==
    /\ ka.reqs[r].st = "idle" /\ ka.started < KeepMaxRequests
    /\ ka' = [ka EXCEPT !.reqs[r] = [KeepIdle EXCEPT !.st = "connect", !.tries = Cardinality(Peers)],
                        !.started = @ + 1]

-----------------------------------------------------------------------------

(* Closing and freeing.                                                    *)

ngx_http_upstream_keepalive_close(t, c) == [t EXCEPT !.conns[c] = Closed]

Without(q, i) == SelectSeq(q, LAMBDA j : j # i)

(* The server closed an idle connection or sent something on it, or the    *)
(* worker is exiting.                                                      *)
ngx_http_upstream_keepalive_close_handler(t, c) ==
    LET i == t.conns[c].item
    IN [ngx_http_upstream_keepalive_close(t, c) EXCEPT
          !.cache = Without(@, i), !.free = <<i>> \o @]

(* The balancer's free: the tries of a request with a single peer end.     *)
OriginalFree(t, r) ==
    [t EXCEPT !.used[t.reqs[r].addr] = @ - 1,
              !.reqs[r].tries = IF KeepSingle \/ @ = 0 THEN 0 ELSE @ - 1,
              !.reqs[r].addr = None]

Keep(t, r) ==
    LET q == t.reqs[r]
        i == IF t.free = <<>> THEN Last(t.cache) ELSE Head(t.free)
        e == IF t.free = <<>> THEN ngx_http_upstream_keepalive_close(t, t.item[i].conn) ELSE t
        k == [e EXCEPT !.cache = <<i>> \o Without(@, i),
                       !.free = Without(@, i),
                       !.item[i] = [conn |-> q.conn, addr |-> q.addr],
                       !.conns[q.conn].st = "cached", !.conns[q.conn].item = i,
                       !.reqs[r].conn = None]
    IN IF k.conns[q.conn].ready THEN ngx_http_upstream_keepalive_close_handler(k, q.conn) ELSE k

(* keep: the response left the connection usable, that is u->keepalive and *)
(* u->request_body_sent without an error, timeout or end of file.          *)
ngx_http_upstream_free_keepalive_peer(t, r, failed, keep) ==
    OriginalFree(IF ~failed /\ t.reqs[r].conn # None /\ keep /\ ~t.exiting
                 THEN Keep(t, r) ELSE t, r)

CloseOwn(t, r) ==
    IF t.reqs[r].conn = None THEN t
    ELSE [ngx_http_upstream_keepalive_close(t, t.reqs[r].conn) EXCEPT !.reqs[r].conn = None]

ngx_http_upstream_finalize_request(t, r, keep, status) ==
    LET f == IF t.reqs[r].addr # None
             THEN ngx_http_upstream_free_keepalive_peer(t, r, FALSE, keep) ELSE t
    IN [CloseOwn(f, r) EXCEPT !.reqs[r].st = "done", !.reqs[r].status = status]

ngx_http_upstream_next(t, r, ft) ==
    LET f == IF t.reqs[r].addr # None
             THEN ngx_http_upstream_free_keepalive_peer(t, r, ft # "404", FALSE) ELSE t
        n == IF f.reqs[r].cached /\ ft = "error" THEN [f EXCEPT !.reqs[r].tries = @ + 1] ELSE f
    IN IF n.reqs[r].tries = 0 \/ ft = "nolive"
       THEN ngx_http_upstream_finalize_request(n, r, FALSE, IF ft = "404" THEN 404 ELSE 502)
       ELSE [CloseOwn(n, r) EXCEPT !.reqs[r].st = "connect"]

-----------------------------------------------------------------------------

(* Taking a connection.                                                    *)

(* The balancer: any peer not tried yet, always the same one when single.  *)
PeerChoice(q) == IF KeepSingle THEN Peers ELSE Peers \ q.tried

Chosen(t, r, a) ==
    [t EXCEPT !.used[a] = @ + 1, !.reqs[r].addr = a, !.reqs[r].tried = @ \cup {a},
              !.reqs[r].cached = FALSE]

(* The most recent idle connection to that address is taken.               *)
ngx_http_upstream_get_keepalive_peer(t, r) ==
    LET here == {k \in DOMAIN t.cache : t.item[t.cache[k]].addr = t.reqs[r].addr}
        i == t.cache[Min(here)]
        c == t.item[i].conn
    IN IF here = {} THEN [t EXCEPT !.reqs[r].new = @ + 1]
       ELSE [t EXCEPT !.cache = Without(@, i), !.free = <<i>> \o @,
                      !.conns[c].st = "used", !.reqs[r].conn = c, !.reqs[r].cached = TRUE]

(* A new connection: there may be no descriptor or connection left, or the *)
(* connect() may fail at once.                                             *)
Opened(t, r, c) ==
    [t EXCEPT !.conns[c] = [Closed EXCEPT !.st = "used", !.addr = t.reqs[r].addr],
              !.reqs[r].conn = c, !.opened = @ + 1]

ngx_event_connect_peer(r) ==
    /\ ka.reqs[r].st = "connect"
    /\ \/ /\ PeerChoice(ka.reqs[r]) = {}
          /\ ka' = ngx_http_upstream_next([ka EXCEPT !.reqs[r].cached = FALSE], r, "nolive")
       \/ \E a \in PeerChoice(ka.reqs[r]) :
             LET g == ngx_http_upstream_get_keepalive_peer(Chosen(ka, r, a), r)
                 new == {c \in Conns : ka.conns[c].st = "closed"}
             IN \/ g.reqs[r].cached /\ ka' = [g EXCEPT !.reqs[r].st = "sent"]
                \/ /\ ~g.reqs[r].cached /\ new # {} /\ ka.opened < MaxOpened
                   /\ ka' = [Opened(g, r, Min(new)) EXCEPT !.reqs[r].st = "sent"]
                \/ /\ ~g.reqs[r].cached
                   /\ ka' = ngx_http_upstream_finalize_request(
                               [g EXCEPT !.reqs[r].fresh = TRUE], r, FALSE, 500)
                \/ /\ ~g.reqs[r].cached
                   /\ ka' = ngx_http_upstream_next([g EXCEPT !.reqs[r].fresh = TRUE], r, "error")

-----------------------------------------------------------------------------

(* Servers, answers and failures.                                          *)

(* The server answers and leaves the connection open or not, and may close *)
(* it before it is idle; or it answers with a status that        *)
(* "proxy_next_upstream" lists.                                            *)
Answer(r) ==
    LET q == ka.reqs[r]
    IN /\ q.st = "sent" /\ ~ka.conns[q.conn].dead
       /\ \/ \E keep, closed \in BOOLEAN :
                ka' = ngx_http_upstream_finalize_request(
                         [ka EXCEPT !.conns[q.conn].ready = closed, !.conns[q.conn].dead = closed],
                         r, keep, 200)
          \/ ka' = ngx_http_upstream_next(ka, r, "404")

(* Sending or reading fails: always when the server has closed the         *)
(* connection before.                                                      *)
Fails(r) ==
    LET q == ka.reqs[r]
    IN /\ q.st = "sent"
       /\ ka' = ngx_http_upstream_next([ka EXCEPT !.reqs[r].fresh = @ \/ ~ka.conns[q.conn].dead],
                                       r, "error")

ClientGone(r) ==
    /\ ka.reqs[r].st = "sent"
    /\ ka' = ngx_http_upstream_finalize_request(ka, r, FALSE, 499)

Forget(r) == /\ ka.reqs[r].st = "done"
             /\ ka' = [ka EXCEPT !.reqs[r] = KeepIdle]

(* The server closes an idle connection, or one that just became idle.     *)
ServerCloses(c) ==
    /\ ka.conns[c].st = "cached" /\ ~ka.conns[c].dead
    /\ ka' = [ka EXCEPT !.conns[c].dead = TRUE, !.conns[c].ready = TRUE]

(* The event loop reports it; an event without anything to read changes    *)
(* nothing.                                                                *)
ReadEvent(c) ==
    /\ ka.conns[c].st = "cached" /\ ka.conns[c].ready
    /\ ka' = ngx_http_upstream_keepalive_close_handler(ka, c)

(* Graceful shutdown closes the idle connections at once.                  *)
ngx_close_idle_connections ==
    /\ ~ka.exiting
    /\ ka' = [FoldSet(LAMBDA c, t : ngx_http_upstream_keepalive_close_handler(t, c), ka,
                      {c \in Conns : ka.conns[c].st = "cached"}) EXCEPT !.exiting = TRUE]

KeepNext == \/ \E r \in KeepRequests : \/ ngx_http_upstream_init_keepalive_peer(r)
                                       \/ ngx_event_connect_peer(r) \/ Answer(r) \/ Fails(r)
                                       \/ ClientGone(r) \/ Forget(r)
            \/ \E c \in Conns : ServerCloses(c) \/ ReadEvent(c)
            \/ ngx_close_idle_connections

KeepSpec == KeepInit /\ [][KeepNext]_ka

-----------------------------------------------------------------------------

(* Properties.                                                             *)

(* The items are always split between the cache and the free queue, and    *)
(* the cache holds exactly the idle connections, each once and under the   *)
(* address it is connected to: evictions, early closes and the shutdown    *)
(* lose no item and leak no connection.                                    *)
CacheExact ==
    /\ Len(ka.cache) + Len(ka.free) = MaxCached
    /\ ToSet(ka.cache) \cup ToSet(ka.free) = 1..MaxCached
    /\ {c \in Conns : ka.conns[c].st = "cached"} = {ka.item[i].conn : i \in ToSet(ka.cache)}
    /\ \A i \in ToSet(ka.cache) : /\ ka.conns[ka.item[i].conn].item = i
                                  /\ ka.conns[ka.item[i].conn].addr = ka.item[i].addr

(* A connection in use belongs to one request, leads to the peer the       *)
(* balancer counted for it, and is never an idle one as well.              *)
OneOwner ==
    /\ \A c \in Conns : ka.conns[c].st = "used" =>
          Cardinality({r \in KeepRequests : ka.reqs[r].conn = c}) = 1
    /\ \A r \in KeepRequests : ka.reqs[r].conn # None =>
          /\ ka.conns[ka.reqs[r].conn].st = "used"
          /\ ka.conns[ka.reqs[r].conn].addr = ka.reqs[r].addr
    /\ \A a \in Peers : ka.used[a] = Cardinality({r \in KeepRequests : ka.reqs[r].addr = a})

(* No connection is idle in a worker that is exiting, although requests    *)
(* still finish there.                                                     *)
NoIdleWhenExiting == ka.exiting => ka.cache = <<>>

(* With one server, connections it closed while they were idle never cost  *)
(* a request its answer: a 502 means that a live connection failed or none *)
(* could be made.                                                          *)
StaleIsRetried ==
    KeepSingle => \A r \in KeepRequests : ka.reqs[r].status = 502 => ka.reqs[r].fresh

(* However many stale connections a request meets, it opens at most one    *)
(* connection to each server: the tries given back for errors of cached    *)
(* connections are no endless retry.                                       *)
RetriesBounded == \A r \in KeepRequests : ka.reqs[r].new <= Cardinality(Peers)
=============================================================================
