---------------------------- MODULE MCUpstreams -----------------------------

(***************************************************************************)
(* The upstream side of a request: the request itself with its retries,    *)
(* the choice of a peer, the cache of idle connections, and the two ways a *)
(* response is passed on, relayed and through the event pipe.              *)
(***************************************************************************)

EXTENDS Integers

CONSTANTS RequestBody, Modes, FromServer, FromClient, Early, Ahead,
    FullHeader, RelaySize, Threads, Num, PipeSize, BusySize, WriteSize,
    MaxFile, KeepRequests, Conns, Mods, FailTimeout, BalRequests

VARIABLES part, u, ka, method, peers, reqs, now, log, s, ep

Conf(resolve, ssl, nobuf, post, next, tries) ==
    [resolve |-> resolve, ssl |-> ssl, nobuf |-> nobuf, post |-> post,
     next_upstream |-> next, tries |-> tries]

(* Every use of proxy_next_upstream that changes what may be retried.      *)
All == LET usual == {"error", "timeout"}
       IN {Conf(r, l, b, p, n, 2) : r, l, b, p \in BOOLEAN,
              n \in {usual, usual \cup {"http", "invalid_header"},
                     usual \cup {"http", "non_idempotent"}}}

Server(name, weight, max_conns, max_fails, backup) ==
    [name |-> name, weight |-> weight, max_conns |-> max_conns, max_fails |-> max_fails,
     backup |-> backup, down |-> FALSE]

(* A heavy server, one with a connection limit, and a backup.              *)
WithBackup == <<Server(1, 2, 0, 1, FALSE), Server(2, 1, 1, 2, FALSE), Server(3, 1, 1, 1, TRUE)>>

(* Two servers, the second of which has two addresses.                     *)
NoBackup == <<Server(1, 2, 1, 1, FALSE), Server(2, 1, 0, 1, FALSE), Server(2, 1, 1, 1, FALSE)>>

Weighted == <<Server(1, 3, 0, 0, FALSE), Server(2, 2, 0, 0, FALSE), Server(3, 1, 0, 0, FALSE)>>

ThreePoints == <<2, 1, 2, 1>>

TwoKeys == [r \in 1..2 |-> <<10, 0, r>>]

TwoCrc == [x \in (1..2) \X (0..60) |-> (x[1] * 7 + x[2] * 5) % 11]

RequestA == INSTANCE UpstreamRequest WITH
    Confs <- All, Answer <- 2, Kinds <- {"plain"}, Limits <- {FALSE},
    Total <- 6

RequestB == INSTANCE UpstreamRequest WITH
    Confs <- All, Answer <- 2, Kinds <- {"cache", "store"},
    Limits <- {TRUE, FALSE}, Total <- 3

PeersA == INSTANCE UpstreamPeers WITH
    Peers <- {1}, MaxCached <- 1, MaxOpened <- 7, KeepMaxRequests <- 7,
    Methods <- {"rr", "least_conn"}, Servers <- WithBackup, Key <- TwoKeys,
    Crc <- TwoCrc, Points <- ThreePoints, MaxTime <- 4, MaxFailures <- 3,
    BalMaxRequests <- 3, MaxTurns <- 0

PeersB == INSTANCE UpstreamPeers WITH
    Peers <- {1, 2}, MaxCached <- 2, MaxOpened <- 4, KeepMaxRequests <- 3,
    Methods <- {"ip_hash", "hash"}, Servers <- WithBackup, Key <- TwoKeys,
    Crc <- TwoCrc, Points <- ThreePoints, MaxTime <- 4, MaxFailures <- 2,
    BalMaxRequests <- 3, MaxTurns <- 0

PeersC == INSTANCE UpstreamPeers WITH
    Peers <- {1, 2}, MaxCached <- 2, MaxOpened <- 4, KeepMaxRequests <- 3,
    Methods <- {"chash"}, Servers <- NoBackup, Key <- TwoKeys, Crc <- TwoCrc,
    Points <- ThreePoints, MaxTime <- 4, MaxFailures <- 2,
    BalMaxRequests <- 3, MaxTurns <- 0

PeersD == INSTANCE UpstreamPeers WITH
    Peers <- {1, 2}, MaxCached <- 2, MaxOpened <- 4, KeepMaxRequests <- 3,
    Methods <- {"rr"}, Servers <- Weighted, Key <- TwoKeys, Crc <- TwoCrc,
    Points <- ThreePoints, MaxTime <- 2, MaxFailures <- 1,
    BalMaxRequests <- 13, MaxTurns <- 12

roundRobinVars == <<method, peers, reqs, now, log>>

NoRoundRobin == method = 0 /\ peers = 0 /\ reqs = 0 /\ now = 0 /\ log = 0

vars == <<part, u, ka, roundRobinVars, s, ep>>

-----------------------------------------------------------------------------

Init ==
    \/ /\ part = "request" /\ RequestA!RequestInit
       /\ ka = 0 /\ NoRoundRobin /\ s = 0 /\ ep = 0
    \/ /\ \/ part = "keepalive one peer" /\ PeersA!KeepInit
          \/ part = "keepalive" /\ PeersB!KeepInit
       /\ u = 0 /\ NoRoundRobin /\ s = 0 /\ ep = 0
    \/ /\ \/ part = "round robin" /\ PeersA!BalInit
          \/ part = "hash" /\ PeersB!BalInit
          \/ part = "consistent hash" /\ PeersC!BalInit
          \/ part = "rotation" /\ PeersD!BalInit
       /\ u = 0 /\ ka = 0 /\ s = 0 /\ ep = 0
    \/ /\ part = "relay" /\ RequestA!RelayInit
       /\ u = 0 /\ ka = 0 /\ NoRoundRobin /\ ep = 0
    \/ /\ \/ part = "pipe" /\ RequestA!PipeInit
          \/ part = "pipe to file" /\ RequestB!PipeInit
       /\ u = 0 /\ ka = 0 /\ NoRoundRobin /\ s = 0

(* A request that was answered and a balancer whose bounds are used up     *)
(* have nothing more to do.                                                *)
MayStop ==
    /\ part \in {"request", "keepalive one peer", "keepalive", "round robin", "hash",
                "consistent hash", "rotation"}
    /\ UNCHANGED vars

Next ==
    \/ /\ part = "request" /\ RequestA!RequestNext
       /\ UNCHANGED <<part, ka, roundRobinVars, s, ep>>
    \/ /\ \/ part = "keepalive one peer" /\ PeersA!KeepNext
          \/ part = "keepalive" /\ PeersB!KeepNext
       /\ UNCHANGED <<part, u, roundRobinVars, s, ep>>
    \/ /\ \/ part = "round robin" /\ PeersA!BalNext
          \/ part = "hash" /\ PeersB!BalNext
          \/ part = "consistent hash" /\ PeersC!BalNext
          \/ part = "rotation" /\ PeersD!BalNext
       /\ UNCHANGED <<part, u, ka, s, ep>>
    \/ /\ part = "relay" /\ RequestA!RelayNext
       /\ UNCHANGED <<part, u, ka, roundRobinVars, ep>>
    \/ /\ \/ part = "pipe" /\ RequestA!PipeNext
          \/ part = "pipe to file" /\ RequestB!PipeNext
       /\ UNCHANGED <<part, u, ka, roundRobinVars, s>>
    \/ MayStop

Spec == Init /\ [][Next]_vars

-----------------------------------------------------------------------------

(* Through timeouts, failures and retries every server gets the request    *)
(* from its beginning without a gap or a repetition, one that is not       *)
(* idempotent goes to one server, no more servers are asked than the tries *)
(* allow, and a request counts as sent only when all of it was; while it   *)
(* waits some timer runs for it (ngx_http_upstream_send_request,           *)
(* ngx_http_upstream_next and their callers).                              *)
RequestWhole ==
    part = "request" =>
          /\ RequestA!Armed /\ RequestA!WholeRequest /\ RequestA!SentOnce
          /\ RequestA!TriesBounded /\ RequestA!BodySentIsSent

(* The current weights of a list of peers always sum up to zero, and while *)
(* none has failed each gets its weight's share of every full rotation;    *)
(* the counter of a peer is the number of requests that hold it and never  *)
(* passes max_conns; and no request gets a peer twice                      *)
(* (ngx_http_upstream_get_peer, and the same within least_conn and the     *)
(* hashes). The cache of connections holds exactly the idle ones, its      *)
(* other items are free; one in use belongs to one request and leads to    *)
(* the peer counted for it; an exiting worker keeps none; and stale        *)
(* connections cost a request neither its answer nor an endless retry      *)
(* (ngx_http_upstream_keepalive_module.c).                                 *)
PeersFair ==
    /\ part = "round robin" =>
          /\ PeersA!WeightsBalance /\ PeersA!ConnsExact
          /\ PeersA!NeverTwice
    /\ part = "hash" =>
          /\ PeersB!WeightsBalance /\ PeersB!ConnsExact
          /\ PeersB!NeverTwice
    /\ part = "consistent hash" =>
          /\ PeersC!WeightsBalance /\ PeersC!ConnsExact
          /\ PeersC!NeverTwice
    /\ part = "rotation" => PeersD!Rotation
    /\ part = "keepalive one peer" =>
          /\ PeersA!CacheExact /\ PeersA!OneOwner
          /\ PeersA!NoIdleWhenExiting /\ PeersA!RetriesBounded
          /\ PeersA!StaleIsRetried
    /\ part = "keepalive" =>
          /\ PeersB!CacheExact /\ PeersB!OneOwner
          /\ PeersB!NoIdleWhenExiting /\ PeersB!RetriesBounded

(* A peer with max_fails failures is probed by one request in a            *)
(* fail_timeout, whichever requests make them, and a request finds no live *)
(* upstream only when no server and no backup could be used by it at that  *)
(* moment (ngx_http_upstream_get_round_robin_peer and its variants).       *)
PeersJudged ==
    [][/\ part = "round robin" => PeersA!OneProbe /\ PeersA!BusyMeansNone
       /\ part = "hash" => PeersB!OneProbe /\ PeersB!BusyMeansNone
       /\ part = "consistent hash" => PeersC!OneProbe]_vars

(* A response reaches the client, the cache and the store in order and     *)
(* whole or the request does not end well, whether it is relayed or goes   *)
(* through the buffers and the temporary file of the event pipe: no buffer *)
(* is lost or read into while somebody needs it, and a worker that waits   *)
(* has a reason to and a timer (ngx_event_pipe,                            *)
(* ngx_http_upstream_process_upgraded,                                     *)
(* ngx_http_upstream_process_non_buffered_request).                        *)
RelayFaithful ==
    /\ part = "relay" =>
          /\ RequestA!RelayInOrder /\ RequestA!NothingCutOff
          /\ RequestA!CompleteIsComplete /\ RequestA!RelayNoStall
          /\ RequestA!NoHang
    /\ part = "pipe" =>
          /\ RequestA!PipeInOrder /\ RequestA!WholeResponse
          /\ RequestA!NeverEmpty /\ RequestA!RawConserved
          /\ RequestA!PipeNoStall
    /\ part = "pipe to file" =>
          /\ RequestB!PipeInOrder /\ RequestB!WholeResponse
          /\ RequestB!PipeNoStall /\ RequestB!FileWhole

=============================================================================
