------------------------------- MODULE Limits -------------------------------
(***************************************************************************)
(* The zones of limit_req and limit_conn.                                  *)
(***************************************************************************)
EXTENDS Integers, Sequences, SequencesExt, FiniteSets, FiniteSetsExt, TLC

(* limit_req: leaky buckets in shared memory                               *)
(* (http/modules/ngx_http_limit_req_module.c).                             *)
(*                                                                         *)
(* A request passes several limits.  Each is looked up under the mutex of  *)
(* its zone; only when all of them let the request pass are the earlier    *)
(* ones charged, each again under its mutex.  A worker handles one request *)
(* at a time, but other workers run between two sections.  Times are in    *)
(* milliseconds, and a worker knows the time it cached last.               *)

CONSTANTS Workers, ReqKeys,
          ReqNZones,        (* number of limits of the location *)
          ReqRoom,          (* nodes of a zone *)
          RateValue, Minutes,    (* rate=<n>r/s or r/m *)
          BurstValue, NoDelay,   (* burst=<n>, nodelay *)
          InServer,      (* are the limits written one level up? *)
          Ticks, MaxNow, MaxLag, MaxRequests

VARIABLE s

ReqZones == 1..ReqNZones

ReqNoKey == 0      (* an empty value of the key, or one that is too long *)

NoNode == [used |-> FALSE, last |-> 0, excess |-> 0, count |-> 0]

Start0 == 100000      (* the time of the first request *)

-----------------------------------------------------------------------------

(* The configuration.                                                      *)

ngx_http_limit_req_zone(value, minutes) == (value * 1000) \div (IF minutes THEN 60 ELSE 1)

ngx_http_limit_req(limits, zone, burst, nodelay) ==
    Append(limits, [zone |-> zone, burst |-> burst * 1000, nodelay |-> nodelay])

ngx_http_limit_req_merge_conf(prev, conf) == IF conf = <<>> THEN prev ELSE conf

(* One limit_req directive for each zone, in the server or the location.   *)
ReqLimits ==
       LET f[n \in 0..ReqNZones] == IF n = 0 THEN <<>> ELSE ngx_http_limit_req(f[n - 1], n, BurstValue, NoDelay)
       IN IF InServer THEN ngx_http_limit_req_merge_conf(f[ReqNZones], <<>>)
          ELSE ngx_http_limit_req_merge_conf(<<>>, f[ReqNZones])

Rate == ngx_http_limit_req_zone(RateValue, Minutes)

Idle == [pc |-> "idle", n |-> 0, rc |-> "declined", excess |-> 0, key |-> [z \in ReqZones |-> ReqNoKey],
         node |-> [z \in ReqZones |-> ReqNoKey], delay |-> 0, charged |-> {}]

ngx_http_limit_req_init_zone == [node |-> [k \in ReqKeys |-> NoNode], queue |-> <<>>]

ReqInit == s = [zone |-> [z \in ReqZones |-> ngx_http_limit_req_init_zone],
                w |-> [w \in Workers |-> Idle], clock |-> Start0, now |-> [w \in Workers |-> Start0],
                requests |-> 0, delayed |-> {},
                admitted |-> [z \in ReqZones |-> [k \in ReqKeys |-> <<>>]],
                due |-> [k \in ReqKeys |-> <<>>]]

-----------------------------------------------------------------------------

(* Under the mutex of a zone.                                              *)

Abs(n) == IF n < 0 THEN -n ELSE n

(* As if the request itself did not add to the bucket.                     *)
ExcessOfOthers(node, now) ==
    LET e == node.excess - ((Rate * Abs(now - node.last)) \div 1000)
    IN IF e < 0 THEN 0 ELSE e

(* What leaked out since the last request, and one request more.           *)
Excess(node, now) ==
    LET e == node.excess - ((Rate * Abs(now - node.last)) \div 1000) + 1000
    IN IF e < 0 THEN 0 ELSE e

Bump(zone, k) == [zone EXCEPT !.queue = <<k>> \o SelectSeq(@, LAMBDA x : x # k)]

Drop(zone, k) == [zone EXCEPT !.queue = SelectSeq(@, LAMBDA x : x # k), !.node[k] = NoNode]

Spent(node, now) ==
    LET ms == Abs(now - node.last)
    IN ms >= 60000 /\ node.excess - ((Rate * ms) \div 1000) <= 0

(* n = 1: one or two entries with nothing in them; n = 0: the oldest one   *)
(* by force first.                                                         *)
ngx_http_limit_req_expire(zone, now, n) ==
    LET one(z, m) ==
            LET last == z.queue[Len(z.queue)]
            IN IF z.queue = <<>> \/ z.node[last].count > 0 THEN z
               ELSE IF m # 0 /\ ~Spent(z.node[last], now) THEN z
               ELSE Drop(z, last)
        f[m \in n..3] == IF m = n THEN zone ELSE one(f[m - 1], m - 1)
    IN f[3]

Full(zone) == Cardinality({x \in ReqKeys : zone.node[x].used}) >= ReqRoom

MadeRoom(soft, now) == IF Full(soft) THEN ngx_http_limit_req_expire(soft, now, 0) ELSE soft

Added(zone, k, now, account) ==
    IF Full(zone) THEN [rc |-> "error", excess |-> 0, zone |-> zone]
    ELSE [rc |-> IF account THEN "ok" ELSE "again", excess |-> 0,
          zone |-> [Bump(zone, k) EXCEPT
                      !.node[k] = [used |-> TRUE, last |-> IF account THEN now ELSE 0, excess |-> 0,
                                   count |-> IF account THEN 0 ELSE 1]]]

(* Looking a key up: busy, passed and charged (the last limit), passed and *)
(* held to be charged later, or no room.                                   *)
ngx_http_limit_req_lookup(zone, limit, k, now, account) ==
    LET e == Excess(zone.node[k], now)
        bumped == Bump(zone, k)
    IN IF ~zone.node[k].used
       THEN Added(MadeRoom(ngx_http_limit_req_expire(zone, now, 1), now), k, now, account)
       ELSE IF e > limit.burst THEN [rc |-> "busy", excess |-> e, zone |-> bumped]
       ELSE IF account
       THEN [rc |-> "ok", excess |-> e, zone |-> [bumped EXCEPT !.node[k].excess = e, !.node[k].last = now]]
       ELSE [rc |-> "again", excess |-> e, zone |-> [bumped EXCEPT !.node[k].count = @ + 1]]

-----------------------------------------------------------------------------

(* A worker.                                                               *)

(* The ghosts: when a key was let pass, and when it is to go on; forgotten *)
(* when its node was removed by force.                                     *)
Admit(t, z, k, w) ==
    [t EXCEPT !.admitted[z][k] = Append(@, t.clock),
              !.due[k] = IF ReqNZones = 1 THEN Append(@, t.now[w] + t.w[w].delay) ELSE @]

Forget(t, u, z, w) ==
    [u EXCEPT !.admitted[z] = [k \in ReqKeys |->
        IF t.zone[z].node[k].used /\ ~u.zone[z].node[k].used /\ ~Spent(t.zone[z].node[k], t.now[w])
        THEN <<>> ELSE @[k]],
              !.due = [k \in ReqKeys |-> IF ~u.zone[z].node[k].used THEN <<>> ELSE @[k]]]

Delay(limit, excess) == IF excess = 0 \/ limit.nodelay THEN 0 ELSE (excess * 1000) \div Rate

(* Limits whose key is empty are skipped.                                  *)
NextLimit(c, n) == Min({m \in n..ReqNZones : c.key[m] # ReqNoKey} \cup {ReqNZones + 1})

Held(c) == {m \in ReqZones : m < c.n /\ c.node[m] # ReqNoKey}

ngx_http_limit_req_handler(w) == \E key \in [ReqZones -> ReqKeys \cup {ReqNoKey}] :
    /\ s.w[w].pc = "idle" /\ s.requests < MaxRequests /\ \E z \in ReqZones : key[z] # ReqNoKey
    /\ s' = [s EXCEPT !.requests = @ + 1,
                      !.w[w] = [Idle EXCEPT !.pc = "lookup", !.key = key, !.n = NextLimit([key |-> key], 1)]]

(* What the loop over the limits ended with.                               *)
Decide(c) ==
    IF c.rc \in {"busy", "error"} THEN [c EXCEPT !.pc = "undo"]
    ELSE [c EXCEPT !.pc = "account",
                   !.delay = IF c.rc = "again" THEN 0 ELSE Delay(ReqLimits[c.n], c.excess)]

(* The loop over the limits.                                               *)
Lookup(w) ==
    /\ s.w[w].pc = "lookup"
    /\ \E c \in {s.w[w]} : \E k \in {c.key[c.n]} :
       \E l \in {ngx_http_limit_req_lookup(s.zone[c.n], ReqLimits[c.n], k, s.now[w], c.n = ReqNZones)} :
       LET d == [c EXCEPT !.rc = l.rc, !.excess = l.excess,
                          !.n = IF l.rc = "again" THEN NextLimit(c, c.n + 1) ELSE @,
                          !.node[c.n] = IF l.rc = "again" THEN k ELSE ReqNoKey,
                          !.charged = IF l.rc = "ok" THEN {c.n} ELSE {}]
           t == [s EXCEPT !.zone[c.n] = l.zone,
                          !.w[w] = IF l.rc = "again" /\ d.n <= ReqNZones THEN d ELSE Decide(d)]
       IN s' = Forget(s, IF l.rc = "ok" THEN Admit(t, c.n, k, w) ELSE t, c.n, w)

(* Rejected: the nodes of the limits passed before are given back.         *)
Undo(w) ==
    /\ s.w[w].pc = "undo"
    /\ LET c == s.w[w]
           m == Max(Held(c))
       IN s' = IF Held(c) = {} THEN [s EXCEPT !.w[w] = Idle]
               ELSE [s EXCEPT !.zone[m].node[c.node[m]].count = @ - 1, !.w[w].node[m] = ReqNoKey]

(* Let pass: the nodes are charged, and the longest delay counts.          *)
ngx_http_limit_req_account(w) ==
    /\ s.w[w].pc = "account" /\ Held(s.w[w]) # {}
    /\ LET c == s.w[w]
           m == Max(Held(c))
           k == c.node[m]
           e == Excess(s.zone[m].node[k], s.now[w])
       IN s' = Admit([s EXCEPT !.zone[m].node[k].excess = e, !.zone[m].node[k].last = s.now[w],
                               !.zone[m].node[k].count = @ - 1,
                               !.w[w] = [@ EXCEPT !.node[m] = ReqNoKey, !.charged = @ \cup {m},
                                                  !.delay = Max({@, Delay(ReqLimits[m], e)})]], m, k, w)

(* The request goes on now or when its timer fires.                        *)
Passed(w) ==
    /\ s.w[w].pc = "account" /\ Held(s.w[w]) = {}
    /\ LET c == s.w[w]
           at == s.now[w] + c.delay
       IN s' = [s EXCEPT !.w[w] = Idle, !.delayed = IF c.delay > 0 THEN @ \cup {at} ELSE @]

ngx_http_limit_req_delay == \E at \in s.delayed :
    /\ at <= s.clock
    /\ s' = [s EXCEPT !.delayed = @ \ {at}]

(* Time passes; a worker learns of it when its event loop turns.           *)
Tick == \E d \in Ticks :
    /\ s.clock + d <= Start0 + MaxNow
    /\ \A w \in Workers : s.w[w].pc = "idle" \/ s.clock + d - s.now[w] <= MaxLag
    /\ s' = [s EXCEPT !.clock = @ + d,
                      !.now = [w \in Workers |-> IF s.clock + d - @[w] <= MaxLag THEN @[w] ELSE s.clock + d]]

ngx_time_update(w) ==
    /\ s.w[w].pc = "idle" /\ s.now[w] # s.clock /\ s' = [s EXCEPT !.now[w] = s.clock]

ReqNext == \/ \E w \in Workers :
                 \/ ngx_http_limit_req_handler(w) \/ Lookup(w) \/ Undo(w)
                 \/ ngx_http_limit_req_account(w) \/ Passed(w) \/ ngx_time_update(w)
           \/ ngx_http_limit_req_delay \/ Tick

ReqSpec == ReqInit /\ [][ReqNext]_s

-----------------------------------------------------------------------------

(* Properties.                                                             *)

(* The count of a node is the number of workers that are to charge it, so  *)
(* that no node is removed or reused under a worker.                       *)
HeldExact ==
    \A z \in ReqZones, k \in ReqKeys :
       LET held == Cardinality({w \in Workers : s.w[w].node[z] = k})
       IN s.zone[z].node[k].count = held /\ (held > 0 => s.zone[z].node[k].used)

(* A request that is rejected by one limit is not charged by any other.    *)
RejectedIsFree == \A w \in Workers : s.w[w].pc = "undo" => s.w[w].charged = {}

(* The leaky bucket: in no interval more requests of a key pass than the   *)
(* burst and what leaks out in that time, and one that found it empty.     *)
(* Limits that are charged after they were looked up let each worker pass  *)
(* one more.                                                               *)
LeakyBucket ==
    \A z \in ReqZones, k \in ReqKeys :
       LET a == s.admitted[z][k]
           more == IF z = ReqNZones THEN 0 ELSE Cardinality(Workers) - 1
       IN \A i, j \in DOMAIN a : i < j =>
             1000 * (j - i - more) <= BurstValue * 1000 + (Rate * (a[j] - a[i])) \div 1000 + 1

(* The excess of a node stays within the burst, or, for limits charged     *)
(* later, within one request of each other worker of it.                   *)
ExcessBounded ==
    \A z \in ReqZones, k \in ReqKeys :
       s.zone[z].node[k].excess <=
          BurstValue * 1000 + (IF z = ReqNZones THEN 0 ELSE 1000 * (Cardinality(Workers) - 1))

(* Requests that are delayed go on one by one, as far apart as the rate    *)
(* says.                                                                   *)
Smooth ==
    ~NoDelay => \A k \in ReqKeys : \A i, j \in DOMAIN s.due[k] :
        i < j => Abs(s.due[k][j] - s.due[k][i]) >= 1000000 \div Rate - 1

-----------------------------------------------------------------------------

(* limit_conn, for requests (http/modules/ngx_http_limit_conn_module.c)    *)
(* and for sessions (stream/ngx_stream_limit_conn_module.c).               *)
(*                                                                         *)
(* A request passes the limits of its location one by one; each counts it  *)
(* in a node of its zone until the pool of the request is destroyed.  The  *)
(* zones are shared, every section under their mutex is one step.          *)

CONSTANTS Requests, ConnKeys,
          ConnNZones, ConnRoom,  (* zones, and nodes of each *)
          Conn,          (* the limit of the first zone *)
          Stream,        (* stream sessions, which have one handler call *)
          MaxStarts

ConnZones == 1..ConnNZones

ConnNoKey == 0

(* limit_conn directives: a zone once per level; none inherits the level   *)
(* above.                                                                  *)
ngx_http_limit_conn(limits, zone, n) ==
    IF \E i \in DOMAIN limits : limits[i].zone = zone THEN limits
    ELSE Append(limits, [zone |-> zone, conn |-> n])

ngx_stream_limit_conn(limits, zone, n) == ngx_http_limit_conn(limits, zone, n)

ngx_http_limit_conn_merge_conf(prev, conf) == IF conf = <<>> THEN prev ELSE conf

ngx_stream_limit_conn_merge_conf(prev, conf) == ngx_http_limit_conn_merge_conf(prev, conf)

(* Two locations: one with the limits of the server, one of its own which  *)
(* allows less in the first zone.                                          *)
Server == LET f[n \in 0..ConnNZones] ==
                  IF n = 0 THEN <<>>
                  ELSE IF Stream THEN ngx_stream_limit_conn(f[n - 1], n, Conn + n - 1)
                  ELSE ngx_http_limit_conn(f[n - 1], n, Conn + n - 1)
          IN f[ConnNZones]

Own == IF Stream THEN ngx_stream_limit_conn(<<>>, 1, Conn - 1) ELSE ngx_http_limit_conn(<<>>, 1, Conn - 1)

ConnLimits(own) ==
        IF Stream THEN ngx_stream_limit_conn_merge_conf(Server, IF own THEN Own ELSE <<>>)
        ELSE ngx_http_limit_conn_merge_conf(Server, IF own THEN Own ELSE <<>>)

Ended == [pc |-> "ended", i |-> 0, own |-> FALSE, set |-> FALSE, key |-> [z \in ConnZones |-> ConnNoKey],
          cleanup |-> <<>>]

ConnInit == s = [conn |-> [z \in ConnZones |-> [k \in ConnKeys |-> 0]], req |-> [r \in Requests |-> Ended],
                 starts |-> 0]

-----------------------------------------------------------------------------

Nodes(t, z) == {k \in ConnKeys : t.conn[z][k] > 0}

ngx_http_limit_conn_lookup(t, z, k) == k \in Nodes(t, z)

ngx_stream_limit_conn_lookup(t, z, k) == ngx_http_limit_conn_lookup(t, z, k)

(* A node whose count gets to zero is removed.                             *)
ngx_http_limit_conn_cleanup(t, c) == [t EXCEPT !.conn[c.zone][c.key] = @ - 1]

ngx_stream_limit_conn_cleanup(t, c) == ngx_http_limit_conn_cleanup(t, c)

(* A rejected request leaves the limits it had passed: the cleanups at the *)
(* head of the list run one by one.                                        *)
ngx_http_limit_conn_cleanup_all(t, r) == [t EXCEPT !.req[r].pc = "cleanup"]

ngx_stream_limit_conn_cleanup_all(t, r) == ngx_http_limit_conn_cleanup_all(t, r)

CleanupOne(r) ==
    /\ s.req[r].pc = "cleanup"
    /\ LET c == s.req[r].cleanup
       IN s' = IF c = <<>> THEN [s EXCEPT !.req[r].pc = "rejected"]
               ELSE [IF Stream THEN ngx_stream_limit_conn_cleanup(s, Head(c))
                     ELSE ngx_http_limit_conn_cleanup(s, Head(c)) EXCEPT !.req[r].cleanup = Tail(c)]

Start(r) == \E key \in [ConnZones -> ConnKeys \cup {ConnNoKey}], own \in BOOLEAN :
    /\ s.req[r].pc = "ended" /\ s.starts < MaxStarts
    /\ s' = [s EXCEPT !.starts = @ + 1,
                      !.req[r] = [Ended EXCEPT !.pc = "limits", !.i = 1, !.key = key, !.own = own]]

(* One limit of the loop of the handler.                                   *)
ngx_http_limit_conn_handler(r) ==
    /\ s.req[r].pc = "limits"
    /\ LET c == s.req[r]
           limits == ConnLimits(c.own)
           z == limits[c.i].zone
           k == c.key[z]
           t == [s EXCEPT !.req[r].set = TRUE]
           found == IF Stream THEN ngx_stream_limit_conn_lookup(s, z, k)
                    ELSE ngx_http_limit_conn_lookup(s, z, k)
           full == ~found /\ Cardinality(Nodes(s, z)) >= ConnRoom
       IN s' = IF c.i > Len(limits) THEN [s EXCEPT !.req[r].pc = "runs"]
               ELSE IF k = ConnNoKey THEN [s EXCEPT !.req[r].i = @ + 1]
               ELSE IF full \/ (found /\ s.conn[z][k] >= limits[c.i].conn)
               THEN IF Stream THEN ngx_stream_limit_conn_cleanup_all(t, r)
                    ELSE ngx_http_limit_conn_cleanup_all(t, r)
               ELSE [t EXCEPT !.conn[z][k] = @ + 1,
                              !.req[r] = [@ EXCEPT !.i = @ + 1,
                                                   !.cleanup = <<[zone |-> z, key |-> k]>> \o @]]

ngx_stream_limit_conn_handler(r) == ngx_http_limit_conn_handler(r)

(* An internal redirect, or the error page of a rejected request, passes   *)
(* the phases again: a request that met a limit is not counted twice.      *)
Redirect(r) == \E own \in BOOLEAN :
    /\ ~Stream /\ s.req[r].pc \in {"runs", "rejected"} /\ s.starts < MaxStarts
    /\ s' = [s EXCEPT !.starts = @ + 1,
                      !.req[r] = IF @.set THEN [@ EXCEPT !.pc = "runs"]
                                 ELSE [@ EXCEPT !.pc = "limits", !.i = 1, !.own = own]]

(* The pool is destroyed: every cleanup that is left runs.                 *)
End(r) ==
    /\ s.req[r].pc \in {"runs", "rejected", "ending"}
    /\ LET c == s.req[r].cleanup
       IN s' = IF c = <<>> THEN [s EXCEPT !.req[r] = Ended]
               ELSE [IF Stream THEN ngx_stream_limit_conn_cleanup(s, Head(c))
                     ELSE ngx_http_limit_conn_cleanup(s, Head(c))
                     EXCEPT !.req[r].cleanup = Tail(c), !.req[r].pc = "ending"]

ConnNext == \E r \in Requests :
        \/ Start(r) \/ (~Stream /\ ngx_http_limit_conn_handler(r))
        \/ (Stream /\ ngx_stream_limit_conn_handler(r)) \/ CleanupOne(r) \/ Redirect(r) \/ End(r)

ConnSpec == ConnInit /\ [][ConnNext]_s

-----------------------------------------------------------------------------

(* Properties.                                                             *)

Counted(z, k) ==
    SumFunctionOnSet([r \in Requests |->
        Cardinality({i \in DOMAIN s.req[r].cleanup : s.req[r].cleanup[i] = [zone |-> z, key |-> k]})],
        Requests)

(* A count is the number of requests that will take themselves from it,    *)
(* however they were rejected, redirected or ended.                        *)
ConnExact == \A z \in ConnZones, k \in ConnKeys : s.conn[z][k] = Counted(z, k)

(* No zone ever counts more than its limit allows, and a request never     *)
(* counts twice in a zone.                                                 *)
WithinLimit ==
    \A z \in ConnZones, k \in ConnKeys :
       /\ s.conn[z][k] <= Conn + z - 1
       /\ \A r \in Requests :
             Cardinality({i \in DOMAIN s.req[r].cleanup : s.req[r].cleanup[i].zone = z}) <= 1

(* A rejected request is counted nowhere.                                  *)
RejectedHoldsNothing ==
    \A r \in Requests : s.req[r].pc = "rejected" => s.req[r].cleanup = <<>>

=============================================================================
