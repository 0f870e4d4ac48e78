------------------------------ MODULE Resolver ------------------------------
(***************************************************************************)
(* The resolver: addresses and aliases, and the services made of them.     *)
(***************************************************************************)
EXTENDS Integers, Sequences, FiniteSets, SequencesExt, TLC

(***************************************************************************)
(* The DNS resolver's name cache (core/ngx_resolver.c): requests for a     *)
(* name wait on one node of the name tree, the node is queried over A and  *)
(* AAAA, the answers arrive in any order (or never), a CNAME moves the     *)
(* whole list of waiters to another node, and the node moves between the   *)
(* resend queue and the expire queue.  Names stand for themselves, an      *)
(* answer for the branch of ngx_resolver_process_a it takes.  An answer    *)
(* whose ident is not the query's is dropped without effect and is not a   *)
(* step.  Times are seconds; the handler of a request calls                *)
(* ngx_resolve_name_done, as all the handlers of the server do.            *)
(***************************************************************************)

CONSTANTS Names, Ctxs, NoName,
          IPv6,             \* r->ipv6
          Valid, Expire,    \* r->valid (or the TTL), r->expire
          Resend, Timeout,  \* r->resend_timeout, ctx->timeout
          MaxRecursion,     \* NGX_RESOLVER_MAX_RECURSION
          MaxTime           \* bound: the last second modelled

VARIABLES now, s

nameVars == <<now, s>>

Off == 0

Types == IF IPv6 THEN {"a", "a6"} ELSE {"a"}

Other(t) == IF t = "a" THEN "a6" ELSE "a"

Answers == {"addr", "none", "other", "err", "trunc"} \cup Names

NoNode == [in |-> FALSE, query |-> FALSE, valid |-> 0, expire |-> 0,
           n |-> [t \in {"a", "a6"} |-> "none"],
           tcp |-> [t \in {"a", "a6"} |-> FALSE],
           code |-> FALSE, cname |-> NoName, waiting |-> <<>>]

NewCtx == [st |-> "idle", node |-> NoName, timer |-> Off, rec |-> 0, calls |-> 0]

NameInit ==
        /\ now = 1
        /\ s = [node |-> [x \in Names |-> NoNode], resend |-> <<>>, expire |-> <<>>,
                armed |-> Off, ctx |-> [c \in Ctxs |-> NewCtx],
                freed |-> FALSE, rc |-> "ok"]

-----------------------------------------------------------------------------

(* Queues of nodes: the head is the newest, the last the first to come due *)

Unqueue(x, m) == [m EXCEPT !.resend = Remove(@, x), !.expire = Remove(@, x)]

ToExpire(x, m) ==
    [Unqueue(x, m) EXCEPT !.expire = <<x>> \o @, !.node[x].expire = now + Expire]

ToResend(x, m) ==
    [Unqueue(x, m) EXCEPT !.resend = <<x>> \o @, !.node[x].expire = now + Resend]

FreeNode(x, m) == [m EXCEPT !.node[x] = NoNode]

(* At most two nodes a call, from the old end of the expire queue. *)
ExpireOne(m) ==
    IF m.expire # <<>> /\ now > m.node[Last(m.expire)].expire
    THEN FreeNode(Last(m.expire), [m EXCEPT !.expire = Front(@)])
    ELSE m

ngx_resolver_expire(m) == ExpireOne(ExpireOne(m))

ngx_resolve_name_done_linked(c, m) ==
    LET expired == ngx_resolver_expire(m)
    IN [expired EXCEPT !.ctx[c] = [NewCtx EXCEPT !.st = "done", !.calls = m.ctx[c].calls],
                       !.armed = IF expired.resend = <<>> THEN Off ELSE @]

(* The request is over: out of its node's list if it still waits there. *)
ngx_resolve_name_done(c, m) ==
    LET x == m.ctx[c].node
        unlinked == IF m.ctx[c].st = "again" /\ x # NoName
                    THEN [m EXCEPT !.node[x].waiting = Remove(@, c)]
                    ELSE m
        expired == ngx_resolver_expire(unlinked)
    IN [expired EXCEPT !.ctx[c] = [NewCtx EXCEPT !.st = "done", !.calls = m.ctx[c].calls],
                       !.armed = IF expired.resend = <<>> THEN Off ELSE @]

(* ctx->handler for one request that is no longer on a list. *)
Handler(m, c) ==
    ngx_resolve_name_done(c, [m EXCEPT !.ctx[c].calls = @ + 1, !.ctx[c].st = "ok"])

Handlers(list, m) == FoldLeft(Handler, m, list)

-----------------------------------------------------------------------------

SetTimeout(c, m) ==
    [m EXCEPT !.ctx[c].timer = IF @ = Off THEN now + Timeout ELSE @]

Wait(x, list, m) ==
    LET all == list \o m.node[x].waiting
    IN [SetTimeout(Head(list), m)
          EXCEPT !.node[x].waiting = all,
                 !.ctx = [c \in Ctxs |-> IF c \in ToSet(all)
                                         THEN [@[c] EXCEPT !.st = "again", !.node = x]
                                         ELSE @[c]],
                 !.rc = "again"]

(* A new query for the node: A, and AAAA with it; a failed send gives the  *)
(* node up and leaves the list to the caller.                              *)
Query(x, list, sent, m) ==
    LET clean == Unqueue(x, m)
        fresh == [NoNode EXCEPT !.in = TRUE, !.query = TRUE,
                                !.n = [t \in {"a", "a6"} |->
                                         IF t \in Types THEN "pending" ELSE "none"]]
        armed == [clean EXCEPT !.armed = IF clean.resend = <<>> THEN now + Resend ELSE @]
    IN IF sent THEN Wait(x, list, ToResend(x, [armed EXCEPT !.node[x] = fresh]))
       ELSE [FreeNode(x, clean) EXCEPT !.rc = "error"]

HasAddrs(rn) == \E t \in {"a", "a6"} : rn.n[t] = "addr"

(* "ctx can be a list after NGX_RESOLVE_CNAME". *)
RECURSIVE ngx_resolve_name_locked(_, _, _, _)

ngx_resolve_name_locked(list, x, sent, m) ==
    LET rn == m.node[x]
        hit == ToExpire(x, m)
        deep == [hit EXCEPT !.ctx[Head(list)].rec = @ + 1]
        done(h) == [Handlers(list, h) EXCEPT !.rc = "ok"]
    IN CASE rn.in /\ rn.valid >= now /\ HasAddrs(rn) -> done(hit)
         [] rn.in /\ rn.valid >= now /\ ~HasAddrs(rn)
                  /\ m.ctx[Head(list)].rec < MaxRecursion
            -> ngx_resolve_name_locked(list, rn.cname, sent, deep)
         [] rn.in /\ rn.valid >= now /\ ~HasAddrs(rn)
                  /\ m.ctx[Head(list)].rec >= MaxRecursion -> done(deep)
         [] rn.in /\ rn.valid < now /\ rn.waiting # <<>> -> Wait(x, list, m)
         [] ~rn.in \/ (rn.valid < now /\ rn.waiting = <<>>) -> Query(x, list, sent, m)

-----------------------------------------------------------------------------

(* ngx_resolver_process_a *)

(* An error: the node leaves the tree, then every waiter hears of it. *)
Failed(x, m) ==
    LET list == m.node[x].waiting
    IN Handlers(list, FreeNode(x, Unqueue(x, m)))

(* Both queries are answered and there are addresses: the node is cached,  *)
(* the waiters are called, and only then is the query of the node freed.   *)
Export(x, m) ==
    LET list == m.node[x].waiting
        cached == [ToExpire(x, m) EXCEPT !.node[x].valid = now + Valid,
                                         !.node[x].waiting = <<>>]
        called == Handlers(list, cached)
    IN IF called.node[x].in
       THEN [called EXCEPT !.node[x].query = FALSE]
       ELSE [called EXCEPT !.freed = TRUE]

Cname(x, y, sent, m) ==
    LET list == m.node[x].waiting
        first == Head(list)
        cached == [ToExpire(x, m) EXCEPT !.node[x].valid = now + Valid,
                                         !.node[x].cname = y, !.node[x].query = FALSE,
                                         !.node[x].waiting = <<>>]
        deep == [cached EXCEPT !.ctx[first].rec = @ + 1]
        orphans == [deep EXCEPT !.ctx = [c \in Ctxs |->
                      IF c \in ToSet(list) THEN [@[c] EXCEPT !.node = NoName] ELSE @[c]]]
    IN CASE list = <<>> -> cached
         [] list # <<>> /\ m.ctx[first].rec >= MaxRecursion -> Handlers(list, deep)
         [] list # <<>> /\ m.ctx[first].rec < MaxRecursion
            -> ngx_resolve_name_locked(list, y, sent, orphans)

(* An answer with the TC bit: once more over TCP, if anybody still waits. *)
Truncated(x, t, m) ==
    IF m.node[x].waiting = <<>> THEN FreeNode(x, Unqueue(x, m))
    ELSE ToResend(x, [m EXCEPT !.node[x].tcp[t] = TRUE])

(* naddrs or naddrs6 of the node: the addresses of the answer, or none. *)
Took(x, t, m, v) == [m EXCEPT !.node[x].n[t] = v]

ngx_resolver_process_a(x, t, ans, sent, m) ==
    LET rn == m.node[x]
        code == rn.code \/ ans = "err"
        other == rn.n[Other(t)]
    IN CASE ans = "trunc" -> Truncated(x, t, m)
         [] ans # "trunc" /\ code /\ other = "pending"
            -> [Took(x, t, m, "none") EXCEPT !.node[x].code = TRUE]
         [] ans # "trunc" /\ code /\ other # "pending" -> Failed(x, Took(x, t, m, "none"))
         [] ans = "addr" /\ ~code /\ other = "pending" -> Took(x, t, m, "addr")
         [] ans = "addr" /\ ~code /\ other # "pending" -> Export(x, Took(x, t, m, "addr"))
         [] ans = "none" /\ ~code /\ other = "pending" -> Took(x, t, m, "none")
         [] ans = "none" /\ ~code /\ other = "addr" -> Export(x, Took(x, t, m, "none"))
         [] ans = "none" /\ ~code /\ other = "none" -> Failed(x, Took(x, t, m, "none"))
         [] ans \in {"other"} \cup Names /\ ~code /\ other = "addr" -> Export(x, Took(x, t, m, "none"))
         [] ans \in Names /\ ~code /\ other = "pending" -> Took(x, t, m, "none")
         [] ans \in Names /\ ~code /\ other = "none" -> Cname(x, ans, sent, Took(x, t, m, "none"))
         [] ans = "other" /\ ~code /\ other # "addr" -> Took(x, t, m, "none")

-----------------------------------------------------------------------------

Quiet(m) == [m EXCEPT !.rc = "ok"]

(* ngx_resolve_name on a fresh request; on an error the request is freed   *)
(* without its handler being called.                                       *)
ngx_resolve_name(c, x) ==
    /\ s.ctx[c].st = "idle"
    /\ \E sent \in BOOLEAN :
         \E m \in {ngx_resolve_name_locked(<<c>>, x, sent, s)} :
            s' = Quiet(IF m.rc = "error" THEN [m EXCEPT !.ctx[c] = NewCtx] ELSE m)
    /\ UNCHANGED now

(* The owner of the request goes away first. *)
NameCancel(c) ==
        /\ s.ctx[c].st = "again"
        /\ s' = ngx_resolve_name_done(c, s)
        /\ UNCHANGED now

ngx_resolver_timeout_handler(c) ==
    /\ s.ctx[c].timer # Off /\ s.ctx[c].timer <= now
    /\ s' = ngx_resolve_name_done(c, [s EXCEPT !.ctx[c].calls = @ + 1])
    /\ UNCHANGED now

Answer(x, t, ans) ==
    /\ s.node[x].in /\ s.node[x].query /\ t \in Types
    /\ s.node[x].n[t] = "pending"
    /\ ~(ans = "trunc" /\ s.node[x].tcp[t])
    /\ \E sent \in BOOLEAN : s' = Quiet(ngx_resolver_process_a(x, t, ans, sent, s))
    /\ UNCHANGED now

(* The resend timer: every due node is sent again if anybody waits for it, *)
(* and freed if nobody does; the timer is set for the next one.            *)
RECURSIVE ngx_resolver_resend(_)

ngx_resolver_resend(m) ==
    IF m.resend = <<>> THEN [m EXCEPT !.armed = Off]
    ELSE LET x == Last(m.resend)
         IN IF now < m.node[x].expire THEN [m EXCEPT !.armed = m.node[x].expire]
            ELSE ngx_resolver_resend(IF m.node[x].waiting # <<>> THEN ToResend(x, m)
                                     ELSE FreeNode(x, Unqueue(x, m)))

ngx_resolver_resend_handler ==
    /\ s.armed # Off /\ s.armed <= now
    /\ s' = ngx_resolver_resend(s)
    /\ UNCHANGED now

(* Timers run before the clock moves on: the event loop never sleeps past  *)
(* the nearest one.                                                        *)
Tick ==
    /\ now < MaxTime
    /\ s.armed = Off \/ s.armed > now
    /\ \A c \in Ctxs : s.ctx[c].timer = Off \/ s.ctx[c].timer > now
    /\ now' = now + 1
    /\ UNCHANGED s

NameNext ==
        \/ \E c \in Ctxs : \/ \E x \in Names : ngx_resolve_name(c, x)
                           \/ NameCancel(c)
                           \/ ngx_resolver_timeout_handler(c)
        \/ \E x \in Names, t \in {"a", "a6"}, ans \in Answers : Answer(x, t, ans)
        \/ ngx_resolver_resend_handler
        \/ Tick

NameSpec == NameInit /\ [][NameNext]_nameVars

-----------------------------------------------------------------------------

Waiters(x) == ToSet(s.node[x].waiting)

(* A node of the tree is in exactly one of the two queues, once; a node    *)
(* somebody waits for is in the resend queue; and each queue is in the     *)
(* order its nodes come due, which is what lets ngx_resolver_expire and    *)
(* ngx_resolver_resend look at the last one only.                          *)
QueuesAreExact ==
    /\ \A x \in Names :
         /\ s.node[x].in <=> x \in ToSet(s.resend) \cup ToSet(s.expire)
         /\ s.node[x].waiting # <<>> => x \in ToSet(s.resend)
    /\ Len(s.resend) + Len(s.expire)
         = Cardinality(ToSet(s.resend) \cup ToSet(s.expire))
    /\ \A q \in {s.resend, s.expire} : \A i, j \in DOMAIN q :
         i < j => s.node[q[i]].expire >= s.node[q[j]].expire

(* A request that waits is on the list of the node it points to and of no  *)
(* other ("could not cancel ... resolving" is never logged), or on none    *)
(* and pointing to none after a CNAME whose query could not be sent; a     *)
(* finished one is on no list, whoever moved the list meanwhile.           *)
WaitersAreExact ==
    \A c \in Ctxs, x \in Names :
        c \in Waiters(x) <=> s.ctx[c].st = "again" /\ s.ctx[c].node = x

(* No waiting request is forgotten: each has its timer running, also those *)
(* that joined or followed a list through a CNAME, and the timer calls the *)
(* handler if no answer does.                                              *)
EveryWaiterIsTimed ==
    \A c \in Ctxs : s.ctx[c].st = "again" => s.ctx[c].timer >= now

(* Every handler is called at most once, even if an answer, the timeout,   *)
(* an expiry and a cancel meet in the same second.                         *)
HandlerOnce == \A c \in Ctxs : s.ctx[c].calls <= 1

(* As long as a query is outstanding the resend timer is set, and not past *)
(* the moment the first of them is due: a lost packet is sent again.       *)
ResendIsArmed ==
    s.resend # <<>> => s.armed # Off /\ s.armed <= s.node[Last(s.resend)].expire

(* The handlers of an answer expire nodes, but never the one the answer is *)
(* still working on.                                                       *)
NodeOutlivesHandlers == ~s.freed

-----------------------------------------------------------------------------

(***************************************************************************)
(* An SRV lookup of the resolver (core/ngx_resolver.c).  The records of    *)
(* the answer are sorted by priority, every target name is resolved by a   *)
(* request of its own, some at once from the cache and some later, and     *)
(* when the last of them is back ngx_resolver_report_srv lays the          *)
(* addresses out by priority and weight and calls the handler.  The owner  *)
(* may go away at any time, a target may time out, and starting one may    *)
(* fail after others were started.                                         *)
(***************************************************************************)

CONSTANTS MaxSrvs,     \* bound: SRV records of an answer
          Priorities, Weights, MaxAddrs

VARIABLES srvs,    \* ctx->srvs
          st,      \* the request: "answer", "waiting", "done"
          count,   \* ctx->count
          state,   \* ctx->state
          addrs    \* the addresses reported: <<record, address>>

NoMem == -1   \* a child came back and its addresses could not be kept

Later == -2   \* a child was started and waits for its answer

Fail == -3    \* a child could not be started

Records == UNION {[1..n -> [pr : Priorities, w : Weights]] : n \in 1..MaxSrvs}

(* A child's request: "none" none running, "wait" it is running. *)
Child(rec) == [pr |-> rec.pr, w |-> rec.w, naddrs |-> 0, ok |-> TRUE, ctx |-> "none"]

SrvInit ==
       /\ srvs = <<>> /\ st = "answer" /\ count = 0
       /\ state = "AGAIN" /\ addrs = <<>>

-----------------------------------------------------------------------------

(* The answer's records: weight 0 counts as 1, sorted by priority. *)
ngx_resolver_cmp_srvs(a, b) == a.pr < b.pr

Stored(recs) ==
    SortSeq([i \in DOMAIN recs |-> [recs[i] EXCEPT !.w = IF @ = 0 THEN 1 ELSE @]],
            ngx_resolver_cmp_srvs)

Share(v, k) == v[k].naddrs * v[k].w

RECURSIVE SumShares(_, _, _)

SumShares(v, i, j) == IF i >= j THEN 0 ELSE Share(v, i) + SumShares(v, i + 1, j)

(* First record after i of another priority. *)
GroupEnd(v, i) ==
    CHOOSE j \in (i + 1)..(Len(v) + 1) :
        /\ \A k \in i..(j - 1) : v[k].pr = v[i].pr
        /\ j = Len(v) + 1 \/ v[j].pr # v[i].pr

(* The record the random number w falls on. *)
Picked(v, i, w) ==
    CHOOSE k \in i..(GroupEnd(v, i) - 1) :
        SumShares(v, i, k) <= w /\ w < SumShares(v, i, k + 1)

AddrsOf(v, k) == [m \in 1..v[k].naddrs |-> <<k, m>>]

(* One turn round the group, starting at the picked record. *)
RECURSIVE Turn(_, _, _, _, _)

Turn(v, i, j, k, left) ==
    IF left = 0 THEN <<>>
    ELSE AddrsOf(v, k) \o Turn(v, i, j, IF k + 1 = j THEN i ELSE k + 1, left - 1)

RECURSIVE LayOut(_, _, _)

LayOut(v, i, rnd) ==
    IF i > Len(v) THEN <<>>
    ELSE LET j == GroupEnd(v, i)
             nw == SumShares(v, i, j)
             group == IF nw = 0 THEN <<>>
                      ELSE Turn(v, i, j, Picked(v, i, rnd % nw), j - i)
         IN group \o LayOut(v, j, rnd)

NAddrs(v) == SumShares([k \in DOMAIN v |-> [v[k] EXCEPT !.w = 1]], 1, Len(v) + 1)

(* [state, addrs] handed to the handler. *)
ngx_resolver_report_srv(v, rnd) ==
    CASE \E k \in DOMAIN v : ~v[k].ok -> [state |-> "ERROR", addrs |-> <<>>]
      [] (\A k \in DOMAIN v : v[k].ok) /\ NAddrs(v) = 0
         -> [state |-> "NXDOMAIN", addrs |-> <<>>]
      [] (\A k \in DOMAIN v : v[k].ok) /\ NAddrs(v) > 0
         -> [state |-> "OK", addrs |-> LayOut(v, 1, rnd)]

-----------------------------------------------------------------------------

(* ctx->handler, which calls ngx_resolve_name_done: the children that      *)
(* still run are cancelled, and the request is freed.                      *)
Done(v) ==
    /\ srvs' = [k \in DOMAIN v |-> [v[k] EXCEPT !.ctx = "none"]]
    /\ st' = "done"

Report(v) ==
    /\ \E rnd \in 0..5 : \E r \in {ngx_resolver_report_srv(v, rnd)} :
         state' = r.state /\ addrs' = r.addrs
    /\ Done(v)

(* The result of a child that is back: n addresses, or not even memory to  *)
(* keep them.                                                              *)
Came(child, res) ==
    [child EXCEPT !.ctx = "none",
                  !.ok = res # NoMem,
                  !.naddrs = IF res = NoMem THEN 0 ELSE res]

Results == (0..MaxAddrs) \cup {NoMem}

(* ngx_resolver_srv_names_handler *)
ChildBack(k, res) ==
    /\ st = "waiting" /\ srvs[k].ctx = "wait"
    /\ \E v \in {[srvs EXCEPT ![k] = Came(@, res)]} :
         /\ count' = count - 1
         /\ IF count - 1 = 0 THEN Report(v)
            ELSE srvs' = v /\ UNCHANGED <<st, state, addrs>>

(* ngx_resolver_resolve_srv_names: what starting child k comes to: a       *)
(* result at once, Later, or Fail (no memory, or the query could not be    *)
(* sent).  The first failure ends the loop and the request with it.        *)
Starts == Results \cup {Later, Fail}

ngx_resolver_resolve_srv_names(recs, how) ==
    LET v == [k \in DOMAIN recs |-> Child(recs[k])]
        fail == {k \in DOMAIN recs : how[k] = Fail}
        run == [k \in DOMAIN v |->
                  CASE fail # {} /\ k >= CHOOSE f \in fail : \A g \in fail : f <= g -> v[k]
                    [] ~(fail # {} /\ k >= CHOOSE f \in fail : \A g \in fail : f <= g)
                       -> IF how[k] = Later THEN [v[k] EXCEPT !.ctx = "wait"]
                          ELSE Came(v[k], how[k])]
        left == Len(recs) - Cardinality({k \in DOMAIN recs : how[k] \in Results})
    IN \/ /\ fail # {}
          /\ state' = "ERROR" /\ addrs' = <<>>
          /\ count' = 0
          /\ Done(run)
       \/ /\ fail = {} /\ left = 0
          /\ count' = 0
          /\ Report(run)
       \/ /\ fail = {} /\ left > 0
          /\ srvs' = run /\ st' = "waiting" /\ count' = left
          /\ UNCHANGED <<state, addrs>>

SrvAnswer ==
    /\ st = "answer"
    /\ \E recs \in Records : \E how \in [DOMAIN recs -> Starts] :
         ngx_resolver_resolve_srv_names(Stored(recs), how)

(* ngx_resolve_name_done by the owner, before the answer is complete. *)
SrvCancel ==
       /\ st = "waiting"
       /\ Done(srvs)
       /\ UNCHANGED <<count, state, addrs>>

SrvNext ==
       \/ SrvAnswer
       \/ \E k \in 1..MaxSrvs, res \in Results : k \in DOMAIN srvs /\ ChildBack(k, res)
       \/ SrvCancel

-----------------------------------------------------------------------------

(* ctx->count is the number of children still out, so that the last one    *)
(* back, and only that one, reports; nothing is left running for a request *)
(* that is over.                                                           *)
CountIsExact ==
    /\ st = "waiting" => count = Cardinality({k \in DOMAIN srvs : srvs[k].ctx = "wait"})
                         /\ count > 0
    /\ st = "done" => \A k \in DOMAIN srvs : srvs[k].ctx = "none"

(* The handler gets every address of every record exactly once, and all    *)
(* the addresses of a better priority before those of a worse one,         *)
(* whatever the random number was.                                         *)
EveryAddressOnce ==
    state = "OK" =>
        /\ ToSet(addrs) = UNION {{<<k, m>> : m \in 1..srvs[k].naddrs} : k \in DOMAIN srvs}
        /\ Len(addrs) = NAddrs(srvs)
        /\ \A i, j \in DOMAIN addrs :
             i < j => srvs[addrs[i][1]].pr <= srvs[addrs[j][1]].pr

=============================================================================
