------------------------------ MODULE FileCache ------------------------------
(* The file cache of the HTTP upstream module: nodes in shared memory that *)
(* stand for files on disk, used by requests in several workers, by the    *)
(* cache manager that deletes and the cache loader that fills the zone     *)
(* after a start (http/ngx_http_file_cache.c, and the cache part of        *)
(* http/ngx_http_upstream.c).                                              *)
(*                                                                         *)
(* Each section under the zone's mutex is one step, and so is each file    *)
(* operation between two of them.  A file name is <<key, variant>>, with   *)
(* variant 0 for the name made from the key alone.  Time is a clock of few *)
(* ticks, and every interval of the configuration is one tick.             *)
EXTENDS Integers, Sequences, SequencesExt, FiniteSets, FiniteSetsExt

CONSTANTS Requests, Keys,
          Heads,         (* what requests send in the header responses vary by *)
          MaxNodes,      (* the zone's room *)
          MaxUniq,       (* number of files ever written *)
          MaxStarts,     (* number of requests *)
          MaxClock, MinUses, MaxSize,
          Inactive,      (* inactive= of the cache path *)
          Lock,          (* proxy_cache_lock *)
          UseStale,      (* proxy_cache_use_stale updating *)
          Background,    (* proxy_cache_background_update *)
          Bypass,        (* may proxy_cache_bypass be true? *)
          Errors,        (* are errors of the server cached? *)
          Cold,          (* are there files from before? *)
          Crashes        (* may a worker exit abnormally? *)

VARIABLE s

Names == Keys \X ({0} \cup Heads)
Ids == 1..MaxNodes
NoFile == [uniq |-> 0, vary |-> FALSE, head |-> 0, valid |-> 0]
NoNode == [used |-> FALSE, key |-> <<0, 0>>, count |-> 0, uses |-> 0, error |-> FALSE, exists |-> FALSE,
           updating |-> FALSE, deleting |-> FALSE, uniq |-> 0, valid |-> 0, fs_size |-> 0,
           lock_time |-> 0, expire |-> 0]
NoCache == [pc |-> "idle", k |-> 0, h |-> 0, key |-> <<0, 0>>, node |-> 0, updating |-> FALSE,
            updated |-> FALSE, exists |-> FALSE, lock_time |-> 0, wait_time |-> 0, waits |-> Lock,
            secondary |-> FALSE, background |-> FALSE, error |-> FALSE, uniq |-> 0, rv |-> "",
            cacheable |-> TRUE, bypass |-> FALSE, status |-> "", file |-> NoFile, parent |-> {},
            victim |-> 0, back |-> ""]
Worker == [pc |-> "idle", victim |-> 0, name |-> <<0, 0>>]

Init == \E disk \in IF Cold THEN SUBSET Keys ELSE {{}} :
    s = [node |-> [i \in Ids |-> NoNode], queue |-> <<>>, size |-> 0, count |-> 0,
         watermark |-> MaxNodes + 1, cold |-> Cold, clock |-> 0, starts |-> 0, uniq |-> Cardinality(disk),
         file |-> [n \in Names |-> IF n[2] = 0 /\ n[1] \in disk
                                   THEN [uniq |-> 1, vary |-> FALSE, head |-> 0, valid |-> 1] ELSE NoFile],
         req |-> [r \in Requests |-> NoCache], manager |-> Worker,
         loader |-> [Worker EXCEPT !.pc = IF Cold THEN "walk" ELSE "end"],
         seen |-> {}, alert |-> FALSE, crashed |-> FALSE, aged |-> FALSE]

-----------------------------------------------------------------------------
(* Nodes, under the mutex.                                                 *)

Without(q, i) == SelectSeq(q, LAMBDA x : x # i)
ToHead(q, i) == <<i>> \o Without(q, i)

ngx_http_file_cache_lookup(t, key) == {i \in Ids : t.node[i].used /\ t.node[i].key = key}

ngx_http_file_cache_set_watermark(t) == [t EXCEPT !.watermark = t.count - (t.count \div 8)]

FreeNode(t, i) == [t EXCEPT !.node[i] = NoNode, !.queue = Without(@, i), !.count = @ - 1]

(* c->node = fcn, with what is copied from it.                             *)
Use(t, r, i) ==
    [t EXCEPT !.node[i].expire = t.clock + Inactive, !.queue = ToHead(@, i),
              !.req[r].uniq = t.node[i].uniq, !.req[r].error = t.node[i].error,
              !.req[r].node = i]

Renew(t, i) == [t EXCEPT !.node[i].error = FALSE, !.node[i].exists = FALSE, !.node[i].valid = 0,
                         !.node[i].uniq = 0, !.node[i].fs_size = 0]

(* A new node, if there is room.                                           *)
ngx_slab_calloc_locked(t, r) ==
    LET free == {i \in Ids : ~t.node[i].used}
        i == Min(free)
        n == [t EXCEPT !.node[i] = [NoNode EXCEPT !.used = TRUE, !.key = t.req[r].key, !.uses = 1, !.count = 1],
                       !.count = @ + 1]
    IN IF free = {} THEN [rc |-> "error", t |-> t] ELSE [rc |-> "declined", t |-> Use(n, r, i)]

(* The node of the request's key: found, renewed, new, or no room for it.  *)
ngx_http_file_cache_exists(t, r) ==
    LET c == t.req[r]
        found == IF c.node # 0 THEN {c.node} ELSE ngx_http_file_cache_lookup(t, c.key)
        i == Min(found)
        n == IF c.node # 0 THEN t
             ELSE [t EXCEPT !.node[i].uses = IF @ < MinUses THEN @ + 1 ELSE @, !.node[i].count = @ + 1]
        fcn == n.node[i]
        new == ngx_slab_calloc_locked(t, r)
    IN IF found # {}
       THEN IF fcn.error /\ fcn.valid < t.clock
            THEN [rc |-> "declined", t |-> Use(Renew(n, i), r, i)]
            ELSE IF fcn.error THEN [rc |-> "ok", t |-> Use(n, r, i)]
            ELSE IF fcn.exists \/ fcn.uses >= MinUses
            THEN [rc |-> "ok", t |-> [Use(n, r, i) EXCEPT !.req[r].exists = fcn.exists]]
            ELSE [rc |-> "again", t |-> Use(n, r, i)]
       ELSE IF new.rc = "error" THEN [rc |-> "nomem", t |-> ngx_http_file_cache_set_watermark(t)]
       ELSE new

(* The node is given back when the request has not updated it.             *)
ngx_http_file_cache_free(t, r) ==
    LET c == t.req[r]
        i == c.node
        n == [t EXCEPT !.node[i].count = @ - 1,
                       !.node[i].updating = @ /\ ~(c.updating /\ t.node[i].lock_time = c.lock_time)]
        e == IF c.error THEN [n EXCEPT !.node[i].error = TRUE, !.node[i].valid = t.clock + 1]
             ELSE IF ~n.node[i].exists /\ n.node[i].count = 0 /\ MinUses = 1 THEN FreeNode(n, i)
             ELSE n
    IN IF c.updated \/ i = 0 THEN t
       ELSE [e EXCEPT !.req[r].updated = TRUE, !.req[r].updating = FALSE]

(* The pool cleanup: freeing here while an update is marked is logged as   *)
(* "stalled cache updating".                                               *)
ngx_http_file_cache_cleanup(t, r) ==
    LET c == t.req[r]
        a == [t EXCEPT !.alert = @ \/ (~c.updated /\ c.updating /\ ~c.background)]
    IN [ngx_http_file_cache_free(a, r) EXCEPT !.req[r] = NoCache]

-----------------------------------------------------------------------------
(* A request.                                                              *)

Go(t, r, pc) == [t EXCEPT !.req[r].pc = pc]

Start(r) == \E k \in Keys, h \in Heads, b \in Bypass :
    /\ s.req[r].pc = "idle" /\ s.starts < MaxStarts
    /\ s' = [s EXCEPT !.starts = @ + 1, !.req[r] = [NoCache EXCEPT !.pc = IF b THEN "fetch" ELSE "open", !.k = k, !.h = h,
                                     !.key = <<k, 0>>, !.bypass = b,
                                     !.status = IF b THEN "bypass" ELSE "miss"]]

(* The cache lock: one request fetches, the others wait.  The lock ages.   *)
ngx_http_file_cache_lock(t, r) ==
    LET c == t.req[r]
        i == c.node
        free == ~t.node[i].updating \/ t.node[i].lock_time <= t.clock
        l == [t EXCEPT !.node[i].updating = TRUE, !.node[i].lock_time = t.clock + 1,
                       !.req[r].updating = TRUE, !.req[r].lock_time = t.clock + 1,
                       !.aged = @ \/ t.node[i].updating]
    IN IF ~Lock THEN Go(t, r, "fetch")
       ELSE IF free \/ c.updating THEN Go(IF free THEN l ELSE t, r, "fetch")
       ELSE IF ~c.waits THEN [t EXCEPT !.req[r].pc = "fetch", !.req[r].cacheable = FALSE]
       ELSE [t EXCEPT !.req[r].pc = "waiting",
                      !.req[r].wait_time = IF @ = 0 THEN t.clock + 1 ELSE @]

(* Opening: what is known of the key decides whether a file is looked for. *)
Opened(e, r) ==
    LET t == e.t
        test == IF e.rc = "ok" THEN t.req[r].exists ELSE t.cold
        rv == IF e.rc = "declined" /\ MinUses > 1 THEN "scarce" ELSE "declined"
    IN IF e.rc = "again" THEN [t EXCEPT !.req[r].cacheable = FALSE, !.req[r].pc = "fetch"]
       ELSE IF e.rc = "ok" /\ t.req[r].error THEN Go(t, r, "served")
       ELSE [t EXCEPT !.req[r].rv = rv, !.req[r].pc = IF test THEN "openfile" ELSE "locking"]

(* What follows ngx_http_file_cache_exists() where it was called.          *)
Proceed(e, r, back) ==
    IF e.rc = "nomem" THEN [Go(e.t, r, "forced") EXCEPT !.req[r].back = back]
    ELSE CASE back = "open"    -> Opened(e, r)
           [] back = "create"  -> Go(e.t, r, "header")
           [] back = "variant" -> Go(e.t, r, "body")

ngx_http_file_cache_open(r) ==
    s.req[r].pc = "open" /\ s' = Proceed(ngx_http_file_cache_exists(s, r), r, "open")

(* The file is not there, or not tested: lock, or pass without caching.    *)
Locking(r) ==
    /\ s.req[r].pc = "locking"
    /\ s' = IF s.req[r].rv = "declined" THEN ngx_http_file_cache_lock(s, r)
            ELSE [s EXCEPT !.req[r].cacheable = FALSE, !.req[r].pc = "fetch"]

OpenFile(r) ==
    /\ s.req[r].pc = "openfile"
    /\ LET f == s.file[s.req[r].key]
       IN s' = IF f.uniq = 0 THEN Go(s, r, "locking")
               ELSE [s EXCEPT !.req[r].file = f, !.req[r].uniq = f.uniq, !.req[r].pc = "read"]

ngx_http_file_cache_lock_wait(r) ==
    LET c == s.req[r]
        n == s.node[c.node]
    IN /\ c.pc = "waiting"
       /\ \/ c.wait_time <= s.clock /\ s' = [s EXCEPT !.req[r].waits = FALSE, !.req[r].pc = "open"]
          \/ /\ c.wait_time > s.clock /\ ~(n.updating /\ n.lock_time > s.clock)
             /\ s' = Go(s, r, "open")

(* The file is another variant: go on with the name of one's own.          *)
ngx_http_file_cache_reopen(t, r) ==
    [t EXCEPT !.node[t.req[r].node].count = @ - 1, !.req[r].node = 0, !.req[r].secondary = TRUE,
              !.req[r].key = <<t.req[r].k, t.req[r].h>>, !.req[r].pc = "open"]

ColdFile(t, r) ==
    LET c == t.req[r]
        i == c.node
    IN IF ~t.cold \/ t.node[i].exists THEN t
       ELSE [t EXCEPT !.node[i].uses = 1, !.node[i].exists = TRUE, !.node[i].uniq = c.uniq,
                      !.node[i].fs_size = 1, !.size = @ + 1]

(* Reading the header of the file, and what upstream_cache() makes of it:  *)
(* a hit, or a stale response which one request updates.                   *)
ngx_http_file_cache_read(r) ==
    /\ s.req[r].pc = "read"
    /\ LET c == s.req[r]
           t == ColdFile(s, r)
           i == c.node
           u == [t EXCEPT !.node[i].updating = TRUE, !.req[r].updating = TRUE,
                          !.req[r].lock_time = t.node[i].lock_time]
           expired(x) == [Go(x, r, "fetch") EXCEPT !.req[r].status = "expired"]
           idle == {q \in Requests : t.req[q].pc = "idle"}
           clone(x, q) == [x EXCEPT !.req[q] = [NoCache EXCEPT !.pc = "open", !.k = c.k, !.h = c.h,
                                                   !.key = <<c.k, 0>>, !.status = "miss", !.parent = {r}]]
       IN IF c.file.vary /\ c.file.head # c.h
          THEN s' = IF c.secondary THEN Go(s, r, "fetch") ELSE ngx_http_file_cache_reopen(s, r)
          ELSE IF c.file.valid >= t.clock THEN s' = [Go(t, r, "served") EXCEPT !.req[r].status = "hit"]
          ELSE IF t.node[i].updating
          THEN s' = IF UseStale /\ c.parent = {} THEN [Go(t, r, "served") EXCEPT !.req[r].status = "updating"]
                    ELSE expired(t)
          ELSE IF UseStale /\ Background /\ c.parent = {}
          THEN \E q \in idle : s' = clone([Go(u, r, "served") EXCEPT !.req[r].status = "stale",
                                                                   !.req[r].background = TRUE], q)
          ELSE s' = expired(u)

(* The upstream request ends: the node is given back.                      *)
ngx_http_upstream_finalize_request(t, r) ==
    ngx_http_file_cache_cleanup(ngx_http_file_cache_free(t, r), r)

(* The request ends after its background subrequest.                       *)
Served(r) == /\ s.req[r].pc = "served" /\ \A q \in Requests : r \notin s.req[q].parent
             /\ s' = ngx_http_file_cache_cleanup(s, r)

(* A file that is still there and still the same gets a new header.        *)
ngx_http_file_cache_update_header(t, r) ==
    LET c == t.req[r]
    IN IF t.file[c.key].uniq = c.uniq /\ c.uniq # 0
       THEN [t EXCEPT !.file[c.key].valid = t.clock + 1] ELSE t

(* The answers of the server.                                              *)
Fetched(r) == \E vary \in IF Cardinality(Heads) > 1 THEN BOOLEAN ELSE {FALSE} :
    /\ s.req[r].pc = "fetch" /\ s.req[r].cacheable /\ s.uniq < MaxUniq
    /\ s' = [Go(s, r, IF s.req[r].bypass THEN "create" ELSE "header")
                EXCEPT !.req[r].file = [uniq |-> 0, vary |-> vary, head |-> s.req[r].h, valid |-> s.clock + 1]]

NotModified(r) ==
    /\ s.req[r].pc = "fetch" /\ s.req[r].status = "expired"
    /\ s' = ngx_http_upstream_finalize_request(ngx_http_file_cache_update_header(s, r), r)

(* Not to be cached, an error, or the client has gone.                     *)
Passed(r) ==
    /\ s.req[r].pc = "fetch"
    /\ \E e \in IF Errors /\ s.req[r].cacheable THEN BOOLEAN ELSE {FALSE} :
          s' = ngx_http_upstream_finalize_request([s EXCEPT !.req[r].error = e], r)

(* After a bypass the node is looked up only now.                          *)
ngx_http_file_cache_create(r) ==
    s.req[r].pc = "create" /\ s' = Proceed(ngx_http_file_cache_exists(s, r), r, "create")

(* The header of the new file.  A response that does not vary as expected  *)
(* goes back to the name of the key.                                       *)
ngx_http_file_cache_update_variant(r) ==
    /\ s.req[r].pc = "header"
    /\ LET c == s.req[r]
       IN s' = IF ~c.secondary \/ (c.file.vary /\ <<c.k, c.file.head>> = c.key) THEN Go(s, r, "body")
               ELSE [s EXCEPT !.node[c.node].count = @ - 1, !.node[c.node].updating = FALSE,
                              !.req[r].node = 0, !.req[r].key = <<c.k, 0>>, !.req[r].pc = "variant"]

MainKey(r) == s.req[r].pc = "variant" /\ s' = Proceed(ngx_http_file_cache_exists(s, r), r, "variant")

(* The body came, or did not come to its end.                              *)
Body(r) ==
    /\ s.req[r].pc = "body"
    /\ \/ s' = [Go(s, r, "update") EXCEPT !.file[s.req[r].key] = [s.req[r].file EXCEPT !.uniq = s.uniq + 1],
                                          !.uniq = @ + 1,
                                          !.req[r].uniq = s.uniq + 1]
       \/ s' = ngx_http_upstream_finalize_request(s, r)

(* As if the lock were not released with the update.                       *)
UpdateLocked(r) ==
    /\ s.req[r].pc = "update"
    /\ LET c == s.req[r]
           i == c.node
           n == [s EXCEPT !.node[i].count = @ - 1, !.node[i].error = FALSE, !.node[i].uniq = c.uniq,
                          !.size = @ + (1 - s.node[i].fs_size), !.node[i].fs_size = 1,
                          !.node[i].exists = TRUE,
                          !.req[r].updated = TRUE, !.req[r].updating = FALSE]
       IN s' = ngx_http_upstream_finalize_request(n, r)

(* The file has its name; now the node says so.                            *)
ngx_http_file_cache_update(r) ==
    /\ s.req[r].pc = "update"
    /\ LET c == s.req[r]
           i == c.node
           n == [s EXCEPT !.node[i].count = @ - 1, !.node[i].error = FALSE, !.node[i].uniq = c.uniq,
                          !.size = @ + (1 - s.node[i].fs_size), !.node[i].fs_size = 1,
                          !.node[i].exists = TRUE, !.node[i].updating = FALSE,
                          !.req[r].updated = TRUE, !.req[r].updating = FALSE]
       IN s' = ngx_http_upstream_finalize_request(n, r)

(* A worker exits abnormally: what it held stays counted.                  *)
Crash(r) == /\ Crashes /\ s.req[r].pc \notin {"idle", "forced", "unlink", "unlinked"}
            /\ s' = [s EXCEPT !.req[r] = NoCache, !.crashed = TRUE]

-----------------------------------------------------------------------------
(* Deleting: by the manager, or by a worker that found no room.            *)

(* forced_expire(): from the tail of the queue, nodes in use are moved to  *)
(* the head and the first that is not is the victim.                       *)
Victim(t) ==
    LET q == t.queue
        free == {j \in DOMAIN q : t.node[q[j]].count = 0}
        j == Max(free)
    IN IF free = {} THEN [victim |-> 0, queue |-> q]
       ELSE [victim |-> q[j], queue |-> Reverse(SubSeq(q, j + 1, Len(q))) \o SubSeq(q, 1, j)]

(* delete(): the node of a file is kept while the file is deleted.         *)
DeleteBegin(t, i) ==
    IF t.node[i].exists
    THEN [t EXCEPT !.size = @ - t.node[i].fs_size, !.node[i].count = @ + 1, !.node[i].deleting = TRUE]
    ELSE FreeNode(t, i)

DeleteEnd(t, i) ==
    LET n == [t EXCEPT !.node[i].count = @ - 1, !.node[i].deleting = FALSE]
    IN IF n.node[i].count = 0 THEN FreeNode(n, i) ELSE n

ngx_http_file_cache_forced_expire(r) ==
    /\ s.req[r].pc = "forced"
    /\ LET v == Victim(s)
           t == [s EXCEPT !.queue = v.queue]
       IN s' = IF v.victim = 0 THEN Go(t, r, "retry")
               ELSE [Go(DeleteBegin(t, v.victim), r, IF s.node[v.victim].exists THEN "unlink" ELSE "retry")
                        EXCEPT !.req[r].victim = v.victim]

WorkerUnlinks(r) ==
    /\ s.req[r].pc = "unlink"
    /\ s' = [Go(s, r, "unlinked") EXCEPT !.file[s.node[s.req[r].victim].key] = NoFile]

WorkerDeletes(r) ==
    /\ s.req[r].pc = "unlinked"
    /\ s' = Go(DeleteEnd(s, s.req[r].victim), r, "retry")

(* Once more, without looking for the key again; without room the request  *)
(* fails.                                                                  *)
Retry(r) ==
    /\ s.req[r].pc = "retry"
    /\ LET new == ngx_slab_calloc_locked(s, r)
       IN s' = IF new.rc = "error" THEN ngx_http_upstream_finalize_request(s, r)
               ELSE Proceed(new, r, s.req[r].back)

(* The manager: inactive nodes first, then those above the limits.         *)
ngx_http_file_cache_expire ==
    /\ s.manager.pc = "idle" /\ s.queue # <<>>
    /\ LET i == s.queue[Len(s.queue)]
           n == s.node[i]
       IN /\ n.expire <= s.clock
          /\ IF n.count = 0
             THEN s' = [DeleteBegin(s, i) EXCEPT !.manager.pc = IF n.exists THEN "unlink" ELSE "idle",
                                                  !.manager.victim = i]
             ELSE ~n.deleting /\ s' = [s EXCEPT !.queue = ToHead(@, i), !.node[i].expire = s.clock + Inactive]

ngx_http_file_cache_manager ==
    /\ s.manager.pc = "idle"
    /\ s.size >= MaxSize \/ s.count >= s.watermark
    /\ LET v == Victim(s)
           t == [s EXCEPT !.queue = v.queue]
       IN /\ v.victim # 0
          /\ s' = [DeleteBegin(t, v.victim) EXCEPT
                      !.manager.pc = IF s.node[v.victim].exists THEN "unlink" ELSE "idle",
                      !.manager.victim = v.victim]

ManagerUnlinks ==
    /\ s.manager.pc = "unlink"
    /\ s' = [s EXCEPT !.file[s.node[s.manager.victim].key] = NoFile, !.manager.pc = "unlinked"]

ngx_http_file_cache_delete ==
    /\ s.manager.pc = "unlinked"
    /\ s' = [DeleteEnd(s, s.manager.victim) EXCEPT !.manager.pc = "idle"]

-----------------------------------------------------------------------------
(* The loader: each file it meets gets a node; one it cannot get a node    *)
(* for is deleted.                                                         *)
ngx_http_file_cache_manage_file(n) ==
    /\ s.loader.pc = "walk" /\ n \notin s.seen /\ s.file[n].uniq # 0
    /\ s' = [s EXCEPT !.loader.pc = "add", !.loader.name = n, !.seen = @ \cup {n}]

ngx_http_file_cache_add ==
    /\ s.loader.pc = "add"
    /\ LET n == s.loader.name
           found == ngx_http_file_cache_lookup(s, n)
           free == {i \in Ids : ~s.node[i].used}
           used(t, i) == [t EXCEPT !.node[i].expire = s.clock + Inactive, !.queue = ToHead(@, i), !.loader.pc = "walk"]
       IN s' = IF found # {} THEN used(s, Min(found))
               ELSE IF free = {}
               THEN [ngx_http_file_cache_set_watermark(s) EXCEPT !.loader.pc = "deletefile"]
               ELSE LET i == Min(free)
                    IN used([s EXCEPT !.node[i] = [NoNode EXCEPT !.used = TRUE, !.key = n, !.uses = 1,
                                                     !.exists = TRUE, !.fs_size = 1],
                                      !.count = @ + 1, !.size = @ + 1], i)

ngx_http_file_cache_delete_file ==
    /\ s.loader.pc = "deletefile"
    /\ s' = [s EXCEPT !.file[s.loader.name] = NoFile, !.loader.pc = "walk"]

ngx_http_file_cache_loader ==
    /\ s.loader.pc = "walk" /\ \A n \in Names : s.file[n].uniq = 0 \/ n \in s.seen
    /\ s' = [s EXCEPT !.loader.pc = "end", !.cold = FALSE, !.seen = {}]

Tick == s.clock < MaxClock /\ s' = [s EXCEPT !.clock = @ + 1]

Next == \/ \E r \in Requests :
              \/ Start(r) \/ ngx_http_file_cache_open(r) \/ Locking(r) \/ OpenFile(r)
              \/ ngx_http_file_cache_lock_wait(r) \/ ngx_http_file_cache_read(r) \/ Served(r)
              \/ Fetched(r) \/ NotModified(r) \/ Passed(r) \/ ngx_http_file_cache_create(r)
              \/ ngx_http_file_cache_update_variant(r) \/ MainKey(r) \/ Body(r) \/ ngx_http_file_cache_update(r)
              \/ Crash(r) \/ ngx_http_file_cache_forced_expire(r) \/ WorkerUnlinks(r)
              \/ WorkerDeletes(r) \/ Retry(r)
        \/ ngx_http_file_cache_expire \/ ngx_http_file_cache_manager \/ ManagerUnlinks
        \/ ngx_http_file_cache_delete
        \/ \E n \in Names : ngx_http_file_cache_manage_file(n)
        \/ ngx_http_file_cache_add \/ ngx_http_file_cache_delete_file \/ ngx_http_file_cache_loader
        \/ Tick

Spec == Init /\ [][Next]_s

-----------------------------------------------------------------------------
(* Properties.                                                             *)

Holders(i) == {r \in Requests : s.req[r].node = i /\ ~s.req[r].updated}
Deleters(i) == {r \in Requests : s.req[r].pc \in {"unlink", "unlinked"} /\ s.req[r].victim = i}
Managing(i) == IF s.manager.pc \in {"unlink", "unlinked"} /\ s.manager.victim = i THEN 1 ELSE 0

(* A node a request or a deleter points to is not freed and is the node of *)
(* its key.                                                                *)
NodesLive ==
    \A i \in Ids :
       /\ \A r \in Holders(i) : s.node[i].used /\ s.node[i].key = s.req[r].key
       /\ Deleters(i) # {} \/ Managing(i) = 1 => s.node[i].used

(* The count of a node is the number of requests and deleters that hold    *)
(* it, and not less even if workers exit abnormally.                       *)
CountExact ==
    \A i \in Ids :
       LET held == Cardinality(Holders(i)) + Cardinality(Deleters(i)) + Managing(i)
       IN s.node[i].used => IF s.crashed THEN s.node[i].count >= held ELSE s.node[i].count = held

(* A response from the cache is the one the request asked for: a file is   *)
(* only used by requests whose header it was made for.                     *)
ServedRight ==
    \A r \in Requests :
       /\ s.req[r].pc = "served" /\ s.req[r].status \in {"hit", "stale", "updating"} /\ s.req[r].file.vary
             => s.req[r].file.head = s.req[r].h
       /\ \A n \in Names : n[2] # 0 /\ s.file[n].uniq # 0 => s.file[n].vary /\ s.file[n].head = n[2]

(* An expired response does not stick in the "updating" state: while a     *)
(* node is marked some request holds it to update it.                      *)
UpdatingHeld ==
    ~s.crashed => \A i \in Ids : s.node[i].updating => \E r \in Holders(i) : s.req[r].updating

(* The cleanup of a request never finds an update that was not finished.   *)
NotStalled == ~s.alert

(* With proxy_cache_lock, until a lock has aged, one request at a time     *)
(* populates a new element of the cache.                                   *)
OnePopulates ==
    Lock /\ ~s.aged => \A i \in Ids : ~s.node[i].exists =>
        Cardinality({r \in Holders(i) : s.req[r].cacheable
                       /\ s.req[r].pc \in {"fetch", "header", "body", "update"}}) <= 1

=============================================================================
