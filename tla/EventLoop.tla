----------------------------- MODULE EventLoop ------------------------------
(***************************************************************************)
(* What a worker's event loop stands on: the connection structures and the *)
(* events that may still point to them, the timers, and the channel on     *)
(* which the master tells the workers of each other.                       *)
(***************************************************************************)
EXTENDS Integers, Sequences, FiniteSets, SequencesExt

(***************************************************************************)
(* A worker's pool of connections and the events epoll reports on them.    *)
(* A connection structure is reused for one socket after another; the one  *)
(* bit `instance`, flipped at every reuse, tells an event of the present   *)
(* socket from one collected for a socket closed since (ngx_connection.c,  *)
(* ngx_epoll_module.c, ngx_event_posted.c).                                *)
(* A handler is any series of the operations handlers are made of: opening *)
(* a connection, closing one, marking one reusable.                        *)
(***************************************************************************)

CONSTANTS Conns,     \* the connection structures
          ConnNone,
          Post,      \* NGX_POST_EVENTS: this worker holds the accept mutex
          MaxSock    \* a bound on the sockets opened

VARIABLES
    conn,    \* [fd, instance, active, reusable] of each structure; fd 0 is -1
    free,    \* the list free_connections
    queue,   \* reusable_connections_queue, newest first
    batch,   \* events returned by epoll_wait() and not looked at yet
    posted,  \* ngx_posted_events
    run,     \* the connection whose handler runs
    socks,   \* sockets opened so far
    reuse,   \* how often a structure was taken since epoll_wait()
    heard    \* the last event given to a handler: [c, sock it came from, fd of c]

connVars == <<conn, free, queue, batch, posted, run, socks, reuse, heard>>

Dirs == {"read", "write"}

Closed == [fd |-> 0, instance |-> 1, active |-> {}, reusable |-> FALSE]

\* the listening socket has the first connection
Listener == Head(SetToSeq(Conns))

ConnInit == /\ conn = [c \in Conns |-> IF c # Listener THEN Closed
                         ELSE [Closed EXCEPT !.fd = 1, !.instance = 0, !.active = {"read"}]]
            /\ free = Tail(SetToSeq(Conns))
            /\ queue = <<>> /\ batch = <<>> /\ posted = <<>>
            /\ run = ConnNone /\ socks = 1
            /\ reuse = [c \in Conns |-> 0]
            /\ heard = [c |-> ConnNone, sock |-> 0, fd |-> 0]

\* the pool as one value, so that a handler's calls compose
Pool == [conn |-> conn, free |-> free, queue |-> queue, posted |-> posted]

SetPool(p) == /\ conn' = p.conn /\ free' = p.free
              /\ queue' = p.queue /\ posted' = p.posted

ngx_reusable_connection(p, c, reusable) ==
    [p EXCEPT !.queue = (IF reusable THEN <<c>> ELSE <<>>) \o Remove(@, c),
              !.conn[c].reusable = reusable]

ngx_free_connection(p, c) == [p EXCEPT !.free = <<c>> \o @, !.conn[c].fd = 0]

CloseKeepPosted(p, c) ==
    IF p.conn[c].fd = 0 THEN p
    ELSE ngx_free_connection([ngx_reusable_connection(p, c, FALSE)
                                EXCEPT !.conn[c].active = {}], c)

ngx_close_connection(p, c) ==
    IF p.conn[c].fd = 0 THEN p      \* "connection already closed"
    ELSE ngx_free_connection([ngx_reusable_connection(p, c, FALSE)
              EXCEPT !.conn[c].active = {},
                     !.posted = SelectSeq(@, LAMBDA e : e.c # c)], c)

ngx_drain_connections(p) ==
    LET n == IF Len(p.queue) \div 8 > 1 THEN Len(p.queue) \div 8 ELSE 1
    IN FoldLeft(LAMBDA q, i : IF q.queue = <<>> THEN q
                              ELSE ngx_close_connection(q, Last(q.queue)),
                p, [i \in 1..n |-> i])

Prepared(p) == IF p.free = <<>> THEN ngx_drain_connections(p) ELSE p

\* ngx_get_connection() and the registration with epoll that follows
ngx_get_connection(p, fd, dirs) ==
    LET c == Head(p.free)
    IN [p EXCEPT !.free = Tail(@),
                 !.conn[c] = [fd |-> fd, instance |-> 1 - p.conn[c].instance,
                              active |-> dirs, reusable |-> FALSE]]

ConnInHandler == run # ConnNone

Idle == run = ConnNone /\ batch = <<>> /\ posted = <<>>

ConnOpen == /\ ConnInHandler
            /\ socks < MaxSock
            /\ \E dirs \in {{"read"}, Dirs} :
                  LET p == Prepared(Pool) IN
                  IF p.free = <<>> THEN SetPool(p) /\ UNCHANGED <<socks, reuse>>
                  ELSE /\ SetPool(ngx_get_connection(p, socks + 1, dirs))
                       /\ socks' = socks + 1
                       /\ reuse' = [reuse EXCEPT ![Head(p.free)] = @ + 1]
            /\ UNCHANGED <<batch, run, heard>>

Close(c) == /\ ConnInHandler /\ c # Listener
            /\ SetPool(ngx_close_connection(Pool, c))
            /\ UNCHANGED <<batch, run, socks, reuse, heard>>

Reusable(c, r) == /\ ConnInHandler /\ conn[c].fd > 1
                  /\ SetPool(ngx_reusable_connection(Pool, c, r))
                  /\ UNCHANGED <<batch, run, socks, reuse, heard>>

Return == /\ ConnInHandler /\ run' = ConnNone
          /\ UNCHANGED <<conn, free, queue, batch, posted, socks, reuse, heard>>

\* epoll_wait(): any active registrations are ready, in any order; an event
\* carries the pointer and the instance it was registered with
EpollWait ==
    /\ Idle
    /\ \E S \in SUBSET {<<c, d>> \in Conns \X Dirs : d \in conn[c].active} \ {{}} :
       \E order \in SetToSeqs(S) :
          batch' = [i \in DOMAIN order |->
                      [c |-> order[i][1], dir |-> order[i][2],
                       instance |-> conn[order[i][1]].instance, sock |-> conn[order[i][1]].fd]]
    /\ reuse' = [c \in Conns |-> 0]
    /\ UNCHANGED <<conn, free, queue, posted, run, socks, heard>>

Deliver(c, sock) == /\ run' = c
                    /\ heard' = [c |-> c, sock |-> sock, fd |-> conn[c].fd]

NextEvent ==
    /\ run = ConnNone /\ batch # <<>>
    /\ batch' = Tail(batch)
    /\ LET e == Head(batch)
           stale == conn[e.c].fd = 0 \/ conn[e.c].instance # e.instance
           due == ~stale /\ e.dir \in conn[e.c].active
           new == [c |-> e.c, dir |-> e.dir, sock |-> e.sock]
       IN \/ /\ due /\ Post
             /\ posted' = IF \E i \in DOMAIN posted : posted[i].c = e.c /\ posted[i].dir = e.dir
                          THEN posted ELSE Append(posted, new)
             /\ UNCHANGED <<run, heard>>
          \/ due /\ ~Post /\ Deliver(e.c, e.sock) /\ UNCHANGED posted
          \/ ~due /\ UNCHANGED <<run, heard, posted>>
    /\ UNCHANGED <<conn, free, queue, socks, reuse>>

ngx_event_process_posted ==
    /\ run = ConnNone /\ batch = <<>> /\ posted # <<>>
    /\ posted' = Tail(posted)
    /\ Deliver(Head(posted).c, Head(posted).sock)
    /\ UNCHANGED <<conn, free, queue, batch, socks, reuse>>

ConnNext == \/ ConnOpen \/ Return \/ EpollWait \/ NextEvent \/ ngx_event_process_posted
            \/ \E c \in Conns : Close(c) \/ \E r \in BOOLEAN : Reusable(c, r)

ConnSpec == ConnInit /\ [][ConnNext]_connVars

----------------------------------------------------------------------------

\* Every structure is on the free list exactly once or holds a socket that no
\* other holds: nothing is freed twice, lost or shared (the guard fd == -1).
PoolIsExact ==
    /\ \A c \in Conns : (conn[c].fd = 0) <=> (\E i \in DOMAIN free : free[i] = c)
    /\ Cardinality(Range(free)) = Len(free)
    /\ \A c, d \in Conns : c # d /\ conn[c].fd = conn[d].fd => conn[c].fd = 0

\* What waits to be reused is open and is queued once: draining never meets a
\* closed connection.
QueueIsExact ==
    /\ Range(queue) = {c \in Conns : conn[c].reusable}
    /\ Cardinality(Range(queue)) = Len(queue)
    /\ \A c \in Range(queue) : conn[c].fd # 0

\* "worker_connections are not enough" is answered only when no connection
\* could be drained: a reusable one always makes room.
RefusedOnlyWhenFull ==
    \A p \in {Prepared(Pool)} : p.free = <<>> => queue = <<>>

\* "the stale event from a file descriptor that was just closed in this
\* iteration" is dropped: a handler only sees events of the socket its connection
\* has.
NoStaleEvent == heard.sock = heard.fd

\* The instance bit does its work as long as a structure is reused once.
OneReuseIsSafe == heard.c # ConnNone /\ reuse[heard.c] < 2 /\ run = heard.c => heard.sock = heard.fd

-----------------------------------------------------------------------------

(***************************************************************************)
(* The timers of a worker's event loop.  Keys and the cached clock are     *)
(* ngx_msec_t and wrap around; keys are compared by the sign of their      *)
(* difference.  A timer that is set again with nearly the same key is left *)
(* alone (NGX_TIMER_LAZY_DELAY).  The clock is cached: it moves only when  *)
(* ngx_process_events() returns (ngx_event_timer.[ch], ngx_event.c).       *)
(***************************************************************************)

CONSTANTS Events,      \* the events that have a timer
          Modulus,     \* 2^w, the range of ngx_msec_t
          Delays,      \* the timeouts handlers ask for
          Lazy,        \* NGX_TIMER_LAZY_DELAY
          Start,       \* the real clock at the beginning
          MaxTime      \* a bound on the real clock

VARIABLES
    time,     \* the real clock, which does not wrap
    cached,   \* the real time at which ngx_current_msec was taken
    tree,     \* the timers that are set, in the order of the tree
    key,      \* event -> timer.key; 0 when not set
    timerDue,      \* event -> the time its last ngx_add_timer() asked for
    turn,       \* "poll", "expire" or "handlers"
    lag       \* how late the last timer that fired was

timerVars == <<time, cached, tree, key, timerDue, turn, lag>>

Msec(t) == t % Modulus

\* (ngx_msec_int_t) (a - b)
Diff(a, b) == LET d == (a - b) % Modulus IN IF d >= Modulus \div 2 THEN d - Modulus ELSE d

IsSet(e) == \E i \in DOMAIN tree : tree[i] = e

Insert(q, k, e) ==
    SelectSeq(q, LAMBDA f : Diff(k[e], k[f]) >= 0) \o <<e>>
        \o SelectSeq(q, LAMBDA f : Diff(k[e], k[f]) < 0)

TimerInit == /\ time = Start /\ cached = Start
             /\ tree = <<>>
             /\ key = [e \in Events |-> 0] /\ timerDue = [e \in Events |-> 0]
             /\ turn = "handlers"
             /\ lag = 0

TimerInHandler == turn \in {"expire", "handlers"}

ngx_event_add_timer(e, timer) ==
    /\ TimerInHandler
    /\ LET k == Msec(Msec(cached) + timer)
           d == Diff(k, key[e])
           lazy == IsSet(e) /\ (IF d < 0 THEN -d ELSE d) < Lazy
           newkey == [key EXCEPT ![e] = k]
       IN IF lazy THEN UNCHANGED <<key, tree>>
          ELSE /\ key' = newkey
               /\ tree' = Insert(Remove(tree, e), newkey, e)
    /\ timerDue' = [timerDue EXCEPT ![e] = cached + timer]
    /\ UNCHANGED <<time, cached, turn, lag>>

ngx_event_del_timer(e) ==
    /\ TimerInHandler /\ IsSet(e)
    /\ tree' = Remove(tree, e)
    /\ key' = [key EXCEPT ![e] = 0] /\ timerDue' = [timerDue EXCEPT ![e] = 0]
    /\ UNCHANGED <<time, cached, turn, lag>>

\* the rest of the turn, to the next ngx_process_events()
EndOfTurn == /\ turn = "handlers" /\ turn' = "poll"
             /\ UNCHANGED <<time, cached, tree, key, timerDue, lag>>

INFINITE == -1

ngx_event_find_timer ==
    IF tree = <<>> THEN INFINITE
    ELSE LET t == Diff(key[Head(tree)], Msec(cached)) IN IF t > 0 THEN t ELSE 0

\* ngx_process_events() waits at most as long as the next timer, counted from
\* the cached time; a ready descriptor may end it earlier.  Expired timers are
\* looked for only if the cached clock has moved.
Poll == /\ turn = "poll"
        /\ \E ready \in BOOLEAN :
              \/ ready
              \/ ngx_event_find_timer # INFINITE /\ time >= cached + ngx_event_find_timer
        /\ cached' = time
        /\ turn' = IF time # cached THEN "expire" ELSE "handlers"
        /\ UNCHANGED <<time, tree, key, timerDue, lag>>

\* one turn of the loop of ngx_event_expire_timers()
ngx_event_expire_timers ==
    /\ turn = "expire"
    /\ \/ /\ tree # <<>> /\ Diff(key[Head(tree)], Msec(cached)) <= 0
          /\ tree' = Tail(tree)
          /\ lag' = cached - timerDue[Head(tree)]
          /\ key' = [key EXCEPT ![Head(tree)] = 0] /\ timerDue' = [timerDue EXCEPT ![Head(tree)] = 0]
          /\ UNCHANGED turn
       \/ /\ ~(tree # <<>> /\ Diff(key[Head(tree)], Msec(cached)) <= 0)
          /\ turn' = "handlers" /\ UNCHANGED <<tree, key, timerDue, lag>>
    /\ UNCHANGED <<time, cached>>

\* The clock runs; a turn of the loop takes less than the slack that keeps two
\* keys within half the range of each other.
Tick == /\ time < MaxTime /\ time - cached < Modulus \div 4
        /\ time' = time + 1
        /\ UNCHANGED <<cached, tree, key, timerDue, turn, lag>>

TimerNext == \/ Tick \/ EndOfTurn \/ Poll \/ ngx_event_expire_timers
             \/ \E e \in Events : ngx_event_del_timer(e)
                                  \/ \E d \in Delays : ngx_event_add_timer(e, d)

TimerSpec == TimerInit /\ [][TimerNext]_timerVars

----------------------------------------------------------------------------

\* A timer fires at most NGX_TIMER_LAZY_DELAY before the time its last
\* ngx_add_timer() asked for, also when the millisecond counter wraps around.
NeverEarly == lag > -Lazy

\* The tree stays in the order of the times asked for, up to the lazy delay: no
\* timer is hidden behind a later one.
InOrder == \A i, j \in DOMAIN tree : i < j => timerDue[tree[i]] < timerDue[tree[j]] + 2 * Lazy

\* The loop never sleeps past a timer: the timeout it gives to epoll_wait() ends
\* no later than the earliest time asked for, up to the lazy delay.
WakesInTime == turn = "poll" /\ tree # <<>> =>
    /\ ngx_event_find_timer # INFINITE
    /\ \A i \in DOMAIN tree :
          cached + ngx_event_find_timer < (IF timerDue[tree[i]] > cached THEN timerDue[tree[i]] ELSE cached) + Lazy

-----------------------------------------------------------------------------

(***************************************************************************)
(* The channels between the processes.  Every child holds a descriptor of  *)
(* the channel of every other child: it inherits those open in the master  *)
(* at its fork, and is told over its own channel of the ones opened and    *)
(* closed later.  A channel is named by the number of the fork it was made *)
(* for.  A reap pass is one turn of the master (see Processes).            *)
(***************************************************************************)

CONSTANTS N,          \* slots in use when the workers have started
          MaxBatch,   \* children that may be dead when the master reaps
          MaxDeaths   \* a bound on the deaths

Slots == 1..N

ChannelNone == 0

VARIABLES
    proc,    \* slot -> [st : run, dead or none; chan, respawn] in the master's table
    tab,     \* slot -> the child's own ngx_processes[].channel[0]
    fds,     \* slot -> how many channel descriptors of others the child has open
    inbox,   \* slot -> commands written to its channel and not read
    forks    \* channels made so far

channelVars == <<proc, tab, fds, inbox, forks>>

ChannelOpen(p) == {s \in Slots : p[s].chan # ChannelNone}

\* the child forked into slot s inherits the master's table: itself aside, it
\* keeps channel[0] of every slot that has one
Inherit(p, s) == [t \in Slots |-> IF t = s THEN ChannelNone ELSE p[t].chan]

ChannelInit == /\ proc = [s \in Slots |-> [st |-> "run", chan |-> s, respawn |-> TRUE]]
               /\ tab = [s \in Slots |-> Inherit(proc, s)]
               /\ fds = [s \in Slots |-> N - 1]
               /\ inbox = [s \in Slots |-> <<>>]
               /\ forks = N

Dead == {s \in Slots : proc[s].st = "dead"}

Die(s) == /\ proc[s].st = "run" /\ Cardinality(Dead) < MaxBatch
          /\ forks < N + MaxDeaths
          /\ \E again \in BOOLEAN :
                proc' = [proc EXCEPT ![s].st = "dead", ![s].respawn = again]
          /\ UNCHANGED <<tab, fds, inbox, forks>>

\* a command written to the channel of every child but those excepted
Write(w, ch, except) ==
    [w EXCEPT !.inbox = [t \in Slots |->
        IF t \in except \/ w.proc[t].chan = ChannelNone \/ w.proc[t].st # "run"
        THEN @[t] ELSE Append(@[t], ch)]]

Respawn(w, s) ==
    LET c == w.forks + 1
        p == [w.proc EXCEPT ![s] = [st |-> "run", chan |-> c, respawn |-> TRUE]]
    IN Write([w EXCEPT !.proc = p, !.forks = c,
                       !.tab[s] = Inherit(p, s),
                       !.fds[s] = Cardinality(ChannelOpen(p) \ {s}),
                       !.inbox[s] = <<>>,
                       !.cmd = [op |-> "OPEN", slot |-> s, chan |-> c]],
             [op |-> "OPEN", slot |-> s, chan |-> c], {s})

ReapSlot(w, s) ==
    IF w.proc[s].st # "dead" THEN w
    ELSE LET u == [w EXCEPT !.proc[s].chan = ChannelNone, !.proc[s].st = "none",
                            !.cmd.slot = s]
             v == Write(u, u.cmd, {s})
         IN IF w.proc[s].respawn THEN Respawn(v, s) ELSE v

Reap ==
    /\ Dead # {}
    /\ LET w == FoldLeft(ReapSlot,
                  [proc |-> proc, tab |-> tab, fds |-> fds, inbox |-> inbox, forks |-> forks,
                   cmd |-> [op |-> "CLOSE", slot |-> 0, chan |-> ChannelNone]],
                  [s \in Slots |-> s])
       IN /\ proc' = w.proc /\ tab' = w.tab /\ fds' = w.fds
          /\ inbox' = w.inbox /\ forks' = w.forks

Handle(s) ==
    /\ proc[s].st = "run" /\ inbox[s] # <<>>
    /\ LET ch == Head(inbox[s])
           closed == ch.op = "CLOSE" /\ tab[s][ch.slot] # ChannelNone
       IN /\ tab' = [tab EXCEPT ![s][ch.slot] = ch.chan]
          /\ fds' = [fds EXCEPT ![s] = IF ch.op = "OPEN" THEN @ + 1
                                       ELSE IF closed THEN @ - 1 ELSE @]
    /\ inbox' = [inbox EXCEPT ![s] = Tail(@)]
    /\ UNCHANGED <<proc, forks>>

ChannelNext == Reap \/ \E s \in Slots : Die(s) \/ Handle(s)

ChannelSpec == ChannelInit /\ [][ChannelNext]_channelVars

----------------------------------------------------------------------------

Drained(s) == proc[s].st = "run" /\ inbox[s] = <<>>

\* "pass close channel": a child that has read its channel to the end holds the
\* channel of every other child of the table and of no one else.
HoldsTheLiving == \A s \in Slots : Drained(s) =>
                     \A t \in Slots \ {s} : tab[s][t] = proc[t].chan

\* A child never loses track of a descriptor: those it has open are those of its table.
NoChannelLost == \A s \in Slots : proc[s].st = "run" =>
                    fds[s] = Cardinality({t \in Slots : tab[s][t] # ChannelNone})
=============================================================================
