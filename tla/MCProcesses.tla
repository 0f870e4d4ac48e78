---------------------------- MODULE MCProcesses -----------------------------

(***************************************************************************)
(* The processes and what they share: the mutex in shared memory and its   *)
(* lock word for readers and writers, the accept mutex, the master and its *)
(* children, the thread pool, connections, timers and channels of the      *)
(* event loop, and the slab allocator.                                     *)
(***************************************************************************)

EXTENDS Locks, Sequences

CONSTANTS AcceptWorkers, UseMutex, ConnN, Share, MaxBacklog, MaxArrivals,
    MaxEmfile, MaxQuits, NWorkers, CachePaths, Pids, Signals, ReloadOutcomes,
    MaxSignals, MaxCrashes, MaxForkFails, Threads, Tasks, ThreadExit,
    ThreadNull, MaxQueue, NPages, MaxRun, Conns, ConnNone, MaxSock, Events,
    Modulus, Delays, Lazy, MaxTime, N, MaxBatch, MaxDeaths

VARIABLES part, acceptW, acceptLock, backlog, acceptBudget, m, pending,
    masterBudget, next, queue, done, waiting, where, cur, active, notified,
    main, walk, left, threadLock, conn, free, batch, posted, run, socks,
    reuse, heard, time, cached, tree, key, timerDue, turn, lag, proc, tab,
    fds, inbox, forks, slabM, live

(* Small chunks (three a page, one of them the bitmap) and big ones (two a *)
(* page).                                                                  *)
TwoSizes == << [type |-> "SMALL", chunks |-> 3, reserved |-> 1],
               [type |-> "BIG", chunks |-> 2, reserved |-> 0] >>

Proc == INSTANCE Processes WITH Slots <- TwoSizes

LoopA == INSTANCE EventLoop WITH Post <- TRUE, Start <- 11

LoopB == INSTANCE EventLoop WITH Post <- FALSE, Start <- 11

acceptVars == <<acceptW, acceptLock, backlog, acceptBudget>>

NoAccept == acceptW = 0 /\ acceptLock = 0 /\ backlog = 0 /\ acceptBudget = 0

masterVars == <<m, pending, masterBudget>>

NoMaster == m = 0 /\ pending = 0 /\ masterBudget = 0

threadsVars == <<next, done, waiting, where, cur, active, notified, main, walk, left,
          threadLock>>

NoThreads == next = 0 /\ done = 0 /\ waiting = 0 /\ where = 0 /\ cur = 0
             /\ active = 0 /\ notified = 0 /\ main = 0 /\ walk = 0
             /\ left = 0 /\ threadLock = 0

connectionsVars == <<conn, free, batch, posted, run, socks, reuse, heard>>

NoConnections == conn = 0 /\ free = 0 /\ batch = 0 /\ posted = 0 /\ run = 0
                 /\ socks = 0 /\ reuse = 0 /\ heard = 0

timerVars == <<time, cached, tree, key, timerDue, turn, lag>>

NoTimer == time = 0 /\ cached = 0 /\ tree = 0 /\ key = 0 /\ timerDue = 0
           /\ turn = 0 /\ lag = 0

channelsVars == <<proc, tab, fds, inbox, forks>>

NoChannels == proc = 0 /\ tab = 0 /\ fds = 0 /\ inbox = 0 /\ forks = 0

slabVars == <<slabM, live>>

NoSlab == slabM = 0 /\ live = 0

all == <<part, vars, rwVars, acceptVars, masterVars, threadsVars, queue,
          connectionsVars, timerVars, channelsVars, slabVars>>

-----------------------------------------------------------------------------

MCInit ==
    \/ /\ part = "mutex" /\ Init
       /\ RwInit /\ NoAccept /\ NoMaster /\ NoThreads /\ queue = 0
       /\ NoConnections /\ NoTimer /\ NoChannels /\ NoSlab
    \/ /\ part = "readers" /\ RwInit
       /\ Init /\ NoAccept /\ NoMaster /\ NoThreads /\ queue = 0
       /\ NoConnections /\ NoTimer /\ NoChannels /\ NoSlab
    \/ /\ part = "accept" /\ Proc!AcceptInit
       /\ Init /\ RwInit /\ NoMaster /\ NoThreads /\ queue = 0 /\ NoConnections
       /\ NoTimer /\ NoChannels /\ NoSlab
    \/ /\ part = "master" /\ Proc!MasterInit
       /\ Init /\ RwInit /\ NoAccept /\ NoThreads /\ queue = 0 /\ NoConnections
       /\ NoTimer /\ NoChannels /\ NoSlab
    \/ /\ part = "threads" /\ Proc!ThreadInit
       /\ Init /\ RwInit /\ NoAccept /\ NoMaster /\ NoConnections /\ NoTimer
       /\ NoChannels /\ NoSlab
    \/ /\ \/ part = "connections" /\ LoopA!ConnInit
          \/ part = "connections direct" /\ LoopB!ConnInit
       /\ Init /\ RwInit /\ NoAccept /\ NoMaster /\ NoThreads /\ NoTimer
       /\ NoChannels /\ NoSlab
    \/ /\ part = "timers" /\ LoopA!TimerInit
       /\ Init /\ RwInit /\ NoAccept /\ NoMaster /\ NoThreads /\ queue = 0
       /\ NoConnections /\ NoChannels /\ NoSlab
    \/ /\ part = "channels" /\ LoopA!ChannelInit
       /\ Init /\ RwInit /\ NoAccept /\ NoMaster /\ NoThreads /\ queue = 0
       /\ NoConnections /\ NoTimer /\ NoSlab
    \/ /\ part = "slab" /\ Proc!SlabInit
       /\ Init /\ RwInit /\ NoAccept /\ NoMaster /\ NoThreads /\ queue = 0
       /\ NoConnections /\ NoTimer /\ NoChannels

(* Where the environment is bounded a part may come to rest.               *)
MayStop ==
    /\ part \in {"master", "threads", "connections", "connections direct", "timers",
                "channels"}
    /\ UNCHANGED all

MCNext ==
    \/ /\ part = "mutex" /\ Next
       /\ UNCHANGED <<part, rwVars, acceptVars, masterVars, threadsVars, queue, connectionsVars,
                     timerVars, channelsVars, slabVars>>
    \/ /\ part = "readers" /\ RwNext
       /\ UNCHANGED <<part, vars, acceptVars, masterVars, threadsVars, queue, connectionsVars,
                     timerVars, channelsVars, slabVars>>
    \/ /\ part = "accept" /\ Proc!AcceptNext
       /\ UNCHANGED <<part, vars, rwVars, masterVars, threadsVars, queue, connectionsVars,
                     timerVars, channelsVars, slabVars>>
    \/ /\ part = "master" /\ Proc!MasterNext
       /\ UNCHANGED <<part, vars, rwVars, acceptVars, threadsVars, queue, connectionsVars,
                     timerVars, channelsVars, slabVars>>
    \/ /\ part = "threads" /\ Proc!ThreadNext
       /\ UNCHANGED <<part, vars, rwVars, acceptVars, masterVars, connectionsVars, timerVars,
                     channelsVars, slabVars>>
    \/ /\ \/ part = "connections" /\ LoopA!ConnNext
          \/ part = "connections direct" /\ LoopB!ConnNext
       /\ UNCHANGED <<part, vars, rwVars, acceptVars, masterVars, threadsVars, timerVars,
                     channelsVars, slabVars>>
    \/ /\ part = "timers" /\ LoopA!TimerNext
       /\ UNCHANGED <<part, vars, rwVars, acceptVars, masterVars, threadsVars, queue,
                     connectionsVars, channelsVars, slabVars>>
    \/ /\ part = "channels" /\ LoopA!ChannelNext
       /\ UNCHANGED <<part, vars, rwVars, acceptVars, masterVars, threadsVars, queue,
                     connectionsVars, timerVars, slabVars>>
    \/ /\ part = "slab" /\ Proc!SlabNext
       /\ UNCHANGED <<part, vars, rwVars, acceptVars, masterVars, threadsVars, queue,
                     connectionsVars, timerVars, channelsVars>>
    \/ MayStop

MCSpec == MCInit /\ [][MCNext]_all

-----------------------------------------------------------------------------

(* The accept mutex is free after every turn of a worker and covers every  *)
(* accept; the master's table is its children, and after crashes, reloads  *)
(* and upgrades it serves with enough workers of the current generation    *)
(* only; a thread pool's counter and its tasks are exact, and it is        *)
(* destroyed after its last thread (ngx_trylock_accept_mutex,              *)
(* ngx_master_process_cycle, ngx_thread_pool.c).                           *)
ProcessesSound ==
    /\ part = "accept" =>
          /\ Proc!FreedEveryTurn /\ Proc!PostedUnderLock
          /\ Proc!EventsFollowHeld
    /\ part = "master" =>
          /\ Proc!TableIsExact /\ Proc!NeverShort /\ Proc!OneGeneration
    /\ part = "threads" =>
          /\ Proc!WaitingIsExact /\ Proc!InOnePlace /\ Proc!DestroyedLast

(* A connection structure is free once or holds one socket, a connection   *)
(* is refused only when none could be drained, and no handler sees the     *)
(* event of an earlier socket; no timer fires early and the loop never     *)
(* sleeps past one, also when the counter of milliseconds wraps; a child   *)
(* holds the channels of the living and of no one else                     *)
(* (ngx_get_connection, ngx_event_timer.c, ngx_pass_open_channel).         *)
EventLoopSound ==
    /\ part = "connections" =>
          /\ LoopA!PoolIsExact /\ LoopA!QueueIsExact
          /\ LoopA!RefusedOnlyWhenFull /\ LoopA!NoStaleEvent
    /\ part = "connections direct" => LoopB!OneReuseIsSafe
    /\ part = "timers" =>
          /\ LoopA!NeverEarly /\ LoopA!InOrder /\ LoopA!WakesInTime
    /\ part = "channels" => LoopA!HoldsTheLiving /\ LoopA!NoChannelLost

(* What callers hold never overlaps another allocation, a bitmap or a free *)
(* run; the free list is the pages nobody uses, joined as far as they can  *)
(* be; and the first page of a slot can always serve                       *)
(* (ngx_slab_alloc_locked, ngx_slab_free_locked).                          *)
SlabSound ==
    part = "slab" =>
          /\ Proc!NoOverlap /\ Proc!FreeListIsExact /\ Proc!FullyJoined
          /\ Proc!SlotsAreExact

=============================================================================
