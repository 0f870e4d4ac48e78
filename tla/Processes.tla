----------------------------- MODULE Processes ------------------------------
(***************************************************************************)
(* The processes of nginx: workers that take turns at accepting            *)
(* connections, the master that starts, replaces and stops them, the       *)
(* threads a worker hands its tasks to, and the slab allocator of the      *)
(* memory they share.                                                      *)
(***************************************************************************)
EXTENDS Integers, FiniteSets, Sequences, SequencesExt, TLC, FiniteSetsExt

(***************************************************************************)
(* Workers that share a listening socket: the accept mutex, the load       *)
(* shedding of ngx_accept_disabled, running out of descriptors, and a      *)
(* worker that shuts down (ngx_event.c, ngx_event_accept.c,                *)
(* ngx_connection.c).  The mutex itself is the subject of module Locks:    *)
(* here trylock and unlock are atomic and unlock frees only one's own.     *)
(***************************************************************************)

CONSTANTS AcceptWorkers, Nobody,
          UseMutex,     \* accept_mutex on
          ConnN,        \* worker_connections
          Share,        \* worker_connections / 8
          MaxBacklog,   \* connections that may wait in the kernel
          MaxArrivals, MaxEmfile, MaxQuits

VARIABLES
    acceptW,        \* worker -> [pc, held, active, disabled, post, timer, free, open]
    acceptLock,     \* the owner of ngx_accept_mutex
    backlog,  \* connections the kernel has completed
    acceptBudget    \* [arrivals, emfile, quits] still possible

acceptVars == <<acceptW, acceptLock, backlog, acceptBudget>>

NewWorker == [pc |-> "top", held |-> FALSE, active |-> ~UseMutex, disabled |-> 0,
              post |-> FALSE, timer |-> FALSE, free |-> ConnN, open |-> TRUE]

AcceptInit == /\ acceptW = [p \in AcceptWorkers |-> NewWorker]
              /\ acceptLock = Nobody
              /\ backlog = 0
              /\ acceptBudget = [arrivals |-> MaxArrivals, emfile |-> MaxEmfile, quits |-> MaxQuits]

Set(p, r) == acceptW' = [acceptW EXCEPT ![p] = r]

Unlocked(p) == IF acceptLock = p THEN Nobody ELSE acceptLock

ngx_trylock_accept_mutex(p) ==
    \/ /\ acceptLock = Nobody /\ acceptLock' = p
       /\ Set(p, [acceptW[p] EXCEPT !.pc = "wait", !.active = TRUE, !.held = TRUE, !.post = TRUE])
    \/ /\ acceptLock # Nobody /\ UNCHANGED acceptLock
       /\ Set(p, [acceptW[p] EXCEPT !.pc = "wait", !.post = FALSE, !.held = FALSE,
                                    !.active = acceptW[p].active /\ ~acceptW[p].held])

\* the top of ngx_process_events_and_timers()
Top(p) ==
    /\ acceptW[p].pc = "top"
    /\ \/ /\ acceptW[p].open /\ UseMutex /\ acceptW[p].disabled <= 0
          /\ ngx_trylock_accept_mutex(p)
       \/ /\ acceptW[p].open /\ UseMutex /\ acceptW[p].disabled > 0
          /\ Set(p, [acceptW[p] EXCEPT !.pc = "wait", !.post = FALSE, !.disabled = @ - 1])
          /\ UNCHANGED acceptLock
       \/ /\ ~(acceptW[p].open /\ UseMutex)
          /\ Set(p, [acceptW[p] EXCEPT !.pc = "wait", !.post = FALSE])
          /\ UNCHANGED acceptLock
    /\ UNCHANGED <<backlog, acceptBudget>>

\* epoll_wait(): it reports the listening socket if that is registered and a
\* connection waits; another event, or the timer, ends it too.  A posted accept
\* event is handled before, a direct one inside ngx_process_events().
Wait(p) ==
    /\ acceptW[p].pc = "wait"
    /\ \/ acceptW[p].active /\ backlog > 0 /\ Set(p, [acceptW[p] EXCEPT !.pc = "accept"])
       \/ ~(acceptW[p].active /\ backlog > 0) /\ Set(p, [acceptW[p] EXCEPT !.pc = "unlock"])
    /\ UNCHANGED <<acceptLock, backlog, acceptBudget>>

\* ngx_event_accept(): another worker may have been faster (EAGAIN); accept()
\* may fail for want of descriptors; a connection may find no free structure
AcceptAgain(p) ==
    /\ acceptW[p].pc = "accept" /\ backlog = 0
    /\ Set(p, [acceptW[p] EXCEPT !.pc = "unlock"])
    /\ UNCHANGED <<acceptLock, backlog, acceptBudget>>

AcceptEmfile(p) ==
    /\ acceptW[p].pc = "accept" /\ backlog > 0 /\ acceptBudget.emfile > 0
    /\ acceptBudget' = [acceptBudget EXCEPT !.emfile = @ - 1]
    /\ \/ /\ UseMutex
          /\ acceptLock' = IF acceptW[p].held THEN Unlocked(p) ELSE acceptLock
          /\ Set(p, [acceptW[p] EXCEPT !.pc = "unlock", !.active = FALSE,
                                       !.held = FALSE, !.disabled = 1])
       \/ /\ ~UseMutex
          /\ Set(p, [acceptW[p] EXCEPT !.pc = "unlock", !.active = FALSE, !.timer = TRUE])
          /\ UNCHANGED acceptLock
    /\ UNCHANGED backlog

NewConnection(x) == [x EXCEPT !.pc = "unlock", !.disabled = Share - x.free, !.free = IF @ > 0 THEN @ - 1 ELSE @]

Accept(p) ==
    /\ acceptW[p].pc = "accept" /\ backlog > 0
    /\ backlog' = backlog - 1
    /\ Set(p, NewConnection(acceptW[p]))
    /\ UNCHANGED <<acceptLock, acceptBudget>>

\* the end of the turn: the mutex is freed, the timer of a listening socket
\* without descriptors registers it again
EndOfTurn(p) ==
    /\ acceptW[p].pc = "unlock"
    /\ acceptLock' = IF acceptW[p].held THEN Unlocked(p) ELSE acceptLock
    /\ \E fires \in {FALSE, acceptW[p].timer} :
          Set(p, [acceptW[p] EXCEPT !.pc = "top", !.timer = @ /\ ~fires, !.active = @ \/ fires])
    /\ UNCHANGED <<backlog, acceptBudget>>

\* the accept timer cannot be put off for ever
TimerFires(p) ==
    /\ acceptW[p].pc = "unlock" /\ acceptW[p].timer
    /\ acceptLock' = IF acceptW[p].held THEN Unlocked(p) ELSE acceptLock
    /\ Set(p, [acceptW[p] EXCEPT !.pc = "top", !.timer = FALSE, !.active = TRUE])
    /\ UNCHANGED <<backlog, acceptBudget>>

\* a graceful shutdown between two turns: ngx_close_listening_sockets()
AcceptQuit(p) ==
          /\ acceptW[p].pc = "top" /\ acceptW[p].open /\ acceptBudget.quits > 0
          /\ acceptBudget' = [acceptBudget EXCEPT !.quits = @ - 1]
          /\ Set(p, [acceptW[p] EXCEPT !.open = FALSE, !.active = FALSE, !.held = FALSE, !.timer = FALSE])
          /\ UNCHANGED <<acceptLock, backlog>>

Done(p) == /\ acceptW[p].free < ConnN
           /\ Set(p, [acceptW[p] EXCEPT !.free = @ + 1])
           /\ UNCHANGED <<acceptLock, backlog, acceptBudget>>

Arrive == /\ backlog < MaxBacklog /\ acceptBudget.arrivals > 0
          /\ backlog' = backlog + 1
          /\ acceptBudget' = [acceptBudget EXCEPT !.arrivals = @ - 1]
          /\ UNCHANGED <<acceptW, acceptLock>>

AcceptTurn(p) == \/ Top(p) \/ Wait(p) \/ AcceptAgain(p) \/ AcceptEmfile(p)
                 \/ Accept(p) \/ EndOfTurn(p)

AcceptNext == Arrive \/ \E p \in AcceptWorkers : AcceptTurn(p) \/ TimerFires(p) \/ AcceptQuit(p) \/ Done(p)

AcceptSpec == AcceptInit /\ [][AcceptNext]_acceptVars

----------------------------------------------------------------------------

\* The mutex is never carried into the next turn of a worker's loop, whatever
\* path that turn took (EMFILE, shedding, shutdown), so no worker keeps the
\* others from accepting while it waits for events.
FreedEveryTurn == \A p \in AcceptWorkers : acceptLock = p => acceptW[p].pc # "top"

\* An accept event that was posted is handled under the mutex: two workers are
\* never inside accept() together, except one that sheds load and still has its
\* listening socket registered.
PostedUnderLock == \A p \in AcceptWorkers : acceptW[p].pc = "accept" /\ acceptW[p].post => acceptLock = p

\* With the mutex, a worker has the listening socket registered exactly when it
\* believes it holds the mutex; the belief is wrong at most until its next turn.
EventsFollowHeld == UseMutex => \A p \in AcceptWorkers : acceptW[p].active = acceptW[p].held

\* A connection that waits is accepted as long as some worker listens, also
\* after descriptors ran out for a while.
Accepted == (backlog > 0) ~> (backlog = 0 \/ \A p \in AcceptWorkers : ~acceptW[p].open)

-----------------------------------------------------------------------------

(***************************************************************************)
(* The master process: signals, the table of child processes, respawning,  *)
(* reconfiguration, the upgrade of the executable, and both ways to stop.  *)
(*                                                                         *)
(* All signals are blocked except inside sigsuspend(), so one turn of the  *)
(* loop, from the handlers that run there to the next sigsuspend(), is one *)
(* action (Turn).  The children run, crash and exit in between.            *)
(* A reaped process leaves the system; its number may be used again.       *)
(***************************************************************************)

CONSTANTS NWorkers,      \* worker_processes
          CachePaths,    \* is a cache path with a manager and a loader configured
          Pids,          \* 1..n, the numbers of child processes
          Signals,       \* what the administrator sends
          ReloadOutcomes,\* what ngx_init_cycle() may answer: TRUE, FALSE or both
          MaxSignals, MaxCrashes, MaxForkFails

VARIABLES
    m,         \* the master's flags, its process table and the children
    pending,   \* signals sent and not handled
    masterBudget     \* [signals, crashes, forks]: what the environment may still do

masterVars == <<m, pending, masterBudget>>

NoPid == 0

Invalid == -1       \* NGX_INVALID_PID

Free(s) == {p \in Pids : s.procs[p].st = "none"
                         /\ \A i \in DOMAIN s.slots : s.slots[i].pid # p}

Least(S) == CHOOSE x \in S : \A y \in S : x <= y

Slot(p, kind, type) ==
    [pid |-> p, kind |-> kind, exiting |-> FALSE, exited |-> FALSE,
     respawn |-> type \in {"RESPAWN", "JUST_RESPAWN"},
     just_spawn |-> type \in {"JUST_SPAWN", "JUST_RESPAWN"},
     detached |-> type = "DETACHED"]

Child(s, kind) == [st |-> "run", cmds |-> {}, gen |-> s.gen, kind |-> kind]

NoChild == [st |-> "none", cmds |-> {}, gen |-> 0, kind |-> "worker"]

\* s.forks says whether the forks of this turn succeed; s.short remembers
\* that a process was not started
ngx_spawn_process(s, kind, type) ==
    LET p == Least(Free(s))
        holes == {i \in DOMAIN s.slots : s.slots[i].pid = NoPid}
    IN IF ~s.forks THEN [s EXCEPT !.short = TRUE]
       ELSE [s EXCEPT !.procs[p] = Child(s, kind),
                      !.slots = IF holes = {} THEN Append(@, Slot(p, kind, type))
                                ELSE [@ EXCEPT ![Least(holes)] = Slot(p, kind, type)]]

ngx_start_worker_processes(s, type) ==
    FoldLeft(LAMBDA a, i : ngx_spawn_process(a, "worker", type), s,
             [i \in 1..NWorkers |-> i])

ngx_start_cache_manager_processes(s, respawn) ==
    IF ~CachePaths THEN s
    ELSE ngx_spawn_process(
           ngx_spawn_process(s, "manager", IF respawn THEN "JUST_RESPAWN" ELSE "RESPAWN"),
           "loader", IF respawn THEN "JUST_SPAWN" ELSE "NORESPAWN")

Start(s, respawn) ==
    ngx_start_cache_manager_processes(
        ngx_start_worker_processes(s, IF respawn THEN "JUST_RESPAWN" ELSE "RESPAWN"),
        respawn)

\* The child is given the command over its channel or by a signal, with the
\* same effect.  A slot whose respawn failed has a closed channel and a pid
\* that no longer exists: kill() answers ESRCH.
ngx_signal_worker_processes(s, cmd) ==
    LET sl == s.slots
        Skipped(i) == sl[i].detached \/ sl[i].pid = NoPid
        Told(i) == /\ ~Skipped(i) /\ ~sl[i].just_spawn
                   /\ ~(sl[i].exiting /\ cmd = "quit")
    IN [s EXCEPT
          !.slots = [i \in DOMAIN sl |->
             IF Skipped(i) THEN sl[i]
             ELSE IF sl[i].just_spawn THEN [sl[i] EXCEPT !.just_spawn = FALSE]
             ELSE IF ~Told(i) THEN sl[i]
             ELSE IF sl[i].exited THEN [sl[i] EXCEPT !.exiting = FALSE]
             ELSE [sl[i] EXCEPT !.exiting = @ \/ cmd # "reopen"]],
          !.procs = [p \in Pids |->
             IF \E i \in DOMAIN sl : Told(i) /\ ~sl[i].exited /\ sl[i].pid = p
                THEN [s.procs[p] EXCEPT !.cmds = @ \union {cmd}] ELSE s.procs[p]],
          !.reap = @ \/ \E i \in DOMAIN sl : Told(i) /\ sl[i].exited]

ReapSlot(s, i) ==
    LET c == s.slots[i]
        p == Least(Free(s))
        binary == c.pid = s.new_binary
    IN IF c.pid = NoPid THEN s
       ELSE IF ~c.exited THEN [s EXCEPT !.live = @ \/ c.exiting \/ ~c.detached]
       ELSE IF c.respawn /\ ~c.exiting /\ ~s.terminate /\ ~s.quit
            THEN IF ~s.forks THEN [s EXCEPT !.short = TRUE]
                 ELSE [s EXCEPT !.procs[p] = Child(s, c.kind), !.live = TRUE,
                                !.slots[i].pid = p, !.slots[i].exited = FALSE]
       ELSE [s EXCEPT !.slots = IF i = Len(@) THEN SubSeq(@, 1, i - 1)
                                ELSE [@ EXCEPT ![i].pid = NoPid],
                      !.new_binary = IF binary THEN 0 ELSE @,
                      !.restart = @ \/ (binary /\ s.noaccepting),
                      !.noaccepting = @ /\ ~binary]

ngx_reap_children(s) ==
    IF ~s.reap THEN s
    ELSE FoldLeft(ReapSlot, [s EXCEPT !.reap = FALSE, !.live = FALSE],
                  [i \in DOMAIN s.slots |-> i])

\* SIGCHLD: every child that has exited is collected; the fatal exit code
\* takes away the slot's respawn flag
ngx_process_get_status(s) ==
    LET Dead(c) == c.pid \in Pids /\ s.procs[c.pid].st \in {"zombie", "fatal"}
    IN [s EXCEPT
          !.slots = [i \in DOMAIN s.slots |-> LET c == s.slots[i] IN
             IF Dead(c) THEN [c EXCEPT !.exited = TRUE,
                                !.respawn = @ /\ s.procs[c.pid].st # "fatal"] ELSE c],
          !.short = @ \/ \E p \in Pids : s.procs[p].st = "fatal",
          !.procs = [p \in Pids |-> IF s.procs[p].st \in {"zombie", "fatal"}
                                       THEN NoChild ELSE s.procs[p]]]

\* the handlers of the pending signals
ngx_signal_handler(s, sigs) ==
    LET t == [s EXCEPT !.quit = @ \/ "QUIT" \in sigs,
                !.terminate = @ \/ "TERM" \in sigs,
                !.noaccept = @ \/ "WINCH" \in sigs,
                !.reconfigure = @ \/ "HUP" \in sigs,
                !.reopen = @ \/ "USR1" \in sigs,
                !.change_binary = @ \/ ("USR2" \in sigs /\ s.new_binary <= 0),
                !.sigalrm = @ \/ "ALRM" \in sigs,
                !.reap = @ \/ "CHLD" \in sigs]
    IN IF "CHLD" \in sigs THEN ngx_process_get_status(t) ELSE t

ngx_exec_new_binary(s) ==
    LET t == ngx_spawn_process(s, "binary", "DETACHED")
    IN [t EXCEPT !.change_binary = FALSE,
                 !.new_binary = IF s.forks THEN Least(Free(s)) ELSE Invalid]

MaxDelay == 1600    \* the delay doubles for ever; above 1000 it no longer matters

\* the top of the loop, before sigsuspend()
Rearm(s) == IF s.delay > 0 /\ s.sigalrm
            THEN [s EXCEPT !.sigio = 0, !.sigalrm = FALSE,
                           !.delay = IF @ = MaxDelay THEN @ ELSE 2 * @]
            ELSE s

Terminate(s) ==
    LET t == [s EXCEPT !.delay = IF @ = 0 THEN 50 ELSE @]
    IN IF t.sigio > 0 THEN [t EXCEPT !.sigio = @ - 1]
       ELSE ngx_signal_worker_processes([t EXCEPT !.sigio = NWorkers + 2],
                                        IF t.delay > 1000 THEN "kill" ELSE "terminate")

Reconfigure(s, ok) ==
    IF ~s.reconfigure THEN s
    ELSE IF ~ok THEN [s EXCEPT !.reconfigure = FALSE]
    ELSE ngx_signal_worker_processes(
           [Start([s EXCEPT !.reconfigure = FALSE, !.gen = @ + 1], TRUE)
               EXCEPT !.live = TRUE], "quit")

Restart(s) == IF s.restart
              THEN [Start([s EXCEPT !.restart = FALSE], FALSE) EXCEPT !.live = TRUE] ELSE s

Reopen(s) == IF s.reopen
             THEN ngx_signal_worker_processes([s EXCEPT !.reopen = FALSE], "reopen") ELSE s

ChangeBinary(s) == IF s.change_binary THEN ngx_exec_new_binary(s) ELSE s

NoAccept(s) == IF s.noaccept
               THEN ngx_signal_worker_processes(
                      [s EXCEPT !.noaccept = FALSE, !.noaccepting = TRUE], "quit") ELSE s

\* the body of the loop for a master that is not stopping
Serve(s, ok) ==
    IF s.reconfigure /\ s.new_binary # 0
    THEN [Start(s, FALSE) EXCEPT !.reconfigure = FALSE, !.noaccepting = FALSE]
    ELSE IF s.reconfigure /\ ~ok THEN Reconfigure(s, ok)
    ELSE NoAccept(ChangeBinary(Reopen(Restart(Reconfigure(s, ok)))))

Body(s, ok) ==
    IF ~s.live /\ (s.terminate \/ s.quit) THEN [s EXCEPT !.running = FALSE]
    ELSE IF s.terminate THEN Terminate(s)
    ELSE IF s.quit THEN ngx_signal_worker_processes(s, "quit")
    ELSE Serve(s, ok)

Init0 == [running |-> TRUE, slots |-> <<>>, procs |-> [p \in Pids |-> NoChild],
          gen |-> 1, new_binary |-> 0, noaccepting |-> FALSE, live |-> TRUE,
          delay |-> 0, sigio |-> 0, forks |-> TRUE, short |-> FALSE,
          reap |-> FALSE, terminate |-> FALSE, quit |-> FALSE, reconfigure |-> FALSE,
          restart |-> FALSE, reopen |-> FALSE, noaccept |-> FALSE,
          change_binary |-> FALSE, sigalrm |-> FALSE]

MasterInit == /\ m = Start(Init0, FALSE)
              /\ pending = {}
              /\ masterBudget = [signals |-> MaxSignals, crashes |-> MaxCrashes, forks |-> MaxForkFails]

\* One turn of ngx_master_process_cycle().
MasterTurn == /\ m.running /\ pending # {}
              /\ \E ok \in ReloadOutcomes, f \in BOOLEAN :
                 /\ f \/ masterBudget.forks > 0
                 /\ \E a \in {ngx_signal_handler([m EXCEPT !.forks = f], pending)} :
                    \E b \in {ngx_reap_children(a)} :
                    \E c \in {Body(b, ok)} :
                       /\ f \/ (c.short /\ ~m.short)    \* a failure is spent where it bites
                       /\ m' = [Rearm(c) EXCEPT !.forks = TRUE]
                 /\ masterBudget' = [masterBudget EXCEPT !.forks = IF f THEN @ ELSE @ - 1]
              /\ pending' = {}

Kill(s) == /\ m.running /\ masterBudget.signals > 0
           /\ masterBudget' = [masterBudget EXCEPT !.signals = @ - 1]
           /\ pending' = pending \union {s}
           /\ UNCHANGED m

Alarm == /\ m.running /\ m.delay > 0
         /\ pending' = pending \union {"ALRM"}
         /\ UNCHANGED <<m, masterBudget>>

Is(p, states) == m.procs[p].st \in states

MasterExit(p, st) == /\ m' = [m EXCEPT !.procs[p].st = st]
                     /\ pending' = pending \union {"CHLD"}

\* The worker's loop: "terminate" exits, "quit" closes the listening sockets
\* and exits when its timers are gone; a helper exits on either.
WorkerQuit(p) == /\ Is(p, {"run"}) /\ m.procs[p].kind = "worker"
                 /\ "quit" \in m.procs[p].cmds
                 /\ m' = [m EXCEPT !.procs[p].st = "shutdown"]
                 /\ UNCHANGED <<pending, masterBudget>>

WorkerExit(p) == /\ m.procs[p].kind = "worker"
                 /\ Is(p, {"shutdown"}) \/ (Is(p, {"run"}) /\ "terminate" \in m.procs[p].cmds)
                 /\ MasterExit(p, "zombie") /\ UNCHANGED masterBudget

HelperExit(p) == /\ Is(p, {"run"}) /\ m.procs[p].kind \in {"manager", "loader"}
                 /\ m.procs[p].kind = "loader" \/ m.procs[p].cmds \cap {"quit", "terminate"} # {}
                 /\ MasterExit(p, "zombie") /\ UNCHANGED masterBudget

BinaryExit(p) == /\ Is(p, {"run"}) /\ m.procs[p].kind = "binary"
                 /\ MasterExit(p, "zombie") /\ UNCHANGED masterBudget

\* the environment: a crash, a fatal exit code, a child that hangs, SIGKILL
Crash(p) == /\ Is(p, {"run", "shutdown"}) /\ masterBudget.crashes > 0
            /\ \/ \E st \in {"zombie", "fatal"} : MasterExit(p, st)
               \/ /\ m.procs[p].kind # "binary"
                  /\ m' = [m EXCEPT !.procs[p].st = "hung"] /\ UNCHANGED pending
            /\ masterBudget' = [masterBudget EXCEPT !.crashes = @ - 1]

Killed(p) == /\ Is(p, {"run", "shutdown", "hung"}) /\ "kill" \in m.procs[p].cmds
             /\ MasterExit(p, "zombie") /\ UNCHANGED masterBudget

ProcStep(p) == WorkerQuit(p) \/ WorkerExit(p) \/ HelperExit(p) \/ Killed(p)

MasterNext == \/ MasterTurn \/ Alarm
              \/ \E s \in Signals : Kill(s)
              \/ \E p \in Pids : ProcStep(p) \/ BinaryExit(p) \/ Crash(p)

MasterSpec == MasterInit /\ [][MasterNext]_masterVars

----------------------------------------------------------------------------

Entries(p) == {i \in DOMAIN m.slots : m.slots[i].pid = p}

\* The table and the children agree: every child not yet collected is in exactly
\* one slot, and a slot that is not marked exited is such a child (the shrinking of
\* ngx_last_process, the holes left by pid = -1 and respawning into the same slot).
TableIsExact ==
    m.running =>
       /\ \A p \in Pids : m.procs[p].st # "none" => Cardinality(Entries(p)) = 1
       /\ \A i \in DOMAIN m.slots :
             m.slots[i].pid # NoPid /\ ~m.slots[i].exited => m.procs[m.slots[i].pid].st # "none"

\* A quiet master that serves has at least worker_processes workers that were not
\* told to stop, whatever crashes, reloads, upgrades and rollbacks came before, if
\* no fork failed and no worker exited with the fatal code.
NeverShort ==
    m.running /\ pending = {} /\ ~m.short /\ ~m.terminate /\ ~m.quit /\ ~m.noaccepting
      => Cardinality({i \in DOMAIN m.slots : m.slots[i].pid # NoPid
            /\ m.slots[i].kind = "worker" /\ ~m.slots[i].exiting}) >= NWorkers

\* After a reload every child that was not told to stop runs the current
\* configuration: no old worker or helper escapes the shutdown.
OneGeneration ==
    m.running => \A i \in DOMAIN m.slots :
       LET c == m.slots[i] IN
       c.pid # NoPid /\ ~c.exited /\ ~c.detached /\ ~c.exiting
         => m.procs[c.pid].gen = m.gen

\* A child that hangs cannot keep the master from a fast shutdown: TERM is
\* repeated at growing intervals and becomes KILL.
TermEnds == m.terminate ~> ~m.running

-----------------------------------------------------------------------------

(***************************************************************************)
(* A thread pool (core/ngx_thread_pool.c): the event loop posts tasks to   *)
(* the pool's queue, threads take them, run them and put them on the list  *)
(* of done tasks, and a notification makes the event loop call the tasks'  *)
(* event handlers, which may post the same tasks again.  Both lists are    *)
(* linked through task->next.  On exit the event loop posts one exit task  *)
(* for each thread and then destroys the mutex and the condition variable. *)
(* What is done under the mutex or the spinlock is one step.               *)
(***************************************************************************)

CONSTANTS Threads, Tasks, ThreadExit, ThreadNull,
          MaxQueue      \* tp->max_queue

VARIABLES
    next,      \* task->next
    queue,     \* tp->queue: [first, last]; last = Null is &queue.first
    done,      \* ngx_thread_pool_done, likewise
    waiting,   \* tp->waiting
    where, cur,   \* threads: where they are and the task they hold
    active,    \* task->event.active
    notified,  \* the eventfd has an event for the loop
    main,      \* the event loop: "loop", "take", "walk", "exit", "spin", "gone"
    walk,      \* the task ngx_thread_pool_handler is at
    left,      \* threads still to be ended by ngx_thread_pool_destroy
    threadLock       \* the flag an exit task clears

All == Tasks \cup {ThreadExit}

Empty == [first |-> ThreadNull, last |-> ThreadNull]

ThreadInit ==
          /\ next = [t \in All |-> ThreadNull] /\ queue = Empty /\ done = Empty
          /\ waiting = 0
          /\ where = [h \in Threads |-> "enter"] /\ cur = [h \in Threads |-> ThreadNull]
          /\ active = [t \in All |-> FALSE] /\ notified = FALSE
          /\ main = "loop" /\ walk = ThreadNull /\ left = Cardinality(Threads) /\ threadLock = FALSE

(* *q.last = task; q.last = &task->next *)
AppendTo(q, t) == [first |-> IF q.last = ThreadNull THEN t ELSE q.first, last |-> t]

Linked(q, t, n) == IF q.last = ThreadNull THEN n ELSE [n EXCEPT ![q.last] = t]

-----------------------------------------------------------------------------

Signal ==
    LET sleepers == {h \in Threads : where[h] = "cond"}
    IN IF sleepers = {} THEN where' = where
       ELSE \E h \in sleepers : where' = [where EXCEPT ![h] = "woken"]

(* act and nxt are the fields as the caller leaves them *)
ngx_thread_task_post(t, act, nxt) ==
    /\ ~act[t]
    /\ waiting < MaxQueue
    /\ active' = [act EXCEPT ![t] = TRUE]
    /\ next' = Linked(queue, t, [nxt EXCEPT ![t] = ThreadNull])
    /\ queue' = AppendTo(queue, t)
    /\ waiting' = waiting + 1
    /\ Signal

(* "queue overflow" *)
PostFails(t, act, nxt) ==
    /\ ~act[t]
    /\ waiting >= MaxQueue
    /\ active' = act /\ next' = nxt
    /\ UNCHANGED <<queue, waiting, where>>

Post(t, act, nxt) == ngx_thread_task_post(t, act, nxt) \/ PostFails(t, act, nxt)

(* A request's handler posts a task. *)
LoopPosts(t) ==
    /\ main = "loop"
    /\ Post(t, active, next)
    /\ UNCHANGED <<done, cur, notified, main, walk, left, threadLock>>

-----------------------------------------------------------------------------

(* ngx_thread_pool_cycle *)

Pop(h, w) ==
    LET t == queue.first
    IN /\ cur' = [cur EXCEPT ![h] = t]
       /\ queue' = IF next[t] = ThreadNull THEN Empty ELSE [queue EXCEPT !.first = next[t]]
       /\ where' = [where EXCEPT ![h] = "run"]
       /\ waiting' = w

(* "the number may become negative" *)
Enter(h) ==
    /\ where[h] = "enter"
    /\ \/ queue.first # ThreadNull /\ Pop(h, waiting - 1)
       \/ /\ queue.first = ThreadNull
          /\ waiting' = waiting - 1
          /\ where' = [where EXCEPT ![h] = "cond"]
          /\ UNCHANGED <<queue, cur>>
    /\ UNCHANGED <<next, done, active, notified, main, walk, left, threadLock>>

(* ngx_thread_cond_wait() returns, signalled or not, and the loop looks    *)
(* again.                                                                  *)
Spurious(h) ==
    /\ where[h] = "cond"
    /\ where' = [where EXCEPT ![h] = "woken"]
    /\ UNCHANGED <<next, queue, done, waiting, cur, active, notified, main, walk, left, threadLock>>

Woken(h) ==
    /\ where[h] = "woken"
    /\ \/ queue.first # ThreadNull /\ Pop(h, waiting)
       \/ /\ queue.first = ThreadNull
          /\ where' = [where EXCEPT ![h] = "cond"]
          /\ UNCHANGED <<queue, cur, waiting>>
    /\ UNCHANGED <<next, done, active, notified, main, walk, left, threadLock>>

(* task->handler, then task->next = NULL; the exit handler does not return *)
ThreadRun(h) ==
          /\ where[h] = "run"
          /\ IF cur[h] = ThreadExit
             THEN /\ threadLock' = FALSE
                  /\ where' = [where EXCEPT ![h] = "gone"] /\ cur' = [cur EXCEPT ![h] = ThreadNull]
                  /\ UNCHANGED next
             ELSE /\ next' = [next EXCEPT ![cur[h]] = ThreadNull]
                  /\ where' = [where EXCEPT ![h] = "put"]
                  /\ UNCHANGED <<cur, threadLock>>
          /\ UNCHANGED <<queue, done, waiting, active, notified, main, walk, left>>

(* under ngx_thread_pool_done_lock *)
PutDone(h) ==
    /\ where[h] = "put"
    /\ next' = Linked(done, cur[h], next)
    /\ done' = AppendTo(done, cur[h])
    /\ cur' = [cur EXCEPT ![h] = ThreadNull]
    /\ where' = [where EXCEPT ![h] = "notify"]
    /\ UNCHANGED <<queue, waiting, active, notified, main, walk, left, threadLock>>

Notify(h) ==
    /\ where[h] = "notify"
    /\ notified' = TRUE
    /\ where' = [where EXCEPT ![h] = "enter"]
    /\ UNCHANGED <<next, queue, done, waiting, cur, active, main, walk, left, threadLock>>

-----------------------------------------------------------------------------

(* ngx_thread_pool_handler: the whole list is taken, then walked. *)
Notified ==
    /\ main = "loop" /\ notified
    /\ notified' = FALSE /\ main' = "take"
    /\ UNCHANGED <<next, queue, done, waiting, where, cur, active, walk, left, threadLock>>

TakeDone ==
    /\ main = "take"
    /\ walk' = done.first
    /\ done' = Empty
    /\ main' = IF done.first = ThreadNull THEN "loop" ELSE "walk"
    /\ UNCHANGED <<next, queue, waiting, where, cur, active, notified, left, threadLock>>

HandleDoneThenNext ==
    LET act == [active EXCEPT ![walk] = FALSE]
    IN /\ main = "walk"
       /\ \/ active' = act /\ UNCHANGED <<next, queue, waiting, where>>
          \/ Post(walk, act, next)
       /\ walk' = next'[walk]
       /\ main' = IF next'[walk] = ThreadNull THEN "loop" ELSE "walk"
       /\ UNCHANGED <<done, cur, notified, left, threadLock>>

(* One task of the list: its successor is read before its handler runs,    *)
(* and the handler may post the task again.                                *)
HandleDone ==
    LET act == [active EXCEPT ![walk] = FALSE]
    IN /\ main = "walk"
       /\ walk' = next[walk]
       /\ main' = IF next[walk] = ThreadNull THEN "loop" ELSE "walk"
       /\ \/ active' = act /\ UNCHANGED <<next, queue, waiting, where>>
          \/ Post(walk, act, next)
       /\ UNCHANGED <<done, cur, notified, left, threadLock>>

-----------------------------------------------------------------------------

(* ngx_thread_pool_destroy: one exit task after the other. *)
ThreadQuit ==
          /\ main = "loop"
          /\ main' = "exit"
          /\ UNCHANGED <<next, queue, done, waiting, where, cur, active, notified, walk, left, threadLock>>

PostExit ==
    /\ main = "exit" /\ left > 0
    /\ \/ ngx_thread_task_post(ThreadExit, active, next) /\ threadLock' = TRUE /\ main' = "spin"
       \/ PostFails(ThreadExit, active, next) /\ main' = "gone" /\ threadLock' = TRUE
    /\ UNCHANGED <<done, cur, notified, walk, left>>

SpinOver ==
    /\ main = "spin" /\ ~threadLock
    /\ active' = [active EXCEPT ![ThreadExit] = FALSE]
    /\ left' = left - 1
    /\ main' = IF left = 1 THEN "destroyed" ELSE "exit"
    /\ UNCHANGED <<next, queue, done, waiting, where, cur, notified, walk, threadLock>>

Cycle(h) == Enter(h) \/ Woken(h) \/ ThreadRun(h) \/ PutDone(h) \/ Notify(h)

MainStep == Notified \/ TakeDone \/ HandleDone \/ PostExit \/ SpinOver

ThreadNext ==
          \/ \E t \in Tasks : LoopPosts(t)
          \/ \E h \in Threads : Cycle(h) \/ Spurious(h)
          \/ MainStep
          \/ ThreadQuit

-----------------------------------------------------------------------------

RECURSIVE Chain(_)

Chain(t) == IF t = ThreadNull THEN <<>> ELSE <<t>> \o Chain(next[t])

InChain(t, c) == \E i \in DOMAIN c : c[i] = t

Idle == {h \in Threads : where[h] \in {"cond", "woken"}}

(* tp->waiting is the queued tasks less the threads that wait for one, so  *)
(* that the pool holds at most max_queue tasks more than it has idle       *)
(* threads: neither spurious wakeups nor refused posts make it drift.      *)
WaitingIsExact ==
    /\ waiting = Len(Chain(queue.first)) - Cardinality(Idle)
    /\ waiting <= MaxQueue

(* A posted task is in exactly one place: in the queue, with a thread, on  *)
(* the done list or ahead of ngx_thread_pool_handler on the list it walks; *)
(* a task that is not active is in none, even while its handler posts it   *)
(* again in the middle of the walk.                                        *)
InOnePlace ==
    \A t \in Tasks :
        (IF InChain(t, Chain(queue.first)) THEN 1 ELSE 0)
        + (IF InChain(t, Chain(done.first)) THEN 1 ELSE 0)
        + (IF InChain(t, Chain(walk)) THEN 1 ELSE 0)
        + Cardinality({h \in Threads : cur[h] = t})
        = (IF active[t] THEN 1 ELSE 0)

(* The mutex and the condition variable are destroyed only when no thread  *)
(* is left that could touch them.                                          *)
DestroyedLast == main = "destroyed" => \A h \in Threads : where[h] = "gone"

(* A task's event handler is called, unless the worker exits first: no     *)
(* signal and no notification is lost between the two lists.               *)
TaskCompletes ==
    \A t \in Tasks : active[t] ~> (walk = t \/ main \notin {"loop", "take", "walk"})

(* An exiting worker gets through ngx_thread_pool_destroy.                 *)
ExitEnds == (main = "exit") ~> (main \in {"gone", "destroyed"})

-----------------------------------------------------------------------------

(***************************************************************************)
(* The slab allocator of a shared zone (core/ngx_slab.c), pointer by       *)
(* pointer: the array of page descriptors with its slab, next and prev     *)
(* fields (prev carries the page type in its low bits), the list of free   *)
(* runs with its first fit, splitting and joining, and a list of pages     *)
(* with free chunks for each chunk size.  A chunk size is given by the     *)
(* chunks of a page and those of them its own bitmap takes                 *)
(* (NGX_SLAB_SMALL keeps the bitmap in the page).  The callers hold the    *)
(* zone's mutex, so that every operation is one step; they free what they  *)
(* got, once.                                                              *)
(***************************************************************************)

CONSTANTS NPages,    \* pages of the zone
          Slots,     \* chunk sizes: sequence of [type, chunks, reserved]
          MaxRun     \* bound: pages of one request

(* Pointers: 0 is NULL, 1..NPages are page descriptors, -1 is &pool->free, *)
(* -1 - s is &slots[s].                                                    *)
SlabNull == 0

Pages == 1..NPages

FreeHead == -1

SlotHead(s) == -1 - s

Ptrs == (Pages \cup {FreeHead} \cup {SlotHead(s) : s \in DOMAIN Slots})

START == 100     \* NGX_SLAB_PAGE_START

BUSY == 1000     \* NGX_SLAB_PAGE_BUSY

FREE == 0        \* NGX_SLAB_PAGE_FREE

VARIABLES slabM,       \* the zone: next, prev, slab, map, slot, pfree, used, alert
          live     \* what the callers hold: [page, chunk (-1: whole pages), n]

slabVars == <<slabM, live>>

(* prev: pointer and page type *)
P(ptr) == [ptr |-> ptr, type |-> "PAGE"]

PT(ptr, type) == [ptr |-> ptr, type |-> type]

ngx_slab_init ==
    [next |-> [p \in Ptrs |-> CASE p = FreeHead -> 1
                                [] p = 1 -> FreeHead
                                [] p \in Pages \ {1} -> SlabNull
                                [] p < FreeHead -> p],
     prev |-> [p \in Ptrs |-> IF p = 1 THEN P(FreeHead) ELSE P(SlabNull)],
     slab |-> [p \in Pages |-> IF p = 1 THEN NPages ELSE FREE],
     map |-> [p \in Pages |-> {}], slot |-> [p \in Pages |-> 0],
     pfree |-> NPages, used |-> [s \in DOMAIN Slots |-> 0], alert |-> FALSE]

SlabInit == slabM = ngx_slab_init /\ live = {}

-----------------------------------------------------------------------------

(* page leaves the list it is on. *)
Unlink(p, z) ==
    [z EXCEPT !.next[z.prev[p].ptr] = z.next[p], !.prev[z.next[p]] = z.prev[p]]

(* The free runs, in the order of the list. *)
RECURSIVE Walk(_, _)

Walk(p, z) == IF p <= 0 THEN <<>> ELSE <<p>> \o Walk(z.next[p], z)

FreeRuns(z) == Walk(z.next[FreeHead], z)

FirstFit(n, z) ==
    LET runs == FreeRuns(z)
        fit == {i \in DOMAIN runs : z.slab[runs[i]] >= n}
    IN IF fit = {} THEN SlabNull ELSE runs[Min(fit)]

Split(p, n, z) ==
    LET q == p + n
        tail == [z EXCEPT !.prev[p + z.slab[p] - 1] = P(q)]
    IN [tail EXCEPT !.slab[q] = z.slab[p] - n,
                    !.next[q] = tail.next[p], !.prev[q] = tail.prev[p],
                    !.next[tail.prev[p].ptr] = q, !.prev[tail.next[p]] = P(q)]

(* n pages at p, taken out of the free list *)
Taken(p, n, z) ==
    LET out == IF z.slab[p] > n THEN Split(p, n, z) ELSE Unlink(p, z)
    IN [out EXCEPT !.slab = [q \in Pages |-> IF q = p THEN START + n
                                             ELSE IF q \in (p + 1)..(p + n - 1) THEN BUSY
                                             ELSE @[q]],
                   !.next = [q \in Ptrs |-> IF q \in p..(p + n - 1) THEN SlabNull ELSE @[q]],
                   !.prev = [q \in Ptrs |-> IF q \in p..(p + n - 1) THEN P(SlabNull) ELSE @[q]],
                   !.pfree = @ - n]

-----------------------------------------------------------------------------

(* ngx_slab_free_pages: the run behind p joins it, then p joins the run    *)
(* before it; the last page of a free run points to its first one.         *)
JoinNext(p, z) ==
    LET join == p + z.slab[p]
    IN IF join <= NPages /\ z.prev[join].type = "PAGE" /\ z.next[join] # SlabNull
       THEN [Unlink(join, z) EXCEPT !.slab[p] = @ + z.slab[join],
                                    !.slab[join] = FREE, !.next[join] = SlabNull,
                                    !.prev[join] = P(SlabNull)]
       ELSE z

RunBefore(p, z) ==
    IF z.slab[p - 1] = FREE THEN z.prev[p - 1].ptr ELSE p - 1

(* [first page of the run, zone] *)
JoinPrev(p, z) ==
    IF p = 1 \/ z.prev[p - 1].type # "PAGE" THEN [first |-> p, z |-> z]
    ELSE LET join == RunBefore(p, z)
         IN IF z.next[join] # SlabNull
            THEN [first |-> join,
                  z |-> [Unlink(join, z) EXCEPT !.slab[join] = @ + z.slab[p],
                                                !.slab[p] = FREE, !.next[p] = SlabNull,
                                                !.prev[p] = P(SlabNull)]]
            ELSE [first |-> p, z |-> z]

Enlist(p, z) ==
    LET tail == IF z.slab[p] > 1 THEN [z EXCEPT !.prev[p + z.slab[p] - 1] = P(p)] ELSE z
        first == tail.next[FreeHead]
    IN [tail EXCEPT !.prev[p] = P(FreeHead), !.next[p] = first,
                    !.prev[first] = P(p), !.next[FreeHead] = p]

ngx_slab_free_pages(p, n, z) ==
    LET zeroed == [z EXCEPT !.pfree = @ + n,
                            !.slab = [q \in Pages |-> IF q = p THEN n
                                                      ELSE IF q \in (p + 1)..(p + n - 1) THEN FREE
                                                      ELSE @[q]],
                            !.prev = [q \in Ptrs |-> IF q \in (p + 1)..(p + n - 1)
                                                     THEN P(SlabNull) ELSE @[q]],
                            !.map[p] = {}, !.slot[p] = 0]
        alone == IF z.next[p] # SlabNull THEN Unlink(p, zeroed) ELSE zeroed
        joined == JoinPrev(p, JoinNext(p, alone))
    IN Enlist(joined.first, joined.z)

-----------------------------------------------------------------------------

(* ngx_slab_alloc_locked for more than half a page *)
AllocPages(n) ==
    LET p == FirstFit(n, slabM)
    IN IF p = SlabNull THEN UNCHANGED slabVars
       ELSE /\ slabM' = Taken(p, n, slabM)
            /\ live' = live \cup {[page |-> p, chunk |-> -1, n |-> n]}

Chunks(s) == 0..(Slots[s].chunks - 1)

Reserved(s) == 0..(Slots[s].reserved - 1)

(* A chunk of the first page of the slot's list; a page without free       *)
(* chunks leaves the list.                                                 *)
FromSlot(s, p) ==
    LET c == Min(Chunks(s) \ slabM.map[p])
        marked == [slabM EXCEPT !.map[p] = @ \cup {c}, !.used[s] = @ + 1]
    IN /\ slabM' = IF marked.map[p] = Chunks(s)
                   THEN [Unlink(p, marked) EXCEPT !.next[p] = SlabNull,
                                                  !.prev[p] = PT(SlabNull, Slots[s].type)]
                   ELSE marked
       /\ live' = live \cup {[page |-> p, chunk |-> c, n |-> 1]}

FromPageNoBitmap(s, z) ==
    LET p == FirstFit(1, z)
        head == SlotHead(s)
    IN IF p = SlabNull THEN slabM' = z /\ UNCHANGED live
       ELSE /\ slabM' = [Taken(p, 1, z) EXCEPT !.map[p] = {0}, !.slot[p] = s, !.slab[p] = FREE,
                                               !.next[p] = head, !.prev[p] = PT(head, Slots[s].type),
                                               !.next[head] = p, !.used[s] = @ + 1]
            /\ live' = live \cup {[page |-> p, chunk |-> 0, n |-> 1]}

(* A new page for the slot: its bitmap, and the chunk asked for. *)
FromPage(s, z) ==
    LET p == FirstFit(1, z)
        c == Slots[s].reserved
        head == SlotHead(s)
    IN IF p = SlabNull THEN slabM' = z /\ UNCHANGED live
       ELSE /\ slabM' = [Taken(p, 1, z) EXCEPT !.map[p] = 0..c, !.slot[p] = s, !.slab[p] = FREE,
                                               !.next[p] = head, !.prev[p] = PT(head, Slots[s].type),
                                               !.next[head] = p, !.used[s] = @ + 1]
            /\ live' = live \cup {[page |-> p, chunk |-> c, n |-> 1]}

AllocChunk(s) ==
    LET p == slabM.next[SlotHead(s)]
    IN \/ p > 0 /\ slabM.map[p] # Chunks(s) /\ FromSlot(s, p)
       \/ p > 0 /\ slabM.map[p] = Chunks(s) /\ FromPage(s, [slabM EXCEPT !.alert = TRUE])
       \/ p < 0 /\ FromPage(s, slabM)

(* ngx_slab_free_locked of a chunk: a full page comes back to the slot's   *)
(* list, an empty one to the free pages.                                   *)
Relisted(s, p, z) ==
    LET head == SlotHead(s)
        first == z.next[head]
        type == Slots[s].type
    IN [z EXCEPT !.next[p] = first, !.next[head] = p,
                 !.prev[p] = PT(head, type), !.prev[first] = PT(p, type)]

FreeChunk(a) ==
    LET p == a.page
        s == slabM.slot[p]
        full == slabM.next[p] = SlabNull
        back == IF full THEN Relisted(s, p, slabM) ELSE slabM
        cleared == [back EXCEPT !.map[p] = @ \ {a.chunk}, !.used[s] = @ - 1]
    IN /\ a.chunk >= 0
       /\ slabM' = IF cleared.map[p] \subseteq Reserved(s)
                   THEN ngx_slab_free_pages(p, 1, cleared) ELSE cleared
       /\ live' = live \ {a}

FreePages(a) ==
    /\ a.chunk = -1
    /\ slabM' = ngx_slab_free_pages(a.page, slabM.slab[a.page] - START, slabM)
    /\ live' = live \ {a}

SlabNext ==
        \/ \E n \in 1..MaxRun : AllocPages(n)
        \/ \E s \in DOMAIN Slots : AllocChunk(s)
        \/ \E a \in live : FreeChunk(a) \/ FreePages(a)

SlabSpec == SlabInit /\ [][SlabNext]_slabVars

-----------------------------------------------------------------------------

SlabRun(p) == p..(p + slabM.slab[p] - 1)

UsedPages == UNION {a.page..(a.page + a.n - 1) : a \in live}

(* What the callers hold never overlaps: neither two allocations, nor an   *)
(* allocation and the bitmap a page of small chunks keeps in itself, nor   *)
(* an allocation and a free run.                                           *)
NoOverlap ==
    /\ \A a, b \in live : a # b =>
         \/ (a.page..(a.page + a.n - 1)) \cap (b.page..(b.page + b.n - 1)) = {}
         \/ a.page = b.page /\ a.chunk # b.chunk /\ a.chunk >= 0 /\ b.chunk >= 0
    /\ \A a \in live : a.chunk >= 0 => a.chunk \notin Reserved(slabM.slot[a.page])
    /\ UsedPages \subseteq Pages

(* The free list holds exactly the pages nobody uses, each once, as runs   *)
(* whose last page points to the first, and pool->pfree counts them.       *)
FreeListIsExact ==
    LET runs == FreeRuns(slabM)
    IN /\ UNION {SlabRun(runs[i]) : i \in DOMAIN runs} = Pages \ UsedPages
       /\ \A i, j \in DOMAIN runs : i # j => SlabRun(runs[i]) \cap SlabRun(runs[j]) = {}
       /\ slabM.pfree = Cardinality(Pages \ UsedPages)

(* Joining is complete: no free run ends where another begins, so that a   *)
(* request fails only if no run of that length is free, and a zone that is *)
(* emptied is one run again.                                               *)
FullyJoined ==
    LET runs == FreeRuns(slabM)
    IN \A i, j \in DOMAIN runs : runs[i] + slabM.slab[runs[i]] # runs[j]

(* A slot's list is the pages of that size with a free chunk: the first    *)
(* page of the list can always serve ("page is busy" is never logged), and *)
(* the chunks in use are those the callers hold.                           *)
SlotsAreExact ==
    /\ ~slabM.alert
    /\ \A s \in DOMAIN Slots :
         LET list == Walk(slabM.next[SlotHead(s)], slabM)
         IN /\ {list[i] : i \in DOMAIN list} =
                 {p \in Pages : slabM.slot[p] = s /\ slabM.map[p] # Chunks(s)}
            /\ slabM.used[s] = Cardinality({a \in live : a.chunk >= 0 /\ slabM.slot[a.page] = s})
=============================================================================
