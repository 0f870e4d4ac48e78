------------------------------- MODULE Locks --------------------------------
(***************************************************************************)
(* The locks in shared memory: the mutex of ngx_shmtx.c and the lock word  *)
(* for readers and writers of ngx_rwlock.c.                                *)
(***************************************************************************)
EXTENDS Integers, FiniteSets

(***************************************************************************)
(* core/ngx_shmtx.c with atomic operations and POSIX semaphores: the mutex *)
(* in shared memory behind the accept mutex and every slab pool, with the  *)
(* master that unlocks it for a worker that died (ngx_unlock_mutexes).     *)
(* Every step of a process is one access to shared memory, so "read, then  *)
(* compare and set" of a free lock is one step that fails or succeeds.     *)
(*                                                                         *)
(*   lock   *mtx->lock: the owner's pid, Nobody for 0                      *)
(*   wait   *mtx->wait, which may be negative for a moment                 *)
(*   sem    the value of mtx->sem                                          *)
(*   pc     where each process is; the master is a process of its own      *)
(*   seen   the value of *mtx->wait that ngx_shmtx_wakeup has read         *)
(***************************************************************************)

CONSTANTS Workers, Master, Nobody,
          CrashAt       \* the places where a worker may be killed

ASSUME NamesAssumption == Master \notin Workers /\ Nobody \notin Workers

ASSUME WorkersFinite == IsFiniteSet(Workers)

VARIABLES lock, wait, sem, pc, seen

vars == <<lock, wait, sem, pc, seen>>

Procs == Workers \cup {Master}

Init ==
    /\ lock = Nobody
    /\ wait = 0
    /\ sem = 0
    /\ pc = [p \in Procs |-> "idle"]
    /\ seen = [p \in Procs |-> 0]

Goto(p, from, to) == pc[p] = from /\ pc' = [pc EXCEPT ![p] = to]

(* *mtx->lock == 0 && ngx_atomic_cmp_set(mtx->lock, 0, ngx_pid)            *)
Acquire(p) == lock = Nobody /\ lock' = p

(* ngx_shmtx_trylock *)
TryLock(p) ==
    /\ \/ Goto(p, "idle", "held") /\ Acquire(p)
       \/ Goto(p, "idle", "idle") /\ lock # Nobody /\ UNCHANGED lock
    /\ UNCHANGED <<wait, sem, seen>>

(* ngx_shmtx_lock: a first attempt and the spinning, which is any number   *)
(* of further attempts.                                                    *)
Lock(p) ==
    /\ \/ Goto(p, "idle", "held") /\ Acquire(p)
       \/ Goto(p, "idle", "spin") /\ lock # Nobody /\ UNCHANGED lock
    /\ UNCHANGED <<wait, sem, seen>>

Spin(p) ==
    /\ Goto(p, "spin", "held")
    /\ Acquire(p)
    /\ UNCHANGED <<wait, sem, seen>>

(* ngx_atomic_fetch_add(mtx->wait, 1) *)
AddWait(p) ==
    /\ Goto(p, "spin", "waiting")
    /\ wait' = wait + 1
    /\ UNCHANGED <<lock, sem, seen>>

(* The lock is looked at once more before the process sleeps.              *)
RecheckNever(p) ==
    /\ Goto(p, "waiting", "asleep")
    /\ UNCHANGED <<lock, wait, sem, seen>>

Recheck(p) ==
    /\ \/ Goto(p, "waiting", "undo") /\ Acquire(p)
       \/ Goto(p, "waiting", "asleep") /\ lock # Nobody /\ UNCHANGED lock
    /\ UNCHANGED <<wait, sem, seen>>

(* ngx_atomic_fetch_add(mtx->wait, -1) *)
UndoWait(p) ==
    /\ Goto(p, "undo", "held")
    /\ wait' = wait - 1
    /\ UNCHANGED <<lock, sem, seen>>

(* sem_wait returns, and the loop starts over.                             *)
SemWait(p) ==
    /\ sem > 0
    /\ sem' = sem - 1
    /\ \/ Goto(p, "asleep", "held") /\ Acquire(p)
       \/ Goto(p, "asleep", "spin") /\ lock # Nobody /\ UNCHANGED lock
    /\ UNCHANGED <<wait, seen>>

(* ngx_shmtx_unlock, then ngx_shmtx_wakeup                                 *)
Unlock(p) ==
    /\ Goto(p, "held", "wakeup")
    /\ lock' = IF lock = p THEN Nobody ELSE lock
    /\ UNCHANGED <<wait, sem, seen>>

ReadWait(p) ==
    /\ seen' = [seen EXCEPT ![p] = IF wait <= 0 THEN 0 ELSE wait]
    /\ IF wait <= 0 THEN Goto(p, "wakeup", "idle") ELSE Goto(p, "wakeup", "cas")
    /\ UNCHANGED <<lock, wait, sem>>

TakeWait(p) ==
    /\ IF wait = seen[p]
       THEN Goto(p, "cas", "post") /\ wait' = wait - 1
       ELSE Goto(p, "cas", "wakeup") /\ UNCHANGED wait
    /\ UNCHANGED <<lock, sem, seen>>

SemPost(p) ==
    /\ Goto(p, "post", "idle")
    /\ sem' = sem + 1
    /\ UNCHANGED <<lock, wait, seen>>

(* A worker is killed; a process that sleeps leaves its wait behind.       *)
Crash(p) ==
    /\ pc[p] \in CrashAt
    /\ pc' = [pc EXCEPT ![p] = "dead"]
    /\ UNCHANGED <<lock, wait, sem, seen>>

(* ngx_process_get_status, ngx_unlock_mutexes and ngx_shmtx_force_unlock:  *)
(* the master frees the lock if the dead worker had it, wakes a waiter and *)
(* starts a worker in its place.                                           *)
ReapAnyOwner(p) ==
    /\ pc[p] = "dead" /\ pc[Master] = "idle"
    /\ lock' = Nobody
    /\ pc' = [pc EXCEPT ![p] = "idle"]
    /\ UNCHANGED <<wait, sem, seen>>

ReapSilently(p) ==
    /\ pc[p] = "dead" /\ pc[Master] = "idle"
    /\ lock' = IF lock = p THEN Nobody ELSE lock
    /\ pc' = [pc EXCEPT ![p] = "idle"]
    /\ UNCHANGED <<wait, sem, seen>>

Reap(p) ==
    /\ pc[p] = "dead" /\ pc[Master] = "idle"
    /\ IF lock = p
       THEN /\ lock' = Nobody
            /\ pc' = [pc EXCEPT ![p] = "idle", ![Master] = "wakeup"]
       ELSE /\ pc' = [pc EXCEPT ![p] = "idle"]
            /\ UNCHANGED lock
    /\ UNCHANGED <<wait, sem, seen>>

Wakeup(p) == ReadWait(p) \/ TakeWait(p) \/ SemPost(p)

Step(p) == Spin(p) \/ AddWait(p) \/ Recheck(p) \/ UndoWait(p) \/ SemWait(p) \/ Unlock(p) \/ Wakeup(p)

Next ==
    \/ \E p \in Workers : Lock(p) \/ TryLock(p) \/ Step(p) \/ Crash(p) \/ Reap(p)
    \/ Wakeup(Master)

Spec == Init /\ [][Next]_vars

-----------------------------------------------------------------------------

Inside == {"held", "undo"}

(* ngx_shmtx_lock and ngx_shmtx_trylock: never two processes hold the      *)
(* mutex, and the lock word names the one that does, also when holders and *)
(* waiters are killed and the master unlocks for them.                     *)
MutualExclusion == \A p \in Workers : pc[p] \in Inside => lock = p

(* What is waited for and what is posted balance: the counter, the         *)
(* semaphore and the wakeups under way make up exactly the processes that  *)
(* have announced that they wait; a wakeup for a process that got the lock *)
(* by itself is left for the next one.                                     *)
WaitBalance ==
    wait + sem + Cardinality({p \in Procs : pc[p] = "post"})
        = Cardinality({p \in Procs : pc[p] \in {"waiting", "undo", "asleep"}})

(* No lost wakeup: while a process sleeps on the semaphore somebody holds  *)
(* the lock, is on the way to wake it, or is awake and about to take it;   *)
(* or its holder is dead and will be reaped.                               *)
SleeperIsSeen ==
    (\E p \in Workers : pc[p] = "asleep") =>
        \/ sem > 0 \/ lock # Nobody
        \/ \E p \in Procs : pc[p] \in {"wakeup", "cas", "post"}

(* The wakeups of ngx_shmtx_wakeup are exact: none is lost, so a sleeper   *)
(* is always seen, and none is posted twice, so the semaphore never lets   *)
(* in more processes than have announced themselves.                       *)
NoLostWakeup == WaitBalance /\ SleeperIsSeen

(* Whenever processes wait for the lock, one gets it in the end, or those  *)
(* that waited were killed.                                                *)
LockMoves ==
    (\E p \in Workers : pc[p] \in {"spin", "waiting", "asleep"})
        ~> \/ \E p \in Workers : pc[p] \in Inside
           \/ \A p \in Workers : pc[p] \notin {"spin", "waiting", "asleep"}

-----------------------------------------------------------------------------

(***************************************************************************)
(* core/ngx_rwlock.c: the spinning read-write lock that protects the peers *)
(* of an upstream in shared memory.  One word: the number of readers, or   *)
(* WLock.  Each step of a process is one access to that word.              *)
(***************************************************************************)

CONSTANTS RwProcs

ASSUME RwProcsFinite == IsFiniteSet(RwProcs)

VARIABLES rwLock,   \* *lock
          rwPc,     \* what each process holds or is doing
          rwSeen    \* "readers": the value it has read

rwVars == <<rwLock, rwPc, rwSeen>>

WLock == -1

RwInit ==
      /\ rwLock = 0
      /\ rwPc = [p \in RwProcs |-> "idle"]
      /\ rwSeen = [p \in RwProcs |-> 0]

RwGoto(p, from, to) == rwPc[p] = from /\ rwPc' = [rwPc EXCEPT ![p] = to]

(* ngx_rwlock_wlock: the attempt that succeeds; the others change nothing. *)
WriteLock(p) ==
    /\ RwGoto(p, "idle", "write")
    /\ rwLock = 0 /\ rwLock' = WLock
    /\ UNCHANGED rwSeen

(* ngx_rwlock_rlock: the word is read, then compared and set.              *)
ReadWord(p) ==
    /\ RwGoto(p, "idle", "cas")
    /\ rwSeen' = [rwSeen EXCEPT ![p] = rwLock]
    /\ UNCHANGED rwLock

ReadLockUnchecked(p) ==
    /\ RwGoto(p, "cas", "read")
    /\ rwSeen[p] # WLock
    /\ rwLock' = rwSeen[p] + 1
    /\ UNCHANGED rwSeen

ReadLock(p) ==
    /\ IF rwSeen[p] # WLock /\ rwLock = rwSeen[p]
       THEN RwGoto(p, "cas", "read") /\ rwLock' = rwLock + 1
       ELSE RwGoto(p, "cas", "idle") /\ UNCHANGED rwLock
    /\ UNCHANGED rwSeen

(* ngx_rwlock_unlock *)
UnlockRead(p) ==
    /\ \/ RwGoto(p, "read", "unlock") \/ RwGoto(p, "write", "unlock")
    /\ rwSeen' = [rwSeen EXCEPT ![p] = rwLock]
    /\ UNCHANGED rwLock

UnlockSet(p) ==
    /\ IF rwSeen[p] = WLock
       THEN /\ RwGoto(p, "unlock", "idle")
            /\ rwLock' = IF rwLock = WLock THEN 0 ELSE rwLock
            /\ UNCHANGED rwSeen
       ELSE IF rwLock = rwSeen[p]
       THEN RwGoto(p, "unlock", "idle") /\ rwLock' = rwLock - 1 /\ UNCHANGED rwSeen
       ELSE /\ rwPc[p] = "unlock" /\ rwSeen' = [rwSeen EXCEPT ![p] = rwLock]
            /\ UNCHANGED <<rwPc, rwLock>>

(* ngx_rwlock_downgrade *)
DowngradeFree(p) ==
    /\ RwGoto(p, "write", "read")
    /\ rwLock' = 0
    /\ UNCHANGED rwSeen

Downgrade(p) ==
    /\ RwGoto(p, "write", "read")
    /\ rwLock' = IF rwLock = WLock THEN 1 ELSE rwLock
    /\ UNCHANGED rwSeen

RwNext == \E p \in RwProcs : \/ WriteLock(p) \/ ReadWord(p) \/ ReadLock(p)
                             \/ UnlockRead(p) \/ UnlockSet(p) \/ Downgrade(p)

RwSpec == RwInit /\ [][RwNext]_rwVars

-----------------------------------------------------------------------------

Writers == {p \in RwProcs : rwPc[p] = "write" \/ (rwPc[p] = "unlock" /\ rwSeen[p] = WLock)}

Readers == {p \in RwProcs : rwPc[p] = "read" \/ (rwPc[p] = "unlock" /\ rwSeen[p] # WLock)}

(* A writer is alone; readers share; and the word is exact, so a reader    *)
(* that unlocks while others come and go, or a writer that downgrades,     *)
(* neither loses nor invents a reader.                                     *)
WordIsExact ==
    /\ Writers # {} => Cardinality(Writers) = 1 /\ Readers = {} /\ rwLock = WLock
    /\ Writers = {} => rwLock = Cardinality(Readers)

(* While a process holds the lock for reading no process writes: from      *)
(* ngx_rwlock_downgrade on the holder keeps seeing what it wrote.          *)
NoWriteUnderReader ==
    [][Readers # {} => \A p \in RwProcs : rwPc'[p] = "write" => rwPc[p] = "write"]_rwVars
=============================================================================
