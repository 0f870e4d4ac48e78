---------------------------- MODULE LocksProofs ----------------------------
(***************************************************************************)
(* The mutex in shared memory excludes, for every set of workers and for   *)
(* workers killed at any place.                                            *)
(***************************************************************************)
EXTENDS Locks, FiniteSetTheorems, TLAPS

(* MutualExclusion is inductive together with the shape of pc.             *)
Places == {"idle", "spin", "waiting", "undo", "asleep", "held",
           "wakeup", "cas", "post", "dead"}

Inv == /\ pc \in [Procs -> Places]
       /\ MutualExclusion

(* Every step of one process keeps the lock word on the process inside.    *)
LEMMA StepKeepsInv ==
    ASSUME Inv, NEW p \in Workers, Lock(p) \/ TryLock(p) \/ Step(p) \/ Crash(p) \/ Reap(p)
    PROVE  Inv'
<1> USE NamesAssumption DEF Inv, Places, MutualExclusion, Inside, Procs, Goto
<1>1. CASE Lock(p) BY <1>1 DEF Lock, Acquire
<1>2. CASE TryLock(p) BY <1>2 DEF TryLock, Acquire
<1>3. CASE Spin(p) BY <1>3 DEF Spin, Acquire
<1>4. CASE AddWait(p) BY <1>4 DEF AddWait
<1>5. CASE Recheck(p) BY <1>5 DEF Recheck, Acquire
<1>6. CASE UndoWait(p) BY <1>6 DEF UndoWait
<1>7. CASE SemWait(p) BY <1>7 DEF SemWait, Acquire
<1>8. CASE Unlock(p) BY <1>8 DEF Unlock
<1>9. CASE Wakeup(p) BY <1>9 DEF Wakeup, ReadWait, TakeWait, SemPost
<1>10. CASE Crash(p) BY <1>10 DEF Crash
<1>11. CASE Reap(p)
  <2>1. pc[p] = "dead" BY <1>11 DEF Reap
  <2>2. CASE lock = p
    <3>1. \A q \in Workers : pc[q] \notin {"held", "undo"} BY <2>1, <2>2
    <3>2. pc' = [pc EXCEPT ![p] = "idle", ![Master] = "wakeup"] BY <1>11, <2>2 DEF Reap
    <3>3. QED BY <3>1, <3>2
  <2>3. CASE lock # p
    <3>1. pc' = [pc EXCEPT ![p] = "idle"] /\ lock' = lock BY <1>11, <2>3 DEF Reap
    <3>2. QED BY <3>1
  <2>4. QED BY <2>2, <2>3
<1>12. QED BY <1>1, <1>2, <1>3, <1>4, <1>5, <1>6, <1>7, <1>8, <1>9, <1>10, <1>11 DEF Step

(* So does the wakeup that the master makes for a dead worker.             *)
LEMMA MasterKeepsInv ==
    ASSUME Inv, Wakeup(Master)
    PROVE  Inv'
BY NamesAssumption
   DEF Inv, Places, MutualExclusion, Inside, Procs, Goto, Wakeup, ReadWait, TakeWait, SemPost

(* ngx_shmtx_lock, ngx_shmtx_trylock and ngx_shmtx_force_unlock: never two *)
(* processes hold the mutex, whatever the number of workers and wherever   *)
(* they are killed.                                                        *)
THEOREM ShmtxExcludes == Spec => []MutualExclusion
<1>1. Init => Inv
  BY DEF Init, Inv, Places, MutualExclusion, Inside, Procs
<1>2. Inv /\ [Next]_vars => Inv'
  <2> SUFFICES ASSUME Inv, [Next]_vars PROVE Inv'
    OBVIOUS
  <2>1. CASE \E p \in Workers : Lock(p) \/ TryLock(p) \/ Step(p) \/ Crash(p) \/ Reap(p)
    BY <2>1, StepKeepsInv
  <2>2. CASE Wakeup(Master) BY <2>2, MasterKeepsInv
  <2>3. CASE UNCHANGED vars
    BY <2>3 DEF vars, Inv, Places, MutualExclusion, Inside
  <2>4. QED BY <2>1, <2>2, <2>3 DEF Next
<1>3. Inv => MutualExclusion BY DEF Inv
<1>4. QED BY <1>1, <1>2, <1>3, PTL DEF Spec

-----------------------------------------------------------------------------

(* The processes that have announced that they wait, and the wakeups that  *)
(* have been taken from the counter and are not posted yet: the two sides  *)
(* of WaitBalance.                                                         *)
Posting == {p \in Procs : pc[p] = "post"}

Announced == {p \in Procs : pc[p] \in {"waiting", "undo", "asleep"}}

(* The places where a kill loses nothing: a worker that dies between the   *)
(* two accesses of ngx_shmtx_wakeup takes the wakeup with it, and one that *)
(* dies asleep leaves its wait behind.                                     *)
HarmlessPlaces == {"idle", "spin", "held"}

(* The balance, with the type of the counters, is inductive by itself.     *)
Balance == /\ pc \in [Procs -> Places]
           /\ wait \in Int
           /\ sem \in Nat
           /\ wait + sem + Cardinality(Posting) = Cardinality(Announced)

LEMMA ProcsFinite == IsFiniteSet(Procs)
BY WorkersFinite, FS_AddElement DEF Procs

(* Both sides are finite, so that a process which enters or leaves one     *)
(* changes its cardinality by one.                                         *)
LEMMA SidesCounted ==
    /\ IsFiniteSet(Posting) /\ Cardinality(Posting) \in Nat
    /\ IsFiniteSet(Announced) /\ Cardinality(Announced) \in Nat
<1>1. Posting \subseteq Procs /\ Announced \subseteq Procs BY DEF Posting, Announced
<1>2. IsFiniteSet(Posting) /\ IsFiniteSet(Announced) BY <1>1, ProcsFinite, FS_Subset
<1>3. QED BY <1>2, FS_CardinalityType

LEMMA EntersPlace ==
    ASSUME NEW S, IsFiniteSet(S), NEW p, p \notin S
    PROVE  Cardinality(S \cup {p}) = Cardinality(S) + 1
BY FS_AddElement

LEMMA LeavesPlace ==
    ASSUME NEW S, IsFiniteSet(S), NEW p, p \in S
    PROVE  Cardinality(S \ {p}) = Cardinality(S) - 1
BY FS_RemoveElement

(* One process moves from one place to another.                            *)
Moves(p, from, to) == pc[p] = from /\ pc' = [pc EXCEPT ![p] = to]

(* What a move does to the two sides.                                      *)
LEMMA MoveSides ==
    ASSUME pc \in [Procs -> Places], NEW p \in Procs,
           NEW from \in Places, NEW to \in Places, Moves(p, from, to)
    PROVE  /\ pc' \in [Procs -> Places]
           /\ Posting' = IF to = "post" THEN Posting \cup {p} ELSE Posting \ {p}
           /\ Announced' = IF to \in {"waiting", "undo", "asleep"}
                           THEN Announced \cup {p} ELSE Announced \ {p}
           /\ p \in Posting <=> from = "post"
           /\ p \in Announced <=> from \in {"waiting", "undo", "asleep"}
<1>1. pc' \in [Procs -> Places] BY DEF Moves
<1>2. \A q \in Procs : pc'[q] = IF q = p THEN to ELSE pc[q] BY DEF Moves
<1>3. Posting' = IF to = "post" THEN Posting \cup {p} ELSE Posting \ {p}
  BY <1>2 DEF Posting
<1>4. Announced' = IF to \in {"waiting", "undo", "asleep"}
                   THEN Announced \cup {p} ELSE Announced \ {p}
  BY <1>2 DEF Announced
<1>5. QED BY <1>1, <1>3, <1>4 DEF Posting, Announced, Moves

(* The change of the two cardinalities that a move makes.                  *)
LEMMA MoveCounts ==
    ASSUME pc \in [Procs -> Places], NEW p \in Procs,
           NEW from \in Places, NEW to \in Places, Moves(p, from, to)
    PROVE  /\ pc' \in [Procs -> Places]
           /\ Cardinality(Posting') = Cardinality(Posting)
                + (IF to = "post" THEN 1 ELSE 0) - (IF from = "post" THEN 1 ELSE 0)
           /\ Cardinality(Announced') = Cardinality(Announced)
                + (IF to \in {"waiting", "undo", "asleep"} THEN 1 ELSE 0)
                - (IF from \in {"waiting", "undo", "asleep"} THEN 1 ELSE 0)
<1> DEFINE Waits == {"waiting", "undo", "asleep"}
<1>1. /\ pc' \in [Procs -> Places]
      /\ Posting' = IF to = "post" THEN Posting \cup {p} ELSE Posting \ {p}
      /\ Announced' = IF to \in Waits THEN Announced \cup {p} ELSE Announced \ {p}
      /\ p \in Posting <=> from = "post"
      /\ p \in Announced <=> from \in Waits
  BY MoveSides
<1> HIDE DEF Waits
<1>2. Cardinality(Posting') = Cardinality(Posting)
        + (IF to = "post" THEN 1 ELSE 0) - (IF from = "post" THEN 1 ELSE 0)
  <2>1. CASE from = "post" /\ to = "post"
    <3>1. Posting' = Posting BY <1>1, <2>1
    <3>2. QED BY <3>1, <2>1, SidesCounted
  <2>2. CASE from # "post" /\ to = "post"
    BY <1>1, <2>2, SidesCounted, EntersPlace
  <2>3. CASE from = "post" /\ to # "post"
    BY <1>1, <2>3, SidesCounted, LeavesPlace
  <2>4. CASE from # "post" /\ to # "post"
    <3>1. Posting' = Posting BY <1>1, <2>4
    <3>2. QED BY <3>1, <2>4, SidesCounted
  <2>5. QED BY <2>1, <2>2, <2>3, <2>4
<1>3. Cardinality(Announced') = Cardinality(Announced)
        + (IF to \in Waits THEN 1 ELSE 0) - (IF from \in Waits THEN 1 ELSE 0)
  <2>1. CASE from \in Waits /\ to \in Waits
    <3>1. Announced' = Announced BY <1>1, <2>1
    <3>2. QED BY <3>1, <2>1, SidesCounted
  <2>2. CASE from \notin Waits /\ to \in Waits
    BY <1>1, <2>2, SidesCounted, EntersPlace
  <2>3. CASE from \in Waits /\ to \notin Waits
    BY <1>1, <2>3, SidesCounted, LeavesPlace
  <2>4. CASE from \notin Waits /\ to \notin Waits
    <3>1. Announced' = Announced BY <1>1, <2>4
    <3>2. QED BY <3>1, <2>4, SidesCounted
  <2>5. QED BY <2>1, <2>2, <2>3, <2>4
<1>4. QED BY <1>1, <1>2, <1>3 DEF Waits

(* The balance is kept by the wakeup of a process, the master's included.  *)
LEMMA WakeupBalances ==
    ASSUME Balance, NEW p \in Procs, Wakeup(p)
    PROVE  Balance'
<1> USE DEF Balance, Places
<1>1. CASE ReadWait(p)
  <2>1. \/ Moves(p, "wakeup", "idle") \/ Moves(p, "wakeup", "cas")
    BY <1>1 DEF ReadWait, Goto, Moves
  <2>2. wait' = wait /\ sem' = sem BY <1>1 DEF ReadWait
  <2>3. QED BY <2>1, <2>2, MoveCounts, SidesCounted
<1>2. CASE TakeWait(p)
  <2>1. \/ Moves(p, "cas", "post") /\ wait' = wait - 1
        \/ Moves(p, "cas", "wakeup") /\ wait' = wait
    BY <1>2 DEF TakeWait, Goto, Moves
  <2>2. sem' = sem BY <1>2 DEF TakeWait
  <2>3. QED BY <2>1, <2>2, MoveCounts, SidesCounted
<1>3. CASE SemPost(p)
  <2>1. Moves(p, "post", "idle") /\ wait' = wait /\ sem' = sem + 1
    BY <1>3 DEF SemPost, Goto, Moves
  <2>2. QED BY <2>1, MoveCounts, SidesCounted
<1>4. QED BY <1>1, <1>2, <1>3 DEF Wakeup

(* The balance is kept by every step of a worker that is killed, if at     *)
(* all, at a harmless place.                                               *)
LEMMA StepBalances ==
    ASSUME Balance, CrashAt \subseteq HarmlessPlaces, NEW p \in Workers,
           Lock(p) \/ TryLock(p) \/ Step(p) \/ Crash(p) \/ Reap(p)
    PROVE  Balance'
<1> USE DEF Balance, Places
<1>0. p \in Procs /\ Master \in Procs BY DEF Procs
<1>1. CASE Lock(p) \/ TryLock(p)
  <2>1. /\ \/ Moves(p, "idle", "held") \/ Moves(p, "idle", "spin") \/ Moves(p, "idle", "idle")
        /\ wait' = wait /\ sem' = sem
    BY <1>1 DEF Lock, TryLock, Goto, Moves
  <2>2. QED BY <1>0, <2>1, MoveCounts, SidesCounted
<1>2. CASE Spin(p)
  <2>1. Moves(p, "spin", "held") /\ wait' = wait /\ sem' = sem BY <1>2 DEF Spin, Goto, Moves
  <2>2. QED BY <1>0, <2>1, MoveCounts, SidesCounted
<1>3. CASE AddWait(p)
  <2>1. Moves(p, "spin", "waiting") /\ wait' = wait + 1 /\ sem' = sem
    BY <1>3 DEF AddWait, Goto, Moves
  <2>2. QED BY <1>0, <2>1, MoveCounts, SidesCounted
<1>4. CASE Recheck(p)
  <2>1. /\ Moves(p, "waiting", "undo") \/ Moves(p, "waiting", "asleep")
        /\ wait' = wait /\ sem' = sem
    BY <1>4 DEF Recheck, Goto, Moves
  <2>2. QED BY <1>0, <2>1, MoveCounts, SidesCounted
<1>5. CASE UndoWait(p)
  <2>1. Moves(p, "undo", "held") /\ wait' = wait - 1 /\ sem' = sem
    BY <1>5 DEF UndoWait, Goto, Moves
  <2>2. QED BY <1>0, <2>1, MoveCounts, SidesCounted
<1>6. CASE SemWait(p)
  <2>1. /\ Moves(p, "asleep", "held") \/ Moves(p, "asleep", "spin")
        /\ wait' = wait /\ sem' = sem - 1 /\ sem > 0
    BY <1>6 DEF SemWait, Goto, Moves
  <2>2. QED BY <1>0, <2>1, MoveCounts, SidesCounted
<1>7. CASE Unlock(p)
  <2>1. Moves(p, "held", "wakeup") /\ wait' = wait /\ sem' = sem
    BY <1>7 DEF Unlock, Goto, Moves
  <2>2. QED BY <1>0, <2>1, MoveCounts, SidesCounted
<1>8. CASE Wakeup(p) BY <1>0, <1>8, WakeupBalances
<1>9. CASE Crash(p)
  <2>1. pc[p] \in HarmlessPlaces /\ Moves(p, pc[p], "dead") /\ wait' = wait /\ sem' = sem
    BY <1>9 DEF Crash, Moves
  <2>2. /\ pc[p] \in Places /\ pc[p] # "post" /\ pc[p] \notin {"waiting", "undo", "asleep"}
    BY <2>1 DEF HarmlessPlaces
  <2>3. QED BY <1>0, <2>1, <2>2, MoveCounts, SidesCounted
<1>10. CASE Reap(p)
  <2>1. /\ pc[p] = "dead" /\ pc[Master] = "idle" /\ wait' = wait /\ sem' = sem
        /\ \/ pc' = [pc EXCEPT ![p] = "idle", ![Master] = "wakeup"]
           \/ pc' = [pc EXCEPT ![p] = "idle"]
    BY <1>10 DEF Reap
  <2>2. pc' \in [Procs -> Places] BY <1>0, <2>1
  <2>3. \A q \in Procs : pc'[q] # pc[q] =>
            pc[q] \in {"dead", "idle"} /\ pc'[q] \in {"idle", "wakeup"}
    BY <1>0, <2>1
  <2>4. Posting' = Posting /\ Announced' = Announced BY <2>3 DEF Posting, Announced
  <2>5. QED BY <2>1, <2>2, <2>4
<1>11. QED BY <1>1, <1>2, <1>3, <1>4, <1>5, <1>6, <1>7, <1>8, <1>9, <1>10 DEF Step

(* Inductive: exclusion, because the lock word of a holder is what keeps   *)
(* the sleepers seen, the balance, because it finds the wakeup under way   *)
(* when ngx_shmtx_wakeup reads a counter that is not positive, and the     *)
(* property itself.                                                        *)
WakeupInv == Inv /\ Balance /\ SleeperIsSeen

(* Whoever sleeps is announced.                                            *)
LEMMA SleeperAnnounced ==
    ASSUME Balance, NEW p \in Workers, pc[p] = "asleep"
    PROVE  Cardinality(Announced) > 0
<1>1. p \in Announced BY DEF Announced, Procs
<1>2. Announced # {} BY <1>1
<1>3. QED BY <1>2, SidesCounted, FS_EmptySet

(* ngx_shmtx_wakeup keeps every sleeper seen: it gives up only when the    *)
(* wakeups posted and under way are at least as many as the sleepers.      *)
LEMMA WakeupKeepsSeen ==
    ASSUME WakeupInv, NEW p \in Procs, Wakeup(p)
    PROVE  SleeperIsSeen'
<1> USE DEF WakeupInv
<1>1. SUFFICES ASSUME NEW q \in Workers, pc'[q] = "asleep"
               PROVE  \/ sem' > 0 \/ lock' # Nobody
                      \/ \E r \in Procs : pc'[r] \in {"wakeup", "cas", "post"}
  BY DEF SleeperIsSeen
<1>0. pc \in [Procs -> Places] /\ q \in Procs BY DEF Balance, Procs
<1>2. CASE ReadWait(p) /\ wait <= 0
  <2>1. pc' = [pc EXCEPT ![p] = "idle"] /\ pc[p] = "wakeup" /\ sem' = sem /\ wait' = wait
    BY <1>2 DEF ReadWait, Goto
  <2>2. pc[q] = "asleep" BY <1>0, <1>1, <2>1
  <2>3. sem + Cardinality(Posting) > 0
    BY <1>2, <2>2, SleeperAnnounced, SidesCounted DEF Balance
  <2>4. CASE sem > 0 BY <2>1, <2>4
  <2>5. CASE Cardinality(Posting) > 0
    <3>1. PICK r \in Procs : pc[r] = "post" BY <2>5, FS_EmptySet DEF Posting
    <3>2. pc'[r] = "post" BY <1>0, <2>1, <3>1
    <3>3. QED BY <3>2
  <2>6. QED BY <2>3, <2>4, <2>5, SidesCounted DEF Balance
<1>3. CASE (ReadWait(p) /\ ~(wait <= 0)) \/ TakeWait(p)
  <2>1. pc'[p] \in {"wakeup", "cas", "post"} BY <1>0, <1>3 DEF ReadWait, TakeWait, Goto
  <2>2. QED BY <2>1
<1>4. CASE SemPost(p) BY <1>4 DEF SemPost, Balance
<1>5. QED BY <1>2, <1>3, <1>4 DEF Wakeup

(* So does every step of a worker.                                         *)
LEMMA StepKeepsSeen ==
    ASSUME WakeupInv, CrashAt \subseteq HarmlessPlaces, NEW p \in Workers,
           Lock(p) \/ TryLock(p) \/ Step(p) \/ Crash(p) \/ Reap(p)
    PROVE  SleeperIsSeen'
<1> USE NamesAssumption DEF WakeupInv
<1>0. /\ pc \in [Procs -> Places] /\ Workers \subseteq Procs /\ Master \in Procs
      /\ MutualExclusion /\ SleeperIsSeen
  BY DEF Balance, Procs, Inv
<1>1. CASE Lock(p) \/ TryLock(p) \/ Spin(p) \/ Recheck(p) \/ SemWait(p)
  <2>1. lock' # Nobody BY <1>1 DEF Lock, TryLock, Spin, Recheck, SemWait, Acquire
  <2>2. QED BY <2>1 DEF SleeperIsSeen
<1>2. CASE AddWait(p) \/ UndoWait(p) \/ Crash(p)
  <2>1. /\ lock' = lock /\ sem' = sem
        /\ \E to \in Places \ {"asleep"} : pc' = [pc EXCEPT ![p] = to]
        /\ pc[p] \notin {"wakeup", "cas", "post"}
    BY <1>2 DEF AddWait, UndoWait, Crash, Goto, Places, HarmlessPlaces
  <2>2. \A q \in Workers : pc'[q] = "asleep" => pc[q] = "asleep" BY <1>0, <2>1
  <2>3. \A q \in Procs : pc[q] \in {"wakeup", "cas", "post"} => pc'[q] = pc[q] BY <1>0, <2>1
  <2>4. QED BY <1>0, <2>1, <2>2, <2>3 DEF SleeperIsSeen
<1>3. CASE Unlock(p)
  <2>1. pc'[p] = "wakeup" BY <1>0, <1>3 DEF Unlock, Goto
  <2>2. QED BY <1>0, <2>1 DEF SleeperIsSeen
<1>4. CASE Wakeup(p) BY <1>0, <1>4, WakeupKeepsSeen
<1>5. CASE Reap(p)
  <2>1. pc[p] = "dead" /\ pc[Master] = "idle" /\ sem' = sem BY <1>5 DEF Reap
  <2>2. CASE lock = p
    <3>1. pc'[Master] = "wakeup" BY <1>0, <1>5, <2>2 DEF Reap
    <3>2. QED BY <1>0, <3>1 DEF SleeperIsSeen
  <2>3. CASE lock # p
    <3>1. lock' = lock /\ pc' = [pc EXCEPT ![p] = "idle"] BY <1>5, <2>3 DEF Reap
    <3>2. \A q \in Workers : pc'[q] = "asleep" => pc[q] = "asleep" BY <1>0, <3>1
    <3>3. \A q \in Procs : pc[q] \in {"wakeup", "cas", "post"} => pc'[q] = pc[q]
      BY <1>0, <2>1, <3>1
    <3>4. QED BY <1>0, <2>1, <3>1, <3>2, <3>3 DEF SleeperIsSeen
  <2>4. QED BY <2>2, <2>3
<1>6. QED BY <1>1, <1>2, <1>3, <1>4, <1>5 DEF Step

(* ngx_shmtx_wakeup: no wakeup is lost and none is posted twice, whatever  *)
(* the number of workers, as long as a worker is killed while it works,    *)
(* spins or holds the mutex.                                               *)
THEOREM ShmtxWakes ==
    ASSUME CrashAt \subseteq HarmlessPlaces
    PROVE  Spec => []NoLostWakeup
<1>1. Init => WakeupInv
  <2> SUFFICES ASSUME Init PROVE WakeupInv
    OBVIOUS
  <2>1. Inv BY DEF Init, Inv, Places, MutualExclusion, Inside, Procs
  <2>2. Posting = {} /\ Announced = {} BY DEF Init, Posting, Announced
  <2>3. Balance BY <2>1, <2>2, FS_EmptySet DEF Init, Balance, Inv
  <2>4. SleeperIsSeen BY DEF Init, SleeperIsSeen, Procs
  <2>5. QED BY <2>1, <2>3, <2>4 DEF WakeupInv
<1>2. WakeupInv /\ [Next]_vars => WakeupInv'
  <2> SUFFICES ASSUME WakeupInv, [Next]_vars PROVE WakeupInv'
    OBVIOUS
  <2>1. ASSUME NEW p \in Workers, Lock(p) \/ TryLock(p) \/ Step(p) \/ Crash(p) \/ Reap(p)
        PROVE  WakeupInv'
    <3>1. Inv' BY <2>1, StepKeepsInv DEF WakeupInv
    <3>2. Balance' BY <2>1, StepBalances DEF WakeupInv
    <3>3. SleeperIsSeen' BY <2>1, StepKeepsSeen
    <3>4. QED BY <3>1, <3>2, <3>3 DEF WakeupInv
  <2>2. CASE Wakeup(Master)
    <3>0. Master \in Procs BY DEF Procs
    <3>1. Inv' BY <2>2, MasterKeepsInv DEF WakeupInv
    <3>2. Balance' BY <2>2, <3>0, WakeupBalances DEF WakeupInv
    <3>3. SleeperIsSeen' BY <2>2, <3>0, WakeupKeepsSeen
    <3>4. QED BY <3>1, <3>2, <3>3 DEF WakeupInv
  <2>3. CASE UNCHANGED vars
    BY <2>3 DEF vars, WakeupInv, Inv, Balance, Posting, Announced, MutualExclusion, SleeperIsSeen
  <2>4. QED BY <2>1, <2>2, <2>3 DEF Next
<1>3. WakeupInv => NoLostWakeup
  BY DEF WakeupInv, Balance, Posting, Announced, NoLostWakeup, WaitBalance
<1>4. QED BY <1>1, <1>2, <1>3, PTL DEF Spec

-----------------------------------------------------------------------------

RwPlaces == {"idle", "cas", "read", "write", "unlock"}

(* WordIsExact is inductive with the types of the word and of what each    *)
(* process has read from it.                                               *)
RwInv == /\ rwLock \in Int
         /\ rwPc \in [RwProcs -> RwPlaces]
         /\ rwSeen \in [RwProcs -> Int]
         /\ WordIsExact

LEMMA HoldersCounted ==
    /\ IsFiniteSet(Readers) /\ Cardinality(Readers) \in Nat
    /\ IsFiniteSet(Writers) /\ Cardinality(Writers) \in Nat
<1>1. Readers \subseteq RwProcs /\ Writers \subseteq RwProcs BY DEF Readers, Writers
<1>2. IsFiniteSet(Readers) /\ IsFiniteSet(Writers) BY <1>1, RwProcsFinite, FS_Subset
<1>3. QED BY <1>2, FS_CardinalityType

(* What the word says: it is WLock exactly when there is a writer, and a   *)
(* writer is the only holder.                                              *)
LEMMA WordSays ==
    ASSUME RwInv
    PROVE  /\ rwLock = WLock <=> Writers # {}
           /\ Writers = {} => rwLock = Cardinality(Readers)
           /\ \A p \in Writers : Writers = {p} /\ Readers = {}
<1>1. rwLock = WLock <=> Writers # {} BY HoldersCounted DEF RwInv, WordIsExact, WLock
<1>2. \A p \in Writers : Writers = {p}
  <2>1. SUFFICES ASSUME NEW p \in Writers PROVE Writers = {p}
    OBVIOUS
  <2>2. Cardinality(Writers) = 1 BY DEF RwInv, WordIsExact
  <2>3. PICK q : Writers = {q} BY <2>2, HoldersCounted, FS_Singleton
  <2>4. QED BY <2>3
<1>3. QED BY <1>1, <1>2 DEF RwInv, WordIsExact

(* The new states of a process and of what it has seen give the holders.   *)
LEMMA HoldersMove ==
    ASSUME rwPc \in [RwProcs -> RwPlaces], rwSeen \in [RwProcs -> Int],
           NEW p \in RwProcs, NEW to \in RwPlaces, NEW v \in Int,
           rwPc' = [rwPc EXCEPT ![p] = to], rwSeen' = [rwSeen EXCEPT ![p] = v]
    PROVE  /\ rwPc' \in [RwProcs -> RwPlaces] /\ rwSeen' \in [RwProcs -> Int]
           /\ Writers' = IF to = "write" \/ (to = "unlock" /\ v = WLock)
                         THEN Writers \cup {p} ELSE Writers \ {p}
           /\ Readers' = IF to = "read" \/ (to = "unlock" /\ v # WLock)
                         THEN Readers \cup {p} ELSE Readers \ {p}
<1>1. \A q \in RwProcs : /\ rwPc'[q] = IF q = p THEN to ELSE rwPc[q]
                         /\ rwSeen'[q] = IF q = p THEN v ELSE rwSeen[q]
  OBVIOUS
<1>2. Writers' = IF to = "write" \/ (to = "unlock" /\ v = WLock)
                 THEN Writers \cup {p} ELSE Writers \ {p}
  BY <1>1 DEF Writers
<1>3. Readers' = IF to = "read" \/ (to = "unlock" /\ v # WLock)
                 THEN Readers \cup {p} ELSE Readers \ {p}
  BY <1>1 DEF Readers
<1>4. QED BY <1>2, <1>3

(* A step that moves no process in or out and leaves the word alone.       *)
LEMMA HoldersKept ==
    ASSUME RwInv, rwLock' = rwLock, Writers' = Writers, Readers' = Readers,
           rwPc' \in [RwProcs -> RwPlaces], rwSeen' \in [RwProcs -> Int]
    PROVE  RwInv'
BY DEF RwInv, WordIsExact

(* Each step of ngx_rwlock.c keeps the word exact.                         *)
LEMMA RwStepExact ==
    ASSUME RwInv, NEW p \in RwProcs,
           \/ WriteLock(p) \/ ReadWord(p) \/ ReadLock(p)
           \/ UnlockRead(p) \/ UnlockSet(p) \/ Downgrade(p)
    PROVE  RwInv'
<1>0. /\ rwLock \in Int /\ rwPc \in [RwProcs -> RwPlaces] /\ rwSeen \in [RwProcs -> Int]
      /\ rwSeen = [rwSeen EXCEPT ![p] = rwSeen[p]] /\ rwSeen[p] \in Int
  BY DEF RwInv
<1>1. CASE WriteLock(p)
  <2>1. /\ rwPc[p] = "idle" /\ rwPc' = [rwPc EXCEPT ![p] = "write"] /\ rwLock = 0
        /\ rwLock' = WLock /\ rwSeen' = [rwSeen EXCEPT ![p] = rwSeen[p]]
    BY <1>0, <1>1 DEF WriteLock, RwGoto
  <2>2. Writers = {} /\ Readers = {}
    BY <2>1, WordSays, HoldersCounted, FS_EmptySet DEF WLock
  <2>3. /\ Writers' = {p} /\ Readers' = {}
        /\ rwPc' \in [RwProcs -> RwPlaces] /\ rwSeen' \in [RwProcs -> Int]
    BY <1>0, <2>1, <2>2, HoldersMove DEF RwPlaces
  <2>4. QED BY <2>1, <2>3, FS_Singleton DEF RwInv, WordIsExact, WLock
<1>2. CASE ReadWord(p)
  <2>1. /\ rwPc[p] = "idle" /\ rwPc' = [rwPc EXCEPT ![p] = "cas"]
        /\ rwLock' = rwLock /\ rwSeen' = [rwSeen EXCEPT ![p] = rwLock]
    BY <1>2 DEF ReadWord, RwGoto
  <2>2. p \notin Writers /\ p \notin Readers BY <2>1 DEF Writers, Readers
  <2>3. /\ Writers' = Writers \ {p} /\ Readers' = Readers \ {p}
        /\ rwPc' \in [RwProcs -> RwPlaces] /\ rwSeen' \in [RwProcs -> Int]
    BY <1>0, <2>1, HoldersMove DEF RwPlaces
  <2>4. Writers' = Writers /\ Readers' = Readers BY <2>2, <2>3
  <2>5. QED BY <2>1, <2>3, <2>4, HoldersKept
<1>3. CASE ReadLock(p)
  <2>0. /\ rwPc[p] = "cas" /\ rwSeen' = [rwSeen EXCEPT ![p] = rwSeen[p]]
    BY <1>0, <1>3 DEF ReadLock, RwGoto
  <2>2. p \notin Writers /\ p \notin Readers BY <2>0 DEF Writers, Readers
  <2>3. CASE rwSeen[p] # WLock /\ rwLock = rwSeen[p]
    <3>1. rwPc' = [rwPc EXCEPT ![p] = "read"] /\ rwLock' = rwLock + 1
      BY <1>3, <2>3 DEF ReadLock, RwGoto
    <3>2. /\ Writers' = Writers \ {p} /\ Readers' = Readers \cup {p}
          /\ rwPc' \in [RwProcs -> RwPlaces] /\ rwSeen' \in [RwProcs -> Int]
      BY <1>0, <2>0, <3>1, HoldersMove DEF RwPlaces
    <3>3. Writers = {} /\ rwLock = Cardinality(Readers) BY <2>3, WordSays
    <3>4. Cardinality(Readers') = Cardinality(Readers) + 1
      BY <2>2, <3>2, HoldersCounted, EntersPlace
    <3>5. QED BY <1>0, <3>1, <3>2, <3>3, <3>4 DEF RwInv, WordIsExact
  <2>4. CASE ~(rwSeen[p] # WLock /\ rwLock = rwSeen[p])
    <3>1. rwPc' = [rwPc EXCEPT ![p] = "idle"] /\ rwLock' = rwLock
      BY <1>3, <2>4 DEF ReadLock, RwGoto
    <3>2. /\ Writers' = Writers \ {p} /\ Readers' = Readers \ {p}
          /\ rwPc' \in [RwProcs -> RwPlaces] /\ rwSeen' \in [RwProcs -> Int]
      BY <1>0, <2>0, <3>1, HoldersMove DEF RwPlaces
    <3>3. Writers' = Writers /\ Readers' = Readers BY <2>2, <3>2
    <3>4. QED BY <3>1, <3>2, <3>3, HoldersKept
  <2>5. QED BY <2>3, <2>4
<1>4. CASE UnlockRead(p)
  <2>1. /\ rwPc[p] \in {"read", "write"} /\ rwPc' = [rwPc EXCEPT ![p] = "unlock"]
        /\ rwLock' = rwLock /\ rwSeen' = [rwSeen EXCEPT ![p] = rwLock]
    BY <1>4 DEF UnlockRead, RwGoto
  <2>2. /\ Writers' = IF rwLock = WLock THEN Writers \cup {p} ELSE Writers \ {p}
        /\ Readers' = IF rwLock # WLock THEN Readers \cup {p} ELSE Readers \ {p}
        /\ rwPc' \in [RwProcs -> RwPlaces] /\ rwSeen' \in [RwProcs -> Int]
    BY <1>0, <2>1, HoldersMove DEF RwPlaces
  <2>3. CASE rwPc[p] = "read"
    <3>1. p \in Readers /\ p \notin Writers BY <2>3 DEF Readers, Writers
    <3>2. rwLock # WLock BY <3>1, WordSays
    <3>3. Writers' = Writers /\ Readers' = Readers BY <2>2, <3>1, <3>2
    <3>4. QED BY <2>1, <2>2, <3>3, HoldersKept
  <2>4. CASE rwPc[p] = "write"
    <3>1. p \in Writers /\ p \notin Readers BY <2>4 DEF Readers, Writers
    <3>2. rwLock = WLock BY <3>1, WordSays
    <3>3. Writers' = Writers /\ Readers' = Readers BY <2>2, <3>1, <3>2
    <3>4. QED BY <2>1, <2>2, <3>3, HoldersKept
  <2>5. QED BY <2>1, <2>3, <2>4
<1>5. CASE UnlockSet(p)
  <2>0. rwPc[p] = "unlock" BY <1>5 DEF UnlockSet, RwGoto
  <2>1. CASE rwSeen[p] = WLock
    <3>1. p \in Writers BY <2>0, <2>1 DEF Writers
    <3>2. Writers = {p} /\ Readers = {} /\ rwLock = WLock BY <3>1, WordSays
    <3>3. /\ rwPc' = [rwPc EXCEPT ![p] = "idle"] /\ rwLock' = 0
          /\ rwSeen' = [rwSeen EXCEPT ![p] = rwSeen[p]]
      BY <1>0, <1>5, <2>1, <3>2 DEF UnlockSet, RwGoto
    <3>4. /\ Writers' = {} /\ Readers' = {}
          /\ rwPc' \in [RwProcs -> RwPlaces] /\ rwSeen' \in [RwProcs -> Int]
      BY <1>0, <3>2, <3>3, HoldersMove DEF RwPlaces
    <3>5. QED BY <3>3, <3>4, FS_EmptySet DEF RwInv, WordIsExact
  <2>2. CASE rwSeen[p] # WLock
    <3>1. p \in Readers /\ p \notin Writers BY <2>0, <2>2 DEF Readers, Writers
    <3>2. Writers = {} /\ rwLock = Cardinality(Readers) /\ rwLock # WLock BY <3>1, WordSays
    <3>3. CASE rwLock = rwSeen[p]
      <4>1. /\ rwPc' = [rwPc EXCEPT ![p] = "idle"] /\ rwLock' = rwLock - 1
            /\ rwSeen' = [rwSeen EXCEPT ![p] = rwSeen[p]]
        BY <1>0, <1>5, <2>2, <3>3 DEF UnlockSet, RwGoto
      <4>2. /\ Writers' = {} /\ Readers' = Readers \ {p}
            /\ rwPc' \in [RwProcs -> RwPlaces] /\ rwSeen' \in [RwProcs -> Int]
        BY <1>0, <3>2, <4>1, HoldersMove DEF RwPlaces
      <4>3. Cardinality(Readers') = Cardinality(Readers) - 1
        BY <3>1, <4>2, HoldersCounted, LeavesPlace
      <4>4. QED BY <1>0, <3>2, <4>1, <4>2, <4>3 DEF RwInv, WordIsExact
    <3>4. CASE rwLock # rwSeen[p]
      <4>1. /\ rwPc' = [rwPc EXCEPT ![p] = "unlock"] /\ rwLock' = rwLock
            /\ rwSeen' = [rwSeen EXCEPT ![p] = rwLock]
        BY <1>0, <1>5, <2>0, <2>2, <3>4 DEF UnlockSet, RwGoto
      <4>2. /\ Writers' = Writers \ {p} /\ Readers' = Readers \cup {p}
            /\ rwPc' \in [RwProcs -> RwPlaces] /\ rwSeen' \in [RwProcs -> Int]
        BY <1>0, <3>2, <4>1, HoldersMove DEF RwPlaces
      <4>3. Writers' = Writers /\ Readers' = Readers BY <3>1, <4>2
      <4>4. QED BY <4>1, <4>2, <4>3, HoldersKept
    <3>5. QED BY <3>3, <3>4
  <2>3. QED BY <2>1, <2>2
<1>6. CASE Downgrade(p)
  <2>1. p \in Writers BY <1>6 DEF Downgrade, RwGoto, Writers
  <2>2. Writers = {p} /\ Readers = {} /\ rwLock = WLock BY <2>1, WordSays
  <2>3. /\ rwPc' = [rwPc EXCEPT ![p] = "read"] /\ rwLock' = 1
        /\ rwSeen' = [rwSeen EXCEPT ![p] = rwSeen[p]]
    BY <1>0, <1>6, <2>2 DEF Downgrade, RwGoto
  <2>4. /\ Writers' = {} /\ Readers' = {p}
        /\ rwPc' \in [RwProcs -> RwPlaces] /\ rwSeen' \in [RwProcs -> Int]
    BY <1>0, <2>2, <2>3, HoldersMove DEF RwPlaces
  <2>5. Cardinality(Readers') = 1 BY <2>4, FS_Singleton
  <2>6. QED BY <2>3, <2>4, <2>5 DEF RwInv, WordIsExact
<1>7. QED BY <1>1, <1>2, <1>3, <1>4, <1>5, <1>6

LEMMA RwInitExact == RwInit => RwInv
<1> SUFFICES ASSUME RwInit PROVE RwInv
  OBVIOUS
<1>1. Writers = {} /\ Readers = {} BY DEF RwInit, Writers, Readers
<1>2. QED BY <1>1, FS_EmptySet DEF RwInit, RwInv, WordIsExact, RwPlaces

LEMMA RwNextExact == RwInv /\ [RwNext]_rwVars => RwInv'
<1> SUFFICES ASSUME RwInv, [RwNext]_rwVars PROVE RwInv'
  OBVIOUS
<1>1. CASE RwNext BY <1>1, RwStepExact DEF RwNext
<1>2. CASE UNCHANGED rwVars
  BY <1>2 DEF rwVars, RwInv, WordIsExact, Writers, Readers
<1>3. QED BY <1>1, <1>2

(* ngx_rwlock.c: the lock word is exact, a writer is alone and readers     *)
(* share, for every number of processes that lock, unlock and downgrade.   *)
THEOREM RwlockExact == RwSpec => []WordIsExact
<1>1. RwInv => WordIsExact BY DEF RwInv
<1>2. QED BY <1>1, RwInitExact, RwNextExact, PTL DEF RwSpec

(* ngx_rwlock_wlock under a reader never succeeds, whatever the readers    *)
(* read before they locked.                                                *)
THEOREM RwlockReadersKeep == RwSpec => NoWriteUnderReader
<1>1. ASSUME RwInv, [RwNext]_rwVars, Readers # {}
      PROVE  \A p \in RwProcs : rwPc'[p] = "write" => rwPc[p] = "write"
  <2>0. rwPc \in [RwProcs -> RwPlaces] BY <1>1 DEF RwInv
  <2>1. rwLock # 0
    <3>1. rwLock = WLock \/ rwLock = Cardinality(Readers) BY <1>1, WordSays
    <3>2. Cardinality(Readers) # 0 BY <1>1, HoldersCounted, FS_EmptySet
    <3>3. QED BY <3>1, <3>2 DEF WLock
  <2>2. ASSUME NEW p \in RwProcs,
               \/ WriteLock(p) \/ ReadWord(p) \/ ReadLock(p)
               \/ UnlockRead(p) \/ UnlockSet(p) \/ Downgrade(p)
        PROVE  rwPc' = rwPc \/ \E to \in RwPlaces \ {"write"} : rwPc' = [rwPc EXCEPT ![p] = to]
    BY <2>1, <2>2 DEF WriteLock, ReadWord, ReadLock, UnlockRead, UnlockSet, Downgrade,
                      RwGoto, RwPlaces
  <2>3. QED BY <1>1, <2>0, <2>2 DEF RwNext, rwVars
<1>2. RwInv /\ [RwNext]_rwVars =>
        [Readers # {} => \A p \in RwProcs : rwPc'[p] = "write" => rwPc[p] = "write"]_rwVars
  BY <1>1
<1>3. QED BY <1>2, RwInitExact, RwNextExact, PTL DEF RwSpec, NoWriteUnderReader
=============================================================================
