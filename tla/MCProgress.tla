----------------------------- MODULE MCProgress -----------------------------

(***************************************************************************)
(* What must happen in the end, and what a request of the two HLS handlers *)
(* is to the client while it happens: every part has the fairness its code *)
(* guarantees, see the modules.                                            *)
(***************************************************************************)

EXTENDS HlsM3u8, Integers

CONSTANTS Master, Nobody, CrashAt, AcceptWorkers, ConnN, Share, MaxBacklog,
    MaxArrivals, MaxQuits, NWorkers, CachePaths, Pids, Signals,
    ReloadOutcomes, MaxSignals, MaxCrashes, MaxForkFails, Threads, Tasks,
    ThreadExit, ThreadNull, MaxQueue, MaxRequests, IntMax, NoNum, NoSession,
    FirstTime, Keys, Timestamps, Offsets, Spans, Indexed, Window, MaxTime

VARIABLES part, is, backend, lock, wait, sem, pc, seen, acceptW, acceptLock,
    backlog, acceptBudget, m, pending, masterBudget, next, queue, done,
    waiting, where, cur, active, notified, main, walk, left, threadLock,
    files, channel, inbox, sent, call, out, got, failed, now, rec, store, at,
    req, mode, abs, pos, end, st, origin, stale, rwLock, rwPc, rwSeen, slabM,
    live

Index == INSTANCE HlsIndex WITH s <- is

Mutex == INSTANCE Locks WITH Workers <- {"w1", "w2"}, RwProcs <- {}

ProcA == INSTANCE Processes WITH
    UseMutex <- TRUE, MaxEmfile <- 1, NPages <- {}, Slots <- {},
    MaxRun <- {}

ProcB == INSTANCE Processes WITH
    UseMutex <- FALSE, MaxEmfile <- 2, NPages <- {}, Slots <- {},
    MaxRun <- {}

Filter == INSTANCE FilterServer

Sessions == INSTANCE SeekSession WITH pc <- at, Workers <- {"w1"}

indexVars == <<is, backend>>

mutexVars == <<lock, wait, sem, pc, seen>>

acceptVars == <<acceptW, acceptLock, backlog, acceptBudget>>

masterVars == <<m, pending, masterBudget>>

threadsVars == <<next, queue, done, waiting, where, cur, active, notified, main, walk, left,
          threadLock>>

pipelineVars == <<files, channel, inbox, sent, call, out, got, failed>>

pollVars == <<now, rec, store, at, req, mode, abs, pos, end, st, origin, stale>>

rwVars == <<rwLock, rwPc, rwSeen, slabM, live>>

NoRw == rwLock = 0 /\ rwPc = 0 /\ rwSeen = 0 /\ slabM = 0 /\ live = 0

(* In the parts of the others each machine rests where it starts.          *)
NoIndex == is = Created(FALSE, FALSE, FALSE) /\ backend = "proxied"

all == <<part, s, indexVars, mutexVars, acceptVars, masterVars, threadsVars,
          pipelineVars, pollVars, rwVars>>

-----------------------------------------------------------------------------

MCInit ==
    \/ /\ part = "m3u8" /\ Init
       /\ NoIndex /\ Mutex!Init /\ ProcA!AcceptInit /\ ProcA!MasterInit
       /\ ProcA!ThreadInit /\ (files = {} /\ Filter!Init) /\ Sessions!Init
       /\ NoRw
    \/ /\ part = "index" /\ Index!IndexInit
       /\ s = Created(FALSE, FALSE, FALSE) /\ Mutex!Init /\ ProcA!AcceptInit
       /\ ProcA!MasterInit /\ ProcA!ThreadInit
       /\ (files = {} /\ Filter!Init) /\ Sessions!Init /\ NoRw
    \/ /\ part = "mutex" /\ Mutex!Init
       /\ s = Created(FALSE, FALSE, FALSE) /\ NoIndex /\ ProcA!AcceptInit
       /\ ProcA!MasterInit /\ ProcA!ThreadInit
       /\ (files = {} /\ Filter!Init) /\ Sessions!Init /\ NoRw
    \/ /\ \/ part = "accept" /\ ProcA!AcceptInit
          \/ part = "accept shared" /\ ProcB!AcceptInit
       /\ s = Created(FALSE, FALSE, FALSE) /\ NoIndex /\ Mutex!Init
       /\ ProcA!MasterInit /\ ProcA!ThreadInit
       /\ (files = {} /\ Filter!Init) /\ Sessions!Init /\ NoRw
    \/ /\ part = "master" /\ ProcA!MasterInit
       /\ s = Created(FALSE, FALSE, FALSE) /\ NoIndex /\ Mutex!Init
       /\ ProcA!AcceptInit /\ ProcA!ThreadInit
       /\ (files = {} /\ Filter!Init) /\ Sessions!Init /\ NoRw
    \/ /\ part = "threads" /\ ProcA!ThreadInit
       /\ s = Created(FALSE, FALSE, FALSE) /\ NoIndex /\ Mutex!Init
       /\ ProcA!AcceptInit /\ ProcA!MasterInit
       /\ (files = {} /\ Filter!Init) /\ Sessions!Init /\ NoRw
    \/ /\ part = "pipeline" /\ Filter!Init
       /\ s = Created(FALSE, FALSE, FALSE) /\ NoIndex /\ Mutex!Init
       /\ ProcA!AcceptInit /\ ProcA!MasterInit /\ ProcA!ThreadInit
       /\ Sessions!Init /\ NoRw
    \/ /\ part = "poll" /\ Sessions!Init
       /\ s = Created(FALSE, FALSE, FALSE) /\ NoIndex /\ Mutex!Init
       /\ ProcA!AcceptInit /\ ProcA!MasterInit /\ ProcA!ThreadInit
       /\ (files = {} /\ Filter!Init) /\ NoRw

(* The environment is bounded, and processes end.                           *)
MayStop ==
    /\ part \in {"master", "threads", "pipeline"}
    /\ UNCHANGED all

MCNext ==
    \/ /\ part = "m3u8" /\ Next
       /\ UNCHANGED <<part, indexVars, mutexVars, acceptVars, masterVars, threadsVars,
                     pipelineVars, pollVars, rwVars>>
    \/ /\ part = "index" /\ Index!IndexNext
       /\ UNCHANGED <<part, s, mutexVars, acceptVars, masterVars, threadsVars, pipelineVars,
                     pollVars, rwVars>>
    \/ /\ part = "mutex" /\ Mutex!Next
       /\ UNCHANGED <<part, s, indexVars, acceptVars, masterVars, threadsVars, pipelineVars,
                     pollVars, rwVars>>
    \/ /\ \/ part = "accept" /\ ProcA!AcceptNext
          \/ part = "accept shared" /\ ProcB!AcceptNext
       /\ UNCHANGED <<part, s, indexVars, mutexVars, masterVars, threadsVars, pipelineVars,
                     pollVars, rwVars>>
    \/ /\ part = "master" /\ ProcA!MasterNext
       /\ UNCHANGED <<part, s, indexVars, mutexVars, acceptVars, threadsVars, pipelineVars,
                     pollVars, rwVars>>
    \/ /\ part = "threads" /\ ProcA!ThreadNext
       /\ UNCHANGED <<part, s, indexVars, mutexVars, acceptVars, masterVars, pipelineVars,
                     pollVars, rwVars>>
    \/ /\ part = "pipeline" /\ Filter!Next
       /\ UNCHANGED <<part, s, indexVars, mutexVars, acceptVars, masterVars, threadsVars,
                     pollVars, rwVars>>
    \/ /\ part = "poll" /\ Sessions!PollNext
       /\ UNCHANGED <<part, s, indexVars, mutexVars, acceptVars, masterVars, threadsVars,
                     pipelineVars, rwVars>>
    \/ MayStop

MCSpec ==
    /\ MCInit /\ [][MCNext]_all
    /\ WF_s(part = "m3u8" /\ (Refuse \/ Ask))
    /\ WF_s(part = "m3u8" /\ RunPosted)
    /\ WF_s(part = "m3u8" /\ UpstreamTimeout)
    /\ WF_s(part = "m3u8" /\ WriteTimeout)
    /\ WF_indexVars(part = "index" /\ (Index!IndexRefuse \/ Index!IndexAsk))
    /\ WF_indexVars(part = "index" /\ (\/ Index!IndexRunSub
                                  \/ Index!IndexRunWriter
                                  \/ Index!IndexRunTerminate))
    /\ WF_indexVars(part = "index" /\ Index!IndexUpstreamFails)
    /\ WF_indexVars(part = "index" /\ Index!IndexWriteTimeout)
    /\ WF_mutexVars(part = "mutex" /\ Mutex!Wakeup(Master))
    /\ \A p \in {"w1", "w2"} :
          /\ WF_mutexVars(part = "mutex" /\ Mutex!Step(p))
          /\ WF_mutexVars(part = "mutex" /\ Mutex!Reap(p))
    /\ \A p \in AcceptWorkers :
          /\ WF_acceptVars(part = "accept" /\ ProcA!AcceptTurn(p))
          /\ SF_acceptVars(part = "accept" /\ ProcA!TimerFires(p))
          /\ WF_acceptVars(part = "accept" /\ ProcA!Done(p))
    /\ \A p \in AcceptWorkers :
          /\ WF_acceptVars(part = "accept shared" /\ ProcB!AcceptTurn(p))
          /\ SF_acceptVars(part = "accept shared" /\ ProcB!TimerFires(p))
          /\ WF_acceptVars(part = "accept shared" /\ ProcB!Done(p))
    /\ []<>(part = "master" => pending = {} \/ ~m.running)
    /\ WF_masterVars(part = "master" /\ ProcA!Alarm)
    /\ \A p \in Pids : WF_masterVars(part = "master" /\ ProcA!ProcStep(p))
    /\ WF_threadsVars(part = "threads" /\ ProcA!MainStep)
    /\ \A h \in Threads : WF_threadsVars(part = "threads" /\ ProcA!Cycle(h))
    /\ WF_pipelineVars(part = "pipeline" /\ Filter!Handle)
    /\ WF_pipelineVars(part = "pipeline" /\ Filter!Flush)
    /\ WF_pollVars(part = "poll" /\ Sessions!Record)
    /\ WF_pollVars(part = "poll" /\ (Sessions!Receive("w1") \/ Sessions!Handle("w1")))

-----------------------------------------------------------------------------

(* Output of an index page that waits behind its subrequest is written     *)
(* once that is over, and the references to the main request are exact     *)
(* after the extra one its callback gives back (hlsm3u8_index_callback,    *)
(* ngx_http_finalize_request).                                             *)
IndexSound ==
    part = "index" => Index!LateIsWritten /\ Index!IndexCounts

(* Every .m3u8 request and every index request comes to an end whatever    *)
(* client and filter do or fail to do, and to the client an index request  *)
(* too is HttpExchange, one header at most and after it the body of one    *)
(* response; the filter handles what it has decoded; and a viewer who      *)
(* keeps polling a seek reaches the live edge again and again.             *)
RequestsEnd ==
    /\ (part = "m3u8") => EachEnds
    /\ (part = "index") => Index!IndexEnds
    /\ Index!IndexOneResponse
    /\ (part = "pipeline") => Filter!AllHandled
    /\ (part = "poll") => Sessions!EdgeReached

(* Some waiting process gets the mutex in the end; a waiting connection is *)
(* accepted; a child that hangs cannot keep the master from a fast         *)
(* shutdown; the event handler of a task is called unless the worker       *)
(* exits, which gets through the destruction of its threads.               *)
WorkersProgress ==
    /\ (part = "mutex") => Mutex!LockMoves
    /\ (part = "accept") => ProcA!Accepted
    /\ (part = "accept shared") => ProcB!Accepted
    /\ (part = "master") => ProcA!TermEnds
    /\ (part = "threads") => (ProcA!TaskCompletes /\ ProcA!ExitEnds)

=============================================================================
