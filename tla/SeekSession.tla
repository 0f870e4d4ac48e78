---------------------------- MODULE SeekSession ----------------------------
(***************************************************************************)
(* Playseek requests of the m3u8 filter running concurrently over the      *)
(* session store.  playSeekHandler reads the session of a viewer from      *)
(* Redis, scans the recording's playlist line by line and writes the       *)
(* advanced session back in the middle of the scan; nothing makes these    *)
(* calls atomic, and several netty threads (or several filter processes)   *)
(* may serve one viewer at the same time.                                  *)
(*                                                                         *)
(* Outside src/, and modelled from how the code uses them: the recorder    *)
(* that appends segments to the playlist file, and Redis (get, setex, del  *)
(* and the expiry of a key, which is allowed at any time).                 *)
(***************************************************************************)
EXTENDS SeekScan, FiniteSets

CONSTANTS Workers,    \* threads executing playSeekHandler
          Keys,       \* Redis keys, one for each mtv_session
          Timestamps, \* values of the timestamp parameter
          Offsets,    \* values of playseek, in seconds (HHMMSS)
          Spans,      \* possible distances between two segments, in seconds
          Indexed,    \* TRUE: the file read is .m3u8.index, FALSE: .m3u8
          Window,     \* number of segments a .m3u8 file keeps
          FirstTime,  \* the clock when the recording starts
          MaxTime,    \* bound: the recording stops here
          NoSession   \* get_session returned null

ASSUME TimeAssumption ==
    /\ FirstTime \in Nat /\ MaxTime \in Nat
    /\ FirstTime <= MaxTime /\ MaxTime <= IntMax
    /\ Spans \subseteq Nat \ {0}
    /\ Offsets \subseteq Nat /\ \A o \in Offsets : o <= FirstTime
ASSUME FileAssumption == Indexed \in BOOLEAN /\ Window \in Nat \ {0}
ASSUME NamesAssumption ==
    /\ NoSession \notin [timestamp : Timestamps, last_time : Int, sequence : Nat]
    /\ Keys \cap Workers = {}

VARIABLES
    now,      \* System.currentTimeMillis() / 1000
    rec,      \* the times of all segments recorded so far
    store,    \* Redis: the session stored under each key
    pc,       \* where each worker is in playSeekHandler
    req,      \* the request a worker is serving
    mode,     \* which of the two filters the worker runs
    abs,      \* absolute_time of the worker
    pos, end, \* lines read, and lines of the file when it was opened
    st,       \* the locals of the loop, see SeekScan
    origin,   \* auxiliary: the position of the segment a session began with
    stale     \* auxiliary: workers whose session was changed after they read it

file == <<now, rec>>
locals == <<req, mode, abs, pos, end, st>>
aux == <<origin, stale>>
vars == <<file, store, pc, locals, aux>>

Session == [timestamp : Timestamps, last_time : Int, sequence : Nat]
Request == [key : Keys, timestamp : Timestamps, offset : Offsets]
NoReq == [key |-> NoSession]
Ext == "EXTINF"

(* The first line of the file: a .m3u8.index keeps everything, a .m3u8 the *)
(* last Window segments.                                                   *)
Slid == IF Indexed \/ Len(rec) <= Window THEN 0 ELSE Len(rec) - Window

(* readLine() returns null here.  The .index file is appended to, so lines *)
(* added while it is read are seen; a .m3u8 is replaced as a whole.        *)
Eof(w) == pos[w] = (IF Indexed THEN Len(rec) ELSE end[w])

-----------------------------------------------------------------------------
Init ==
    /\ now = FirstTime
    /\ rec = <<>>
    /\ store = [k \in Keys |-> NoSession]
    /\ pc = [w \in Workers |-> "idle"]
    /\ req = [w \in Workers |-> NoReq]
    /\ mode = [w \in Workers |-> "seek"]
    /\ abs = [w \in Workers |-> 0]
    /\ pos = [w \in Workers |-> 0]
    /\ end = [w \in Workers |-> 0]
    /\ st = [w \in Workers |-> SeekStart(NoSession)]
    /\ origin = [x \in Keys \cup Workers |-> 0]
    /\ stale = {}

(* The recorder finishes a segment and appends it to the playlist.         *)
Record ==
    \E d \in Spans :
        /\ now + d <= MaxTime
        /\ now' = now + d
        /\ rec' = Append(rec, now')
        /\ UNCHANGED <<store, pc, locals, aux>>

(* setex: the time to live of a session has passed.                        *)
Expire(k) ==
    /\ store[k] # NoSession
    /\ store' = [store EXCEPT ![k] = NoSession]
    /\ UNCHANGED <<file, pc, locals, aux>>

(* A request with all its parameters, for a recording that exists.         *)
Receive(w) ==
    /\ pc[w] = "idle"
    /\ \E r \in Request : req' = [req EXCEPT ![w] = r]
    /\ pc' = [pc EXCEPT ![w] = "get"]
    /\ UNCHANGED <<file, store, mode, abs, pos, end, st, aux>>

(* get_session, and the choice playSeekHandler makes on its result.        *)
GetSession(w) ==
    LET k == req[w].key IN
    /\ pc[w] = "get"
    /\ stale' = stale \ {w}
    /\ \/ /\ store[k] = NoSession
          /\ mode' = [mode EXCEPT ![w] = "seek"]
          /\ pc' = [pc EXCEPT ![w] = "open"]
          /\ UNCHANGED <<st, origin>>
       \/ /\ store[k] # NoSession
          /\ store[k].timestamp # req[w].timestamp
          /\ mode' = [mode EXCEPT ![w] = "seek"]
          /\ pc' = [pc EXCEPT ![w] = "remove"]
          /\ UNCHANGED <<st, origin>>
       \/ /\ store[k] # NoSession
          /\ store[k].timestamp = req[w].timestamp
          /\ mode' = [mode EXCEPT ![w] = "session"]
          /\ st' = [st EXCEPT ![w] = SessionStart(store[k])]
          /\ origin' = [origin EXCEPT ![w] = origin[k]]
          /\ pc' = [pc EXCEPT ![w] = "open"]
    /\ UNCHANGED <<file, store, req, abs, pos, end>>

Others(w) == {v \in Workers \ {w} : pc[v] # "idle" /\ req[v].key = req[w].key}

(* remove_session: the viewer has jumped, the old session goes.            *)
RemoveSession(w) ==
    /\ pc[w] = "remove"
    /\ store' = [store EXCEPT ![req[w].key] = NoSession]
    /\ pc' = [pc EXCEPT ![w] = "open"]
    /\ stale' = stale \cup Others(w)
    /\ UNCHANGED <<file, locals, origin>>

(* transform_absolute_time, then the file is opened.                       *)
OpenFile(w) ==
    /\ pc[w] = "open"
    /\ pos' = [pos EXCEPT ![w] = Slid]
    /\ end' = [end EXCEPT ![w] = Len(rec)]
    /\ IF mode[w] = "seek"
       THEN /\ abs' = [abs EXCEPT ![w] = Wrap(now - req[w].offset)]
            /\ st' = [st EXCEPT ![w] = SeekStart(NoSession)]
       ELSE UNCHANGED <<abs, st>>
    /\ pc' = [pc EXCEPT ![w] = "scan"]
    /\ UNCHANGED <<file, store, req, mode, aux>>

(* One .ts line of the file.                                               *)
ReadLine(w) ==
    LET t == rec[pos[w] + 1]
        s == IF mode[w] = "seek"
             THEN SeekTs(st[w], Ext, t, req[w].timestamp, abs[w])
             ELSE SessionTs(st[w], Ext, t)
    IN
    /\ pc[w] = "scan"
    /\ ~Eof(w)
    /\ pos' = [pos EXCEPT ![w] = @ + 1]
    /\ st' = [st EXCEPT ![w] = s]
    /\ pc' = [pc EXCEPT ![w] = IF s.put THEN "put" ELSE "scan"]
    /\ origin' = IF mode[w] = "seek" /\ s.put
                 THEN [origin EXCEPT ![w] = pos[w] + 1] ELSE origin
    /\ UNCHANGED <<file, store, req, mode, abs, end, stale>>

(* set_session or update_session, called from inside the loop.             *)
PutSession(w) ==
    LET k == req[w].key IN
    /\ pc[w] = "put"
    /\ store' = [store EXCEPT ![k] = st[w].sess]
    /\ origin' = [origin EXCEPT ![k] = origin[w]]
    /\ st' = [st EXCEPT ![w].put = FALSE]
    /\ pc' = [pc EXCEPT ![w] = "scan"]
    /\ stale' = stale \cup Others(w)
    /\ UNCHANGED <<file, req, mode, abs, pos, end>>

(* The locals die with the call.                                           *)
Return(w) ==
    /\ pc' = [pc EXCEPT ![w] = "idle"]
    /\ req' = [req EXCEPT ![w] = NoReq]
    /\ mode' = [mode EXCEPT ![w] = "seek"]
    /\ abs' = [abs EXCEPT ![w] = 0]
    /\ pos' = [pos EXCEPT ![w] = 0]
    /\ end' = [end EXCEPT ![w] = 0]
    /\ st' = [st EXCEPT ![w] = SeekStart(NoSession)]
    /\ origin' = [origin EXCEPT ![w] = 0]
    /\ stale' = stale \ {w}

(* The playlist returned at the end of the file, and answered.             *)
Playlist(w) == IF mode[w] = "session" THEN SessionEnd(st[w]) ELSE st[w]

Answering(w) == pc[w] = "scan" /\ Eof(w)

Finish(w) ==
    /\ Answering(w)
    /\ Return(w)
    /\ UNCHANGED <<file, store>>

(* The call is left by an exception: a JedisException or a .ts line that   *)
(* get_ts_time cannot parse gets no answer at all, an IOException while    *)
(* the file is opened or read is caught and answered with a null playlist. *)
(* What was already written to Redis stays written.                        *)
Throw(w) ==
    /\ pc[w] # "idle"
    /\ Return(w)
    /\ UNCHANGED <<file, store>>

Handle(w) ==
    \/ GetSession(w) \/ RemoveSession(w) \/ OpenFile(w)
    \/ ReadLine(w) \/ PutSession(w) \/ Finish(w)

Next ==
    \/ Record
    \/ \E k \in Keys : Expire(k)
    \/ \E w \in Workers : Receive(w) \/ Handle(w) \/ Throw(w)

Spec == Init /\ [][Next]_vars

-----------------------------------------------------------------------------
(* A viewer who keeps polling one seek, served without failures.  While    *)
(* every poll moves the session forward it is written back with its full   *)
(* time to live; it can expire only at the live edge, where polls find     *)
(* nothing new and do not refresh it.                                      *)
AtEdge(k) ==
    /\ store[k] # NoSession
    /\ rec # <<>>
    /\ store[k].last_time = rec[Len(rec)]

PollNext ==
    \/ Record
    \/ \E k \in Keys : AtEdge(k) /\ Expire(k)
    \/ \E w \in Workers : Receive(w) \/ Handle(w)

-----------------------------------------------------------------------------
(* The locals of a loop; a sessionDef is created with timestamp null.      *)
Segments == [ext : {Ext}, ts : Nat]
SessionDef == [timestamp : Timestamps \cup {NoSession}, last_time : Int, sequence : Nat]
ScanState == [index : {-1} \cup Nat, put : BOOLEAN, num : Nat \cup {NoNum},
              at : Nat, segs : Seq(Segments), sess : SessionDef]

(* The state stays well typed: in particular only sessions that were       *)
(* completely filled in are ever written to Redis, and a worker that is    *)
(* about to write holds one.                                               *)
TypeOK ==
    /\ now \in Nat
    /\ rec \in Seq(Nat)
    /\ store \in [Keys -> Session \cup {NoSession}]
    /\ pc \in [Workers -> {"idle", "get", "remove", "open", "scan", "put"}]
    /\ req \in [Workers -> Request \cup {NoReq}]
    /\ mode \in [Workers -> {"seek", "session"}]
    /\ abs \in [Workers -> Int]
    /\ pos \in [Workers -> Nat]
    /\ end \in [Workers -> Nat]
    /\ st \in [Workers -> ScanState]
    /\ origin \in [Keys \cup Workers -> Nat]
    /\ stale \subseteq Workers
    /\ \A w \in Workers :
        /\ pc[w] # "idle" => req[w] \in Request
        /\ st[w].put <=> pc[w] = "put"
        /\ pc[w] = "put" \/ mode[w] = "session" => st[w].sess \in Session

(* The segment a session points at is the one its media sequence number    *)
(* counts to from the start of the seek.                                   *)
Located(sess, o) ==
    /\ o + sess.sequence \in 1..Len(rec)
    /\ sess.last_time = rec[o + sess.sequence]

(* putSession: however the requests of a viewer interleave, expire or      *)
(* fail, the stored media sequence number always names the same segment    *)
(* for the whole life of a seek: it is the number of segments between the  *)
(* first one of the seek and the one last handed out.                      *)
SequenceIdentity ==
    Indexed => \A k \in Keys :
                   store[k] # NoSession => Located(store[k], origin[k])

(* m3u8_playseek_filter(_session): every playlist answered from a          *)
(* .m3u8.index file carries its number in front of all segments, and lists *)
(* the consecutive segments of the recording that the number says, so two  *)
(* playlists of one seek, whoever computed them, never give one segment    *)
(* two numbers or one number two segments.                                 *)
PlaylistIdentity ==
    Indexed => \A w \in Workers : Answering(w) =>
        LET p == Playlist(w) IN
        /\ p.num # NoNum /\ p.at = 0
        /\ \A i \in 1..Len(p.segs) :
            /\ origin[w] + p.num + i - 1 \in 1..Len(rec)
            /\ p.segs[i].ts = rec[origin[w] + p.num + i - 1]

(* m3u8_playseek_filter_session on a sliding .m3u8: when the segment of    *)
(* the session has left the file the number falls behind the first         *)
(* segment, but it still stands directly in front of the segment the       *)
(* session moves to, and at most one segment precedes it.                  *)
NumberPrecedesHead ==
    \A w \in Workers : Answering(w) =>
        LET p == Playlist(w) IN
        /\ p.num # NoNum => p.at \in {0, 1}
        /\ p.num # NoNum /\ p.at < Len(p.segs)
             => p.segs[p.at + 1].ts = p.sess.last_time
        /\ Len(p.segs) <= PlaylistSize + p.at

(* A session of a sliding .m3u8 may skip segments that left the file, but  *)
(* never lags behind its number: the segment it points at is at least as   *)
(* far into the recording as the number says.                              *)
SequenceNeverAhead ==
    \A k \in Keys : store[k] # NoSession =>
        \E j \in (origin[k] + store[k].sequence)..Len(rec) :
            j > 0 /\ store[k].last_time = rec[j]

(* update_session: a request whose session nobody else has changed since   *)
(* it was read moves that session forward by exactly one number, to a      *)
(* later segment.                                                          *)
FreshAdvance ==
    [][\A w \in Workers :
        LET k == req[w].key IN
        (/\ pc[w] = "put" /\ pc'[w] = "scan"
         /\ mode[w] = "session" /\ w \notin stale /\ store[k] # NoSession)
        => /\ store'[k].sequence = store[k].sequence + 1
           /\ store'[k].last_time > store[k].last_time
           /\ store'[k].timestamp = store[k].timestamp]_vars

(* A viewer who keeps polling a seek reaches the live edge again and       *)
(* again: no playlist repeats for ever, and after a session has expired    *)
(* at the edge the seek starts over and catches up.                        *)
EdgeReached == \A k \in Keys : []<>AtEdge(k)
=============================================================================
