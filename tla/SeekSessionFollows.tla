------------------------- MODULE SeekSessionFollows -------------------------
(***************************************************************************)
(* Proofs about SeekSession, fourth part: what holds on every file, also   *)
(* on a .m3u8 that slides, where IInv does not: no number is ahead of the  *)
(* recording, it stands next to the segment it was made for, and a session *)
(* nobody changed meanwhile advances by one.                               *)
(***************************************************************************)
EXTENDS SeekSessionTypes

(* The recording has reached, at a place not before the one the number     *)
(* counts to, the segment a session points at.                             *)
Reached(x, o) == \E j \in (o + x.sequence)..Len(rec) : j > 0 /\ x.last_time = rec[j]

(* What the locals of the loops look like after any number of lines: the   *)
(* number is in front of the head of the playlist, and at most one segment *)
(* in front of the number.                                                 *)
SeekShape(s) ==
    /\ s.num = 0 /\ s.at = 0 /\ s.index \in Nat
    /\ Len(s.segs) <= Capped(s.index)
    /\ s.index >= 1 => Len(s.segs) >= 1 /\ s.segs[1].ts = s.sess.last_time

SessionShape(s) ==
    /\ s.index = -1 => Len(s.segs) = 0
    /\ s.index <= 0 => s.num = NoNum /\ Len(s.segs) <= 1
    /\ s.index >= 1 => Len(s.segs) <= s.at + Capped(s.index)
    /\ s.num = NoNum => s.at = 0
    /\ s.num # NoNum => /\ s.at \in {0, 1} /\ s.at < Len(s.segs)
                        /\ s.segs[s.at + 1].ts = s.sess.last_time

Shape(w) == IF mode[w] = "seek" THEN SeekShape(st[w]) ELSE SessionShape(st[w])

(* A list of segments, written line by line.                               *)
LEMMA EmitAny ==
    ASSUME NEW segs \in Seq(Segments), NEW index \in Int, NEW t \in Nat
    PROVE  LET r == Emit(segs, index, Ext, t) IN
           /\ index < PlaylistSize => Len(r) = Len(segs) + 1 /\ r[Len(segs) + 1].ts = t
           /\ index >= PlaylistSize => r = segs
           /\ \A i \in 1..Len(segs) : r[i] = segs[i]
<1>1. Segment(Ext, t) \in Segments /\ Segment(Ext, t).ts = t
  BY DEF Segment, Segments
<1>2. CASE index < PlaylistSize
  <2>1. Emit(segs, index, Ext, t) = Append(segs, Segment(Ext, t)) BY <1>2 DEF Emit
  <2>2. /\ Len(Append(segs, Segment(Ext, t))) = Len(segs) + 1
        /\ \A i \in 1..Len(segs) : Append(segs, Segment(Ext, t))[i] = segs[i]
        /\ Append(segs, Segment(Ext, t))[Len(segs) + 1] = Segment(Ext, t)
    BY <1>1, Appended
  <2>3. ~(index >= PlaylistSize) BY <1>2 DEF PlaylistSize
  <2> QED BY <1>1, <2>1, <2>2, <2>3
<1>3. CASE ~(index < PlaylistSize)
  <2>1. Emit(segs, index, Ext, t) = segs BY <1>3 DEF Emit
  <2> QED BY <1>3, <2>1
<1> QED BY <1>2, <1>3

(* A line of the first loop keeps the shape.                               *)
LEMMA SeekLineShape ==
    ASSUME NEW s \in ScanState, NEW t \in Nat, NEW ts, NEW r,
           SeekShape(s), SeekAdvance(s, t, ts, r)
    PROVE  SeekShape(r)
<1>0. /\ s.segs \in Seq(Segments) /\ s.index \in Nat /\ Len(s.segs) \in Nat
      /\ Len(s.segs) <= Capped(s.index) /\ s.num = 0 /\ s.at = 0
  BY DEF ScanState, SeekShape
<1>1. /\ r.index = s.index + 1 /\ r.num = 0 /\ r.at = 0
      /\ r.segs = Emit(s.segs, s.index, Ext, t)
      /\ s.index = 0 => r.sess.last_time = t
      /\ s.index # 0 => r.sess = s.sess
  BY <1>0 DEF SeekAdvance
<1>2. /\ s.index < PlaylistSize => Len(r.segs) = Len(s.segs) + 1 /\ r.segs[Len(s.segs) + 1].ts = t
      /\ s.index >= PlaylistSize => r.segs = s.segs
      /\ \A i \in 1..Len(s.segs) : r.segs[i] = s.segs[i]
  BY <1>0, <1>1, EmitAny
<1>3. Len(r.segs) <= Capped(r.index) /\ Len(r.segs) >= 1
  BY <1>0, <1>1, <1>2 DEF Capped, PlaylistSize, SeekShape
<1>4. r.segs[1].ts = r.sess.last_time
  <2>1. CASE s.index = 0
    <3>1. Len(s.segs) = 0 BY <1>0, <2>1 DEF Capped, PlaylistSize
    <3> QED BY <1>1, <1>2, <2>1, <3>1 DEF PlaylistSize
  <2>2. CASE s.index # 0
    <3>1. 1 \in 1..Len(s.segs) /\ s.segs[1].ts = s.sess.last_time BY <1>0, <2>2 DEF SeekShape
    <3> QED BY <1>1, <1>2, <2>2, <3>1
  <2> QED BY <2>1, <2>2
<1> QED BY <1>0, <1>1, <1>3, <1>4 DEF SeekShape

(* So does a line of the second loop that is later than the session.       *)
LEMMA SessionLineShape ==
    ASSUME NEW s \in ScanState, NEW t \in Nat, NEW r, s.sess \in Session,
           SessionShape(s), SessionAdvance(s, t, r)
    PROVE  SessionShape(r)
<1>0. /\ s.segs \in Seq(Segments) /\ s.index \in {-1} \cup Nat /\ Len(s.segs) \in Nat
      /\ s.at \in Nat
  BY DEF ScanState
<1>1. /\ r.index = s.index + 1 /\ r.segs = Emit(s.segs, s.index, Ext, t)
      /\ s.index = 0 => r.sess.last_time = t /\ r.num \in Nat /\ r.at = Len(s.segs)
      /\ s.index # 0 => r.sess = s.sess /\ r.num = s.num /\ r.at = s.at
  BY DEF SessionAdvance, Session
<1>2. /\ s.index < PlaylistSize => Len(r.segs) = Len(s.segs) + 1 /\ r.segs[Len(s.segs) + 1].ts = t
      /\ s.index >= PlaylistSize => r.segs = s.segs
      /\ \A i \in 1..Len(s.segs) : r.segs[i] = s.segs[i]
  BY <1>0, <1>1, EmitAny
<1>3. CASE s.index = -1
  <2>1. Len(s.segs) = 0 /\ s.num = NoNum /\ s.at = 0 BY <1>3 DEF SessionShape
  <2>2. r.index = 0 /\ Len(r.segs) = 1 /\ r.num = NoNum /\ r.at = 0
    BY <1>1, <1>2, <1>3, <2>1 DEF PlaylistSize
  <2> QED BY <2>2 DEF SessionShape
<1>4. CASE s.index = 0
  <2>1. Len(s.segs) <= 1 /\ r.num # NoNum /\ r.at \in {0, 1}
    BY <1>0, <1>1, <1>4, NoNumAssumption DEF SessionShape
  <2>2. Len(r.segs) = r.at + 1 /\ r.segs[r.at + 1].ts = r.sess.last_time /\ r.index = 1
    BY <1>0, <1>1, <1>2, <1>4 DEF PlaylistSize
  <2> QED BY <2>1, <2>2 DEF SessionShape, Capped, PlaylistSize
<1>5. CASE s.index >= 1
  <2>1. r.sess = s.sess /\ r.num = s.num /\ r.at = s.at /\ Len(s.segs) <= s.at + Capped(s.index)
    BY <1>1, <1>5 DEF SessionShape
  <2>2. Len(r.segs) \in Nat /\ Len(r.segs) >= Len(s.segs) /\ Len(r.segs) <= r.at + Capped(r.index)
    <3>1. CASE s.index < PlaylistSize
      <4>1. Len(r.segs) = Len(s.segs) + 1 /\ Len(s.segs) <= s.at + s.index
        BY <1>0, <1>2, <2>1, <3>1 DEF Capped
      <4>2. Capped(r.index) = s.index + 1 BY <1>0, <1>1, <1>5, <3>1 DEF Capped, PlaylistSize
      <4>3. s.index \in Nat /\ r.at = s.at BY <1>0, <1>5, <2>1
      <4>4. Len(r.segs) \in Nat /\ Len(r.segs) >= Len(s.segs) BY <1>0, <4>1
      <4>5. Len(r.segs) <= r.at + (s.index + 1) BY <1>0, <4>1, <4>3
      <4> QED BY <4>2, <4>4, <4>5
    <3>2. CASE ~(s.index < PlaylistSize)
      <4>1. r.segs = s.segs BY <1>0, <1>2, <3>2 DEF PlaylistSize
      <4>2. Capped(r.index) = Capped(s.index) BY <1>0, <1>1, <3>2 DEF Capped, PlaylistSize
      <4> QED BY <1>0, <2>1, <4>1, <4>2
    <3> QED BY <3>1, <3>2
  <2>3. s.num # NoNum => /\ s.at + 1 \in 1..Len(s.segs) /\ s.at < Len(r.segs)
                         /\ s.segs[s.at + 1].ts = s.sess.last_time /\ s.at \in {0, 1}
    BY <1>0, <2>2 DEF SessionShape
  <2>4. s.num # NoNum => r.segs[r.at + 1].ts = r.sess.last_time
    BY <1>2, <2>1, <2>3
  <2>5. s.num = NoNum => s.at = 0 BY DEF SessionShape
  <2> QED BY <1>0, <1>1, <1>5, <2>1, <2>2, <2>3, <2>4, <2>5 DEF SessionShape
<1> QED BY <1>0, <1>3, <1>4, <1>5

(* Every line keeps the shape of the locals.                               *)
LEMMA LineShape ==
    ASSUME Base, NEW w \in Workers, pc[w] = "scan", ~Eof(w), Shape(w)
    PROVE  IF mode[w] = "seek" THEN SeekShape(Line(w)) ELSE SessionShape(Line(w))
<1> DEFINE t == rec[pos[w] + 1]
<1>1. t \in Nat
  BY NextLine
<1>2. /\ st[w] \in ScanState /\ mode[w] \in {"seek", "session"} /\ abs[w] \in Int
      /\ req[w].timestamp \in Timestamps
      /\ mode[w] = "session" => st[w].sess \in Session
  BY DEF Base, TypeOK, Request
<1> HIDE DEF t
<1>3. CASE mode[w] = "seek"
  <2>1. Line(w) = SeekTs(st[w], Ext, t, req[w].timestamp, abs[w]) /\ SeekShape(st[w])
    BY <1>3 DEF Line, t, Shape
  <2>2. CASE After(t, abs[w])
    <3>1. SeekAdvance(st[w], t, req[w].timestamp, Line(w))
      BY <1>1, <1>2, <2>1, <2>2, SeekTsFields
    <3> QED BY <1>1, <1>2, <1>3, <2>1, <3>1, SeekLineShape
  <2>3. CASE ~After(t, abs[w])
    BY <1>3, <2>1, <2>3 DEF SeekTs
  <2> QED BY <2>2, <2>3
<1>4. CASE mode[w] = "session"
  <2>1. Line(w) = SessionTs(st[w], Ext, t) /\ SessionShape(st[w]) /\ mode[w] # "seek"
    BY <1>4 DEF Line, t, Shape
  <2>2. CASE t = st[w].sess.last_time
    <3>1. Line(w) = [st[w] EXCEPT !.index = @ + 1] BY <2>1, <2>2 DEF SessionTs
    <3>2. LET r == Line(w) IN
          /\ r.index = st[w].index + 1 /\ r.num = st[w].num
          /\ r.at = st[w].at /\ r.segs = st[w].segs /\ r.sess = st[w].sess
      BY <1>2, <3>1, SessionTsFound
    <3>3. st[w].index \in {-1} \cup Nat /\ st[w].at \in Nat /\ Len(st[w].segs) \in Nat
      BY <1>2 DEF ScanState
    <3>4. SessionShape(Line(w))
      <4>1. CASE st[w].index = -1
        <5>1. Line(w).index = 0 /\ Len(Line(w).segs) = 0 /\ Line(w).num = NoNum /\ Line(w).at = 0
          BY SMTT(30), <2>1, <3>2, <4>1 DEF SessionShape
        <5> QED BY <5>1 DEF SessionShape
      <4>2. CASE st[w].index = 0
        <5>1. Line(w).index = 1 /\ Len(Line(w).segs) <= 1 /\ Line(w).num = NoNum /\ Line(w).at = 0
          BY <2>1, <3>2, <4>2 DEF SessionShape
        <5>2. Capped(1) = 1 BY DEF Capped, PlaylistSize
        <5> QED BY <3>2, <3>3, <5>1, <5>2 DEF SessionShape
      <4>3. CASE st[w].index >= 1
        <5>1. Capped(st[w].index + 1) >= Capped(st[w].index) /\ Capped(st[w].index) \in Int
          BY <3>3, <4>3 DEF Capped, PlaylistSize
        <5>2. Capped(st[w].index + 1) \in Int BY <3>3, <4>3 DEF Capped, PlaylistSize
        <5>3. Len(st[w].segs) <= st[w].at + Capped(st[w].index + 1)
          BY <2>1, <3>3, <4>3, <5>1, <5>2 DEF SessionShape
        <5> QED BY SMTT(30), <2>1, <3>2, <3>3, <4>3, <5>3 DEF SessionShape
      <4> QED BY <3>3, <4>1, <4>2, <4>3
    <3> QED BY <2>1, <3>4
  <2>3. CASE t # st[w].sess.last_time /\ After(t, st[w].sess.last_time)
    <3>1. SessionAdvance(st[w], t, Line(w))
      BY <1>1, <1>2, <1>4, <2>1, <2>3, SessionTsFields
    <3> QED BY <1>1, <1>2, <1>4, <2>1, <3>1, SessionLineShape
  <2>4. CASE t # st[w].sess.last_time /\ ~After(t, st[w].sess.last_time)
    BY <2>1, <2>4 DEF SessionTs
  <2> QED BY <2>2, <2>3, <2>4
<1> QED BY <1>2, <1>3, <1>4

-----------------------------------------------------------------------------
(* What a worker knows of its session between get_session and the answer.  *)
Local(w) ==
    /\ pc[w] = "open" /\ mode[w] = "session" => st[w] = SessionStart(st[w].sess)
    /\ pc[w] \in {"open", "scan", "put"} /\ mode[w] = "session"
         => Reached(st[w].sess, origin[w])
    /\ pc[w] = "put" => Reached(st[w].sess, origin[w])
    /\ pc[w] \in {"scan", "put"} => Shape(w)

(* One session is the other moved forward.                                 *)
Advanced(x, y) ==
    /\ x.sequence = y.sequence + 1
    /\ x.last_time > y.last_time
    /\ x.timestamp = y.timestamp

(* As long as nobody else writes it, the session in Redis is the one the   *)
(* worker has read, until the worker has moved it forward itself.          *)
Fresh(w) ==
    /\ pc[w] \in {"open", "scan", "put"} /\ mode[w] = "session"
    /\ w \notin stale /\ store[req[w].key] # NoSession
    => IF pc[w] = "put" THEN Advanced(st[w].sess, store[req[w].key])
       ELSE st[w].sess = store[req[w].key]

Follows ==
    /\ Base /\ Removing /\ SequenceNeverAhead
    /\ \A w \in Workers : Local(w) /\ Fresh(w)

(* A step that leaves a worker's locals alone, and its session alone,      *)
(* removes it or marks the worker as stale.                                *)
LEMMA LocalFrame ==
    ASSUME NEW v, rec' = rec, st'[v] = st[v], mode'[v] = mode[v],
           origin'[v] = origin[v], pc'[v] = pc[v], Local(v)
    PROVE  Local(v)'
BY DEF Local, Shape, Reached

LEMMA FreshFrame ==
    ASSUME NEW v, st'[v] = st[v], mode'[v] = mode[v], pc'[v] = pc[v], req'[v] = req[v],
           v \in stale => v \in stale',
           \/ v \in stale' \/ store'[req[v].key] = NoSession
           \/ store'[req[v].key] = store[req[v].key],
           Fresh(v)
    PROVE  Fresh(v)'
BY DEF Fresh, Advanced

(* A step of one worker that leaves the recording and Redis alone.         *)
LEMMA FollowsWorker ==
    ASSUME Follows, NEW w \in Workers, Base', Removing',
           UNCHANGED <<rec, store>>,
           \A k \in Keys : origin'[k] = origin[k],
           \A v \in Workers \ {w} :
               /\ st'[v] = st[v] /\ mode'[v] = mode[v] /\ req'[v] = req[v]
               /\ origin'[v] = origin[v] /\ pc'[v] = pc[v]
               /\ v \in stale => v \in stale',
           Local(w)', Fresh(w)'
    PROVE  Follows'
<1>1. SequenceNeverAhead' BY DEF Follows, SequenceNeverAhead
<1>2. ASSUME NEW v \in Workers PROVE Local(v)' /\ Fresh(v)'
  <2>1. CASE v = w BY <2>1
  <2>2. CASE v # w
    <3>1. Local(v) /\ Fresh(v) BY DEF Follows
    <3>2. Local(v)' BY <2>2, <3>1, LocalFrame
    <3>3. Fresh(v)' BY <2>2, <3>1, FreshFrame
    <3> QED BY <3>2, <3>3
  <2> QED BY <2>1, <2>2
<1> QED BY <1>1, <1>2 DEF Follows

(* A step that leaves the recording alone and writes one key.              *)
LEMMA FollowsStore ==
    ASSUME Follows, NEW q \in Keys, Base', Removing', rec' = rec,
           \A k \in Keys \ {q} : store'[k] = store[k] /\ origin'[k] = origin[k],
           store'[q] # NoSession => Reached(store[q], origin[q])',
           \A v \in Workers : Local(v)' /\ Fresh(v)'
    PROVE  Follows'
<1>1. ASSUME NEW k \in Keys, store'[k] # NoSession
      PROVE  Reached(store[k], origin[k])'
  <2>1. CASE k = q BY <1>1, <2>1
  <2>2. CASE k # q
    <3>1. store'[k] = store[k] /\ origin'[k] = origin[k] BY <2>2
    <3>2. Reached(store[k], origin[k])
      BY <1>1, <3>1 DEF Follows, SequenceNeverAhead, Reached
    <3> QED BY <3>1, <3>2 DEF Reached
  <2> QED BY <2>1, <2>2
<1>2. SequenceNeverAhead' BY <1>1 DEF SequenceNeverAhead, Reached
<1> QED BY <1>2 DEF Follows

(* The recording only grows.                                               *)
LEMMA FollowsRecord ==
    ASSUME Follows, Base', Removing', Record
    PROVE  Follows'
<1>0. Base /\ Len(rec) \in Nat BY DEF Follows, Base, TypeOK
<1>1. /\ Len(rec') = Len(rec) + 1
      /\ \A i \in 1..Len(rec) : rec'[i] = rec[i]
      /\ UNCHANGED <<store, pc, req, mode, abs, pos, end, st, origin, stale>>
  BY <1>0, RecordStep
<1>2. ASSUME NEW x, NEW o, o + x.sequence \in Int, Reached(x, o)
      PROVE  \E j \in (o + x.sequence)..Len(rec') : j > 0 /\ x.last_time = rec'[j]
  <2>1. PICK j \in (o + x.sequence)..Len(rec) : j > 0 /\ x.last_time = rec[j]
    BY <1>2 DEF Reached
  <2>2. j \in 1..Len(rec) /\ j \in (o + x.sequence)..Len(rec') BY <1>0, <1>1, <1>2, <2>1
  <2> QED BY <1>1, <2>1, <2>2
<1>3. SequenceNeverAhead'
  <2>1. ASSUME NEW k \in Keys, store[k] # NoSession
        PROVE  \E j \in (origin[k] + store[k].sequence)..Len(rec') :
                   j > 0 /\ store[k].last_time = rec'[j]
    <3>1. origin[k] + store[k].sequence \in Int
      BY <1>0, <2>1 DEF Base, TypeOK, Session
    <3>2. Reached(store[k], origin[k]) BY <2>1 DEF Follows, SequenceNeverAhead, Reached
    <3> QED BY <1>2, <3>1, <3>2
  <2> QED BY <1>1, <2>1 DEF SequenceNeverAhead
<1>4. ASSUME NEW w \in Workers PROVE Local(w)'
  <2>1. origin[w] + st[w].sess.sequence \in Int
    <3>1. st[w] \in ScanState /\ origin[w] \in Nat BY <1>0 DEF Base, TypeOK
    <3>2. st[w].sess.sequence \in Nat BY <3>1 DEF ScanState, SessionDef
    <3> QED BY <3>1, <3>2
  <2>2. Reached(st[w].sess, origin[w]) => Reached(st[w].sess, origin[w])'
    BY <1>1, <1>2, <2>1 DEF Reached
  <2>3. Local(w) BY DEF Follows
  <2> QED BY <1>1, <2>2, <2>3 DEF Local, Shape
<1>5. ASSUME NEW w \in Workers PROVE Fresh(w)'
  BY <1>1, FreshFrame DEF Follows
<1> QED BY <1>3, <1>4, <1>5 DEF Follows

(* get_session: the worker starts from what Redis holds.                   *)
LEMMA FollowsGet ==
    ASSUME Follows, NEW w \in Workers, Base', Removing', GetSession(w)
    PROVE  Follows'
<1>0. /\ pc \in [Workers -> {"idle", "get", "remove", "open", "scan", "put"}]
      /\ mode \in [Workers -> {"seek", "session"}]
      /\ st \in [Workers -> ScanState] /\ origin \in [Keys \cup Workers -> Nat]
      /\ store \in [Keys -> Session \cup {NoSession}]
      /\ \A k \in Keys : k \notin Workers
      /\ pc[w] = "get" /\ req[w].key \in Keys
  BY NamesAssumption DEF Follows, Base, TypeOK, GetSession, Request
<1>1. UNCHANGED <<rec, store, req>> /\ stale' = stale \ {w}
  BY DEF GetSession, file
<1>2. ASSUME NEW q \in {"open", "remove"}, pc' = [pc EXCEPT ![w] = q],
             mode' = [mode EXCEPT ![w] = "seek"], UNCHANGED <<st, origin>>
      PROVE  Follows'
  <2>1. Local(w)' /\ Fresh(w)' BY <1>0, <1>2 DEF Local, Fresh
  <2>2. \A v \in Workers \ {w} :
            /\ st'[v] = st[v] /\ mode'[v] = mode[v] /\ req'[v] = req[v]
            /\ origin'[v] = origin[v] /\ pc'[v] = pc[v]
            /\ v \in stale => v \in stale'
    BY <1>0, <1>1, <1>2
  <2> QED BY <1>1, <1>2, <2>1, <2>2, FollowsWorker
<1>3. ASSUME store[req[w].key] # NoSession, pc' = [pc EXCEPT ![w] = "open"],
             mode' = [mode EXCEPT ![w] = "session"],
             st' = [st EXCEPT ![w] = SessionStart(store[req[w].key])],
             origin' = [origin EXCEPT ![w] = origin[req[w].key]]
      PROVE  Follows'
  <2> DEFINE x == store[req[w].key]
  <2>1. x \in Session /\ Reached(x, origin[req[w].key])
    BY <1>0, <1>3 DEF Follows, SequenceNeverAhead, Reached
  <2>2. SessionStart(x).sess = x BY <2>1, StartTypes
  <2> HIDE DEF x
  <2>3. /\ st'[w] = SessionStart(x) /\ origin'[w] = origin[req[w].key]
        /\ pc'[w] = "open" /\ mode'[w] = "session" /\ store'[req'[w].key] = x
    BY <1>0, <1>1, <1>3 DEF x
  <2>4. st'[w].sess = x BY <2>2, <2>3
  <2>5. Reached(st[w].sess, origin[w])' BY <1>1, <2>1, <2>3, <2>4 DEF Reached
  <2>6. Local(w)' BY <2>3, <2>4, <2>5 DEF Local
  <2>7. Fresh(w)' BY <2>3, <2>4 DEF Fresh
  <2>8. \A k \in Keys : origin'[k] = origin[k] BY <1>0, <1>3
  <2>9. \A v \in Workers \ {w} :
            /\ st'[v] = st[v] /\ mode'[v] = mode[v] /\ req'[v] = req[v]
            /\ origin'[v] = origin[v] /\ pc'[v] = pc[v]
            /\ v \in stale => v \in stale'
    BY <1>0, <1>1, <1>3
  <2> QED BY <1>1, <2>6, <2>7, <2>8, <2>9, FollowsWorker
<1> QED BY <1>2, <1>3 DEF GetSession

(* remove_session: whoever else works on the key is stale afterwards.      *)
LEMMA FollowsRemove ==
    ASSUME Follows, NEW w \in Workers, Base', Removing', RemoveSession(w)
    PROVE  Follows'
<1>0. /\ pc \in [Workers -> {"idle", "get", "remove", "open", "scan", "put"}]
      /\ store \in [Keys -> Session \cup {NoSession}]
      /\ pc[w] = "remove" /\ mode[w] = "seek" /\ req[w].key \in Keys
  BY DEF Follows, Base, TypeOK, RemoveSession, Request, Removing
<1>1. /\ UNCHANGED <<rec, st, mode, req, origin>>
      /\ pc' = [pc EXCEPT ![w] = "open"] /\ stale \subseteq stale'
      /\ store' = [store EXCEPT ![req[w].key] = NoSession]
  BY DEF RemoveSession, file, locals
<1>2. /\ store'[req[w].key] = NoSession
      /\ \A k \in Keys \ {req[w].key} : store'[k] = store[k] /\ origin'[k] = origin[k]
  BY <1>0, <1>1
<1>3. ASSUME NEW v \in Workers PROVE Local(v)' /\ Fresh(v)'
  <2>1. CASE v = w BY <1>0, <1>1, <2>1 DEF Local, Fresh
  <2>2. CASE v # w
    <3>1. pc'[v] = pc[v] BY <1>0, <1>1, <2>2
    <3>2. Local(v)' BY <1>1, <3>1, LocalFrame DEF Follows
    <3>3. store'[req[v].key] = NoSession \/ store'[req[v].key] = store[req[v].key]
      BY <1>0, <1>1
    <3>4. Fresh(v)' BY <1>1, <3>1, <3>3, FreshFrame DEF Follows
    <3> QED BY <3>2, <3>4
  <2> QED BY <2>1, <2>2
<1> QED BY <1>0, <1>1, <1>2, <1>3, FollowsStore

(* The file is opened with the locals that a loop starts with.             *)
LEMMA FollowsOpen ==
    ASSUME Follows, NEW w \in Workers, Base', Removing', OpenFile(w)
    PROVE  Follows'
<1>0. /\ pc \in [Workers -> {"idle", "get", "remove", "open", "scan", "put"}]
      /\ mode \in [Workers -> {"seek", "session"}]
      /\ st \in [Workers -> ScanState] /\ pc[w] = "open" /\ Local(w) /\ Fresh(w)
  BY DEF Follows, Base, TypeOK, OpenFile
<1>1. /\ UNCHANGED <<rec, store, mode, origin, req, stale>>
      /\ pc' = [pc EXCEPT ![w] = "scan"]
      /\ mode[w] = "seek" => st' = [st EXCEPT ![w] = SeekStart(NoSession)]
      /\ mode[w] = "session" => UNCHANGED st
  BY <1>0 DEF OpenFile, file, aux
<1>2. Local(w)' /\ Fresh(w)'
  <2>1. CASE mode[w] = "seek"
    <3>1. st'[w] = SeekStart(NoSession) /\ pc'[w] = "scan" /\ mode'[w] = "seek"
      BY <1>0, <1>1, <2>1
    <3>2. SeekShape(SeekStart(NoSession)) BY DEF SeekShape, SeekStart, Capped, PlaylistSize
    <3> QED BY <3>1, <3>2 DEF Local, Fresh, Shape
  <2>2. CASE mode[w] = "session"
    <3>1. st'[w] = st[w] /\ pc'[w] = "scan" /\ mode'[w] = "session" BY <1>0, <1>1, <2>2
    <3>2. st[w] = SessionStart(st[w].sess) /\ Reached(st[w].sess, origin[w])
      BY <1>0, <2>2 DEF Local
    <3>3. SessionShape(st[w])
      BY SMTT(30), <3>2 DEF SessionShape, SessionStart
    <3>4. Local(w)' BY <1>1, <3>1, <3>2, <3>3 DEF Local, Shape, Reached
    <3>5. Fresh(w)' BY <1>0, <1>1, <2>2, <3>1 DEF Fresh
    <3> QED BY <3>4, <3>5
  <2> QED BY <1>0, <2>1, <2>2
<1>3. \A v \in Workers \ {w} :
         /\ st'[v] = st[v] /\ mode'[v] = mode[v] /\ req'[v] = req[v]
         /\ origin'[v] = origin[v] /\ pc'[v] = pc[v]
         /\ v \in stale => v \in stale'
  BY <1>0, <1>1
<1> QED BY <1>1, <1>2, <1>3, FollowsWorker

(* A line of the second loop leaves the session alone or moves it forward  *)
(* to the segment of the line.                                             *)
LEMMA LineSession ==
    ASSUME Base, NEW w \in Workers, pc[w] = "scan", ~Eof(w), mode[w] = "session",
           Reached(st[w].sess, origin[w])
    PROVE  /\ Line(w).put = FALSE => Line(w).sess = st[w].sess
           /\ Line(w).put = TRUE => Advanced(Line(w).sess, st[w].sess)
           /\ Reached(Line(w).sess, origin[w])
<1> DEFINE t == rec[pos[w] + 1]
           x == st[w].sess
<1>1. t \in Nat /\ pos[w] + 1 \in 1..Len(rec)
  BY NextLine
<1>2. st[w] \in ScanState /\ st[w].put = FALSE /\ x \in Session /\ origin[w] \in Nat
      /\ Len(rec) \in Nat
  <2>1. st[w] \in ScanState /\ x \in Session /\ origin[w] \in Nat /\ Len(rec) \in Nat
    BY DEF Base, TypeOK
  <2>2. st[w].put \in BOOLEAN BY <2>1 DEF ScanState
  <2>3. ~st[w].put BY Zenon DEF Base, TypeOK
  <2> QED BY Zenon, <2>1, <2>2, <2>3
<1>3. PICK j \in (origin[w] + x.sequence)..Len(rec) : j > 0 /\ x.last_time = rec[j]
  BY DEF Reached
<1>4. x.sequence \in Nat /\ j \in 1..Len(rec) /\ origin[w] + x.sequence <= j
  BY <1>2, <1>3 DEF Session
<1>5. Line(w) = SessionTs(st[w], Ext, t)
  BY DEF Line
<1>6. t \in 0..IntMax /\ x.last_time \in 0..IntMax
      /\ (x.last_time < t <=> j < pos[w] + 1)
  BY <1>1, <1>3, <1>4, LaterPosition
<1>7. After(t, x.last_time) <=> t > x.last_time
  BY <1>6, AfterIsLater
<1> HIDE DEF t
<1>8. CASE t = x.last_time
  <2>1. Line(w) = [st[w] EXCEPT !.index = @ + 1] BY <1>5, <1>8 DEF SessionTs
  <2>2. Line(w).put = st[w].put /\ Line(w).sess = st[w].sess
    BY <1>2, <2>1, SessionTsFound
  <2> QED BY <1>2, <2>2
<1>9. CASE t # x.last_time /\ After(t, x.last_time)
  <2>1. SessionAdvance(st[w], t, Line(w)) BY <1>1, <1>2, <1>5, <1>9, SessionTsFields
  <2>2. CASE st[w].index = 0
    <3>1. /\ Line(w).put = TRUE
          /\ Line(w).sess = [timestamp |-> x.timestamp, last_time |-> t,
                             sequence |-> x.sequence + 1]
      BY <2>1, <2>2 DEF SessionAdvance
    <3>2. Advanced(Line(w).sess, x) BY SMTT(30), <1>6, <1>7, <1>9, <3>1 DEF Advanced
    <3>3. pos[w] + 1 \in (origin[w] + (x.sequence + 1))..Len(rec)
      BY SMTT(30), <1>1, <1>2, <1>4, <1>6, <1>7, <1>9
    <3>4. pos[w] + 1 > 0 BY <1>1, <1>2
    <3>5. Line(w).sess.sequence = x.sequence + 1 /\ Line(w).sess.last_time = rec[pos[w] + 1]
      <4>1. Line(w).sess.sequence = x.sequence + 1 /\ Line(w).sess.last_time = t
        BY <3>1
      <4> QED BY Zenon, <4>1 DEF t
    <3>6. Reached(Line(w).sess, origin[w])
      BY <3>3, <3>4, <3>5 DEF Reached
    <3> QED BY <3>1, <3>2, <3>6
  <2>3. CASE st[w].index # 0
    <3>1. Line(w).put = FALSE /\ Line(w).sess = x BY <2>1, <2>3 DEF SessionAdvance
    <3> QED BY <3>1
  <2> QED BY <2>2, <2>3
<1>10. CASE t # x.last_time /\ ~After(t, x.last_time)
  <2>1. Line(w) = st[w] BY <1>5, <1>10 DEF SessionTs
  <2> QED BY <1>2, <2>1
<1> QED BY <1>8, <1>9, <1>10

(* A line of the first loop that founds a session makes it point at the    *)
(* segment of the line.                                                    *)
LEMMA LineSeek ==
    ASSUME Base, NEW w \in Workers, pc[w] = "scan", ~Eof(w), mode[w] = "seek",
           Line(w).put = TRUE
    PROVE  Line(w).sess.sequence = 0 /\ Line(w).sess.last_time = rec[pos[w] + 1]
<1> DEFINE t == rec[pos[w] + 1]
<1>1. t \in Nat
  BY NextLine
<1>2. st[w] \in ScanState /\ st[w].put = FALSE /\ abs[w] \in Int
      /\ req[w].timestamp \in Timestamps
  <2>1. st[w] \in ScanState /\ abs[w] \in Int /\ req[w].timestamp \in Timestamps
    BY DEF Base, TypeOK, Request
  <2>2. st[w].put \in BOOLEAN BY <2>1 DEF ScanState
  <2>3. ~st[w].put BY Zenon DEF Base, TypeOK
  <2> QED BY Zenon, <2>1, <2>2, <2>3
<1>3. Line(w) = SeekTs(st[w], Ext, t, req[w].timestamp, abs[w])
  BY DEF Line
<1> HIDE DEF t
<1>4. CASE After(t, abs[w])
  <2>1. SeekAdvance(st[w], t, req[w].timestamp, Line(w))
    BY <1>1, <1>2, <1>3, <1>4, SeekTsFields
  <2>2. Line(w).sess = [timestamp |-> req[w].timestamp, last_time |-> t, sequence |-> 0]
    BY <2>1 DEF SeekAdvance
  <2> QED BY SMTT(30), <2>2 DEF t
<1>5. CASE ~After(t, abs[w])
  BY <1>2, <1>3, <1>5 DEF SeekTs
<1> QED BY <1>4, <1>5

LEMMA FollowsLine ==
    ASSUME Follows, NEW w \in Workers, Base', Removing', ReadLine(w)
    PROVE  Follows'
<1> DEFINE r == Line(w)
<1>0. /\ pc \in [Workers -> {"idle", "get", "remove", "open", "scan", "put"}]
      /\ mode[w] \in {"seek", "session"} /\ pos[w] \in Nat
      /\ st \in [Workers -> ScanState] /\ origin \in [Keys \cup Workers -> Nat]
      /\ Base /\ Local(w) /\ Fresh(w) /\ pc[w] = "scan" /\ ~Eof(w)
      /\ \A k \in Keys : k \notin Workers
  BY NamesAssumption DEF Follows, Base, TypeOK, ReadLine
<1>1. r.put \in BOOLEAN
  BY <1>0, LineType DEF ScanState
<1>2. /\ UNCHANGED <<rec, store, req, mode, stale>>
      /\ st' = [st EXCEPT ![w] = r]
      /\ pc' = [pc EXCEPT ![w] = IF r.put THEN "put" ELSE "scan"]
      /\ origin' = IF mode[w] = "seek" /\ r.put
                   THEN [origin EXCEPT ![w] = pos[w] + 1] ELSE origin
  BY DEF ReadLine, Line, file
<1>3. Shape(w) /\ (mode[w] = "session" => Reached(st[w].sess, origin[w]))
  BY <1>0 DEF Local
<1>4. IF mode[w] = "seek" THEN SeekShape(r) ELSE SessionShape(r)
  BY <1>0, <1>3, LineShape
<1>5. st'[w] = r /\ mode'[w] = mode[w]
  BY <1>0, <1>2
<1>6. r.put = TRUE => pc'[w] = "put"
  BY <1>0, <1>2
<1>7. r.put = FALSE => pc'[w] = "scan"
  BY <1>0, <1>2
<1> HIDE DEF r
<1>8. Shape(w)'
  BY <1>4, <1>5 DEF Shape
<1>9. CASE mode[w] = "session"
  <2>1. /\ r.put = FALSE => r.sess = st[w].sess
        /\ r.put = TRUE => Advanced(r.sess, st[w].sess)
        /\ Reached(r.sess, origin[w])
    BY <1>0, <1>3, <1>9, LineSession DEF r
  <2>2. origin' = origin BY <1>2, <1>9
  <2>3. Reached(st[w].sess, origin[w])' BY <1>2, <1>5, <2>1, <2>2 DEF Reached
  <2>4. Local(w)' BY <1>1, <1>6, <1>7, <1>8, <2>3 DEF Local
  <2>5. Fresh(w)'
    <3>1. SUFFICES ASSUME w \notin stale, store[req[w].key] # NoSession
                   PROVE  IF pc'[w] = "put" THEN Advanced(r.sess, store[req[w].key])
                          ELSE r.sess = store[req[w].key]
      BY <1>2, <1>5 DEF Fresh, Advanced
    <3>2. st[w].sess = store[req[w].key] BY <1>0, <1>9, <3>1 DEF Fresh
    <3> QED BY <1>1, <1>6, <1>7, <2>1, <3>2
  <2> QED BY <2>4, <2>5, <1>0, <1>2, <2>2, FollowsWorker
<1>10. CASE mode[w] = "seek"
  <2>1. Fresh(w)' BY <1>5, <1>10 DEF Fresh
  <2>2. Local(w)'
    <3>1. CASE r.put = TRUE
      <4>1. r.sess.sequence = 0 /\ r.sess.last_time = rec[pos[w] + 1]
        BY <1>0, <1>10, <3>1, LineSeek DEF r
      <4>2. origin'[w] = pos[w] + 1 BY <1>0, <1>2, <1>10, <3>1
      <4>3. pos[w] + 1 \in 1..Len(rec) /\ Len(rec) \in Nat
        BY SMTT(30), <1>0, NextLine DEF Base, TypeOK
      <4>4. /\ pos[w] + 1 \in (origin'[w] + r.sess.sequence)..Len(rec)
            /\ pos[w] + 1 > 0
        BY SMTT(30), <1>0, <4>1, <4>2, <4>3
      <4>5. Reached(st[w].sess, origin[w])' BY <1>2, <1>5, <4>1, <4>4 DEF Reached
      <4> QED BY <1>5, <1>6, <1>8, <1>10, <3>1, <4>5 DEF Local
    <3>2. CASE r.put = FALSE
      BY <1>5, <1>7, <1>8, <1>10, <3>2 DEF Local
    <3> QED BY <1>1, <3>1, <3>2
  <2>3. \A k \in Keys : origin'[k] = origin[k] BY <1>0, <1>2
  <2>4. \A v \in Workers \ {w} : origin'[v] = origin[v] BY <1>0, <1>2
  <2> QED BY <1>0, <1>2, <2>1, <2>2, <2>3, <2>4, FollowsWorker
<1> QED BY <1>0, <1>9, <1>10

(* putSession: the other requests of the viewer are stale from now on.     *)
LEMMA FollowsPut ==
    ASSUME Follows, NEW w \in Workers, Base', Removing', PutSession(w)
    PROVE  Follows'
<1>0. /\ pc \in [Workers -> {"idle", "get", "remove", "open", "scan", "put"}]
      /\ st \in [Workers -> ScanState] /\ origin \in [Keys \cup Workers -> Nat]
      /\ store \in [Keys -> Session \cup {NoSession}]
      /\ pc[w] = "put" /\ req[w].key \in Keys /\ Local(w)
      /\ \A k \in Keys : k \notin Workers
  BY NamesAssumption DEF Follows, Base, TypeOK, PutSession, Request
<1>q. PICK q \in Keys : q = req[w].key
  BY <1>0
<1> DEFINE x == [st[w] EXCEPT !.put = FALSE]
<1>1. /\ UNCHANGED <<rec, req, mode>>
      /\ store' = [store EXCEPT ![q] = st[w].sess]
      /\ origin' = [origin EXCEPT ![q] = origin[w]]
      /\ st' = [st EXCEPT ![w] = x]
      /\ pc' = [pc EXCEPT ![w] = "scan"]
      /\ stale' = stale \cup Others(w)
  BY <1>q DEF PutSession, file
<1>2. /\ x.index = st[w].index /\ x.num = st[w].num
      /\ x.at = st[w].at /\ x.segs = st[w].segs /\ x.sess = st[w].sess
  BY <1>0, PutDone
<1> HIDE DEF x
<1>3. /\ store'[q] = st[w].sess /\ origin'[q] = origin[w]
      /\ \A k \in Keys \ {q} : store'[k] = store[k] /\ origin'[k] = origin[k]
      /\ \A v \in Workers : origin'[v] = origin[v]
  BY <1>0, <1>1
<1>4. Reached(st[w].sess, origin[w]) /\ Shape(w)
  BY <1>0 DEF Local
<1>5. Reached(store[q], origin[q])'
  BY <1>1, <1>3, <1>4 DEF Reached
<1>6. st'[w] = x /\ pc'[w] = "scan" /\ mode'[w] = mode[w] /\ req'[w] = req[w]
  BY <1>0, <1>1
<1>7. Local(w)' /\ Fresh(w)'
  <2>1. Reached(st[w].sess, origin[w])' BY <1>1, <1>2, <1>3, <1>4, <1>6 DEF Reached
  <2>2. Shape(w)' BY <1>2, <1>4, <1>6 DEF Shape, SeekShape, SessionShape
  <2>3. Local(w)' BY <1>6, <2>1, <2>2 DEF Local
  <2>4. Fresh(w)' BY <1>2, <1>3, <1>6, <1>q DEF Fresh
  <2> QED BY <2>3, <2>4
<1>8. ASSUME NEW v \in Workers, v # w PROVE Local(v)' /\ Fresh(v)'
  <2>1. /\ st'[v] = st[v] /\ mode'[v] = mode[v] /\ pc'[v] = pc[v] /\ req'[v] = req[v]
        /\ origin'[v] = origin[v]
    BY <1>0, <1>1, <1>3, <1>8
  <2>2. Local(v) /\ Fresh(v) BY DEF Follows
  <2>3. Local(v)' BY <1>1, <2>1, <2>2, LocalFrame
  <2>4. CASE pc[v] = "idle"
    BY <2>1, <2>3, <2>4 DEF Fresh
  <2>5. CASE pc[v] # "idle" /\ req[v].key = q
    <3>1. v \in stale' BY <1>1, <1>8, <1>q, <2>5 DEF Others
    <3> QED BY <2>3, <3>1 DEF Fresh
  <2>6. CASE pc[v] # "idle" /\ req[v].key # q
    <3>1. req[v].key \in Keys BY <2>6 DEF Follows, Base, TypeOK, Request
    <3>2. store'[req[v].key] = store[req[v].key] BY <1>3, <2>6, <3>1
    <3>3. Fresh(v)' BY <1>1, <2>1, <2>2, <3>2, FreshFrame
    <3> QED BY <2>3, <3>3
  <2> QED BY <2>3, <2>4, <2>5, <2>6
<1>9. \A v \in Workers : Local(v)' /\ Fresh(v)'
  BY <1>7, <1>8
<1> QED BY <1>1, <1>3, <1>5, <1>9, FollowsStore

(* The steps that end a session or begin and end a call.                   *)
LEMMA FollowsRest ==
    ASSUME Follows, Base', Removing',
           \/ \E k \in Keys : Expire(k)
           \/ \E w \in Workers : Receive(w) \/ (Return(w) /\ UNCHANGED <<file, store>>)
           \/ UNCHANGED vars
    PROVE  Follows'
<1>0. /\ pc \in [Workers -> {"idle", "get", "remove", "open", "scan", "put"}]
      /\ mode \in [Workers -> {"seek", "session"}]
      /\ req \in [Workers -> Request \cup {NoReq}]
      /\ st \in [Workers -> ScanState] /\ origin \in [Keys \cup Workers -> Nat]
      /\ store \in [Keys -> Session \cup {NoSession}]
      /\ \A k \in Keys : k \notin Workers
  BY NamesAssumption DEF Follows, Base, TypeOK
<1>1. ASSUME NEW k \in Keys, Expire(k) PROVE Follows'
  <2>1. /\ UNCHANGED <<rec, pc, req, mode, st, origin, stale>>
        /\ store' = [store EXCEPT ![k] = NoSession]
    BY <1>1 DEF Expire, file, locals, aux
  <2>2. /\ store'[k] = NoSession
        /\ \A q \in Keys \ {k} : store'[q] = store[q] /\ origin'[q] = origin[q]
    BY <1>0, <2>1
  <2>3. ASSUME NEW v \in Workers PROVE Local(v)' /\ Fresh(v)'
    <3>1. Local(v) /\ Fresh(v) BY DEF Follows
    <3>2. Local(v)' BY <2>1, <3>1, LocalFrame
    <3>3. store'[req[v].key] = NoSession \/ store'[req[v].key] = store[req[v].key]
      BY <1>0, <2>1
    <3>4. Fresh(v)' BY <2>1, <3>1, <3>3, FreshFrame
    <3> QED BY <3>2, <3>4
  <2> QED BY <2>1, <2>2, <2>3, FollowsStore
<1>2. ASSUME NEW w \in Workers, Receive(w) PROVE Follows'
  <2>1. /\ UNCHANGED <<rec, store, mode, st, origin, stale>>
        /\ pc' = [pc EXCEPT ![w] = "get"]
        /\ \E r \in Request : req' = [req EXCEPT ![w] = r]
    BY <1>2 DEF Receive, file, aux
  <2>2. pc'[w] = "get" BY <1>0, <2>1
  <2>3. Local(w)' /\ Fresh(w)' BY <2>2 DEF Local, Fresh
  <2>4. \A v \in Workers \ {w} : pc'[v] = pc[v] /\ req'[v] = req[v] BY <1>0, <2>1
  <2> QED BY <2>1, <2>3, <2>4, FollowsWorker
<1>3. ASSUME NEW w \in Workers, Return(w), UNCHANGED <<file, store>> PROVE Follows'
  <2>1. pc'[w] = "idle" BY <1>0, <1>3 DEF Return
  <2>2. Local(w)' /\ Fresh(w)' BY <2>1 DEF Local, Fresh
  <2>3. \A v \in Workers \ {w} :
           /\ st'[v] = st[v] /\ mode'[v] = mode[v] /\ req'[v] = req[v]
           /\ origin'[v] = origin[v] /\ pc'[v] = pc[v]
           /\ v \in stale => v \in stale'
    BY SMTT(30), <1>0, <1>3 DEF Return
  <2>4. rec' = rec /\ store' = store /\ \A k \in Keys : origin'[k] = origin[k]
    BY <1>0, <1>3 DEF Return, file
  <2> QED BY <2>2, <2>3, <2>4, FollowsWorker
<1>4. CASE UNCHANGED vars
  <2>1. UNCHANGED <<rec, store, pc, req, mode, st, origin, stale>>
    BY <1>4 DEF vars, file, locals, aux
  <2>2. ASSUME NEW v \in Workers PROVE Local(v)' /\ Fresh(v)'
    BY <2>1, LocalFrame, FreshFrame DEF Follows
  <2>3. SequenceNeverAhead' BY <2>1 DEF Follows, SequenceNeverAhead
  <2> QED BY <2>2, <2>3 DEF Follows
<1> QED BY <1>1, <1>2, <1>3, <1>4

-----------------------------------------------------------------------------
LEMMA FollowsInit == Init => Follows
<1> SUFFICES ASSUME Init PROVE Follows
  OBVIOUS
<1>1. Base /\ Removing BY BaseInit DEF Init, Removing
<1>2. SequenceNeverAhead BY DEF Init, SequenceNeverAhead
<1>3. \A w \in Workers : pc[w] = "idle" BY DEF Init
<1>4. \A w \in Workers : Local(w) /\ Fresh(w) BY <1>3 DEF Local, Fresh
<1> QED BY <1>1, <1>2, <1>4 DEF Follows

LEMMA FollowsStep == Follows /\ [Next]_vars => Follows'
<1> SUFFICES ASSUME Follows, [Next]_vars PROVE Follows'
  OBVIOUS
<1>1. Base' /\ Removing'
  <2>1. Base /\ Removing BY DEF Follows
  <2>2. TypeOK' /\ Ordered' /\ InFile' BY <2>1, TypeStep, OrderedStep, InFileStep
  <2> QED BY <2>1, <2>2, RemovingStep DEF Base
<1> QED
  BY <1>1, FollowsRecord, FollowsGet, FollowsRemove, FollowsOpen, FollowsLine, FollowsPut,
     FollowsRest DEF Next, Handle, Finish, Throw

(* SequenceNeverAhead, for both kinds of file: the segment the session in  *)
(* Redis points at is never behind the one its number counts to, so a      *)
(* viewer whose segments slid out of the .m3u8 is moved on, never back.    *)
THEOREM SequenceNeverAheadHolds == Spec => []SequenceNeverAhead
<1>1. Follows => SequenceNeverAhead BY DEF Follows
<1> QED BY FollowsInit, FollowsStep, <1>1, PTL DEF Spec

(* NumberPrecedesHead, for both kinds of file: whatever was read of the    *)
(* file, the number of the playlist stands directly in front of the        *)
(* segment the session moved to, behind at most one other, and no playlist *)
(* lists more than three segments from there on.                           *)
THEOREM NumberPrecedesHeadHolds == Spec => []NumberPrecedesHead
<1>1. Follows => NumberPrecedesHead
  <2> SUFFICES ASSUME Follows, NEW w \in Workers, Answering(w)
               PROVE  /\ Playlist(w).num # NoNum => Playlist(w).at \in {0, 1}
                      /\ Playlist(w).num # NoNum /\ Playlist(w).at < Len(Playlist(w).segs)
                           => Playlist(w).segs[Playlist(w).at + 1].ts = Playlist(w).sess.last_time
                      /\ Len(Playlist(w).segs) <= PlaylistSize + Playlist(w).at
    BY DEF NumberPrecedesHead
  <2>1. /\ Shape(w) /\ st[w] \in ScanState /\ mode[w] \in {"seek", "session"}
    BY DEF Follows, Local, Answering, Base, TypeOK
  <2>2. st[w].index \in {-1} \cup Nat /\ Len(st[w].segs) \in Nat /\ st[w].at \in Nat
    BY <2>1 DEF ScanState
  <2>3. CASE mode[w] = "seek"
    <3>1. Playlist(w) = st[w] /\ SeekShape(st[w]) BY <2>1, <2>3 DEF Playlist, Shape
    <3>2. Len(st[w].segs) <= PlaylistSize
      BY SMTT(30), <2>2, <3>1 DEF SeekShape, Capped, PlaylistSize
    <3>3. Len(st[w].segs) > 0 => st[w].index >= 1
      BY <2>2, <3>1 DEF SeekShape, Capped, PlaylistSize
    <3> QED BY SMTT(30), <2>2, <3>1, <3>2, <3>3 DEF SeekShape, PlaylistSize
  <2>4. CASE mode[w] = "session"
    <3>1. SessionShape(st[w]) BY <2>1, <2>4 DEF Shape
    <3>2. CASE st[w].index = 0
      <4>1. Playlist(w) = [st[w] EXCEPT !.num = st[w].sess.sequence, !.at = Len(st[w].segs)]
        BY <2>4, <3>2 DEF Playlist, SessionEnd
      <4>2. Playlist(w).at = Len(st[w].segs) /\ Playlist(w).segs = st[w].segs
        BY <2>1, <4>1 DEF ScanState
      <4>3. Len(st[w].segs) <= 1 BY <3>1, <3>2 DEF SessionShape
      <4>4. \A n \in Nat : n <= 1 => n \in {0, 1} OBVIOUS
      <4>5. Len(st[w].segs) \in {0, 1} BY Zenon, <2>2, <4>3, <4>4
      <4> QED BY <4>2, <4>5 DEF PlaylistSize
    <3>3. CASE st[w].index # 0
      <4>1. Playlist(w) = st[w] BY <2>4, <3>3 DEF Playlist, SessionEnd
      <4>2. Len(st[w].segs) <= PlaylistSize + st[w].at
        BY <2>2, <3>1, <3>3 DEF SessionShape, Capped, PlaylistSize
      <4> QED BY <3>1, <4>1, <4>2 DEF SessionShape
    <3> QED BY <3>2, <3>3
  <2> QED BY <2>1, <2>3, <2>4
<1> QED BY FollowsInit, FollowsStep, <1>1, PTL DEF Spec

(* FreshAdvance: update_session moves a session that nobody else has       *)
(* changed since get_session by exactly one number, to a later segment of  *)
(* the same seek; only requests that overlap can make a number jump.       *)
THEOREM FreshAdvanceHolds == Spec => FreshAdvance
<1> DEFINE A == \A w \in Workers :
              LET k == req[w].key IN
              (/\ pc[w] = "put" /\ pc'[w] = "scan"
               /\ mode[w] = "session" /\ w \notin stale /\ store[k] # NoSession)
              => /\ store'[k].sequence = store[k].sequence + 1
                 /\ store'[k].last_time > store[k].last_time
                 /\ store'[k].timestamp = store[k].timestamp
<1>1. Follows /\ [Next]_vars => [A]_vars
  <2> SUFFICES ASSUME Follows, Next, NEW w \in Workers, pc[w] = "put", pc'[w] = "scan",
                      mode[w] = "session", w \notin stale, store[req[w].key] # NoSession
               PROVE  Advanced(store'[req[w].key], store[req[w].key])
    BY DEF Advanced
  <2>1. PutSession(w)
    <3>1. pc \in [Workers -> {"idle", "get", "remove", "open", "scan", "put"}]
      BY DEF Follows, Base, TypeOK
    <3>2. ASSUME NEW v \in Workers, v # w, NEW p, pc' = [pc EXCEPT ![v] = p] PROVE FALSE
      BY <3>1, <3>2
    <3>3. pc' # pc BY <3>1
    <3>4. PICK v \in Workers : Receive(v) \/ Handle(v) \/ Throw(v)
      BY <3>3 DEF Next, Record, Expire
    <3>5. \E p : pc' = [pc EXCEPT ![v] = p]
      BY <3>4 DEF Receive, Handle, Throw, GetSession, RemoveSession, OpenFile, ReadLine,
                  PutSession, Finish, Return
    <3>6. v = w BY <3>2, <3>5
    <3> QED
      BY <3>1, <3>4, <3>6 DEF Receive, Handle, Throw, GetSession, RemoveSession, OpenFile,
                              ReadLine, Finish, Return, Answering
  <2>2. Advanced(st[w].sess, store[req[w].key])
    BY DEF Follows, Fresh
  <2>3. store'[req[w].key] = st[w].sess
    BY <2>1 DEF PutSession, Follows, Base, TypeOK, Request
  <2> QED BY <2>2, <2>3
<1> QED BY FollowsInit, FollowsStep, <1>1, PTL DEF Spec, FreshAdvance

=============================================================================
