-------------------------- MODULE SeekSessionTypes --------------------------
(***************************************************************************)
(* Proofs about SeekSession, first part, for every number of threads,      *)
(* viewers and segments: what a line does to the locals of a loop, type    *)
(* correctness and the order of the recording.                             *)
(***************************************************************************)
EXTENDS SeekSession, TLAPS

(* The recording lists its segments in the order of their times.           *)
Ordered ==
    /\ FirstTime <= now /\ now <= MaxTime
    /\ \A i \in 1..Len(rec) : rec[i] <= now
    /\ \A i, j \in 1..Len(rec) : i < j => rec[i] < rec[j]

(* A reader never runs past the end of what it may read.                   *)
InFile ==
    \A w \in Workers : pc[w] \in {"scan", "put"} =>
        /\ end[w] <= Len(rec)
        /\ pos[w] <= (IF Indexed THEN Len(rec) ELSE end[w])

(* How many of the segments read so far the playlist lists.                *)
Capped(n) == IF n < PlaylistSize THEN n ELSE PlaylistSize

-----------------------------------------------------------------------------
(* A sequence with one element more.                                       *)
LEMMA Appended ==
    ASSUME NEW S, NEW seq \in Seq(S), NEW e \in S
    PROVE  /\ Append(seq, e) \in Seq(S)
           /\ Len(Append(seq, e)) = Len(seq) + 1
           /\ \A i \in 1..Len(seq) : Append(seq, e)[i] = seq[i]
           /\ Append(seq, e)[Len(seq) + 1] = e
OBVIOUS

(* Java's "a - b > 0" is "a > b" as long as both ints are not negative.    *)
LEMMA AfterIsLater ==
    ASSUME NEW a \in 0..IntMax, NEW b \in 0..IntMax
    PROVE  After(a, b) <=> a > b
BY IntMaxAssumption DEF After, Wrap

(* The list of segments stays one, and grows by one while it is shorter    *)
(* than a playlist.                                                        *)
LEMMA EmitType ==
    ASSUME NEW segs \in Seq(Segments), NEW index \in Int, NEW t \in Nat
    PROVE  Emit(segs, index, Ext, t) \in Seq(Segments)
<1>1. Segment(Ext, t) \in Segments
  BY DEF Segment, Segments
<1> QED
  BY <1>1, Appended DEF Emit

LEMMA EmitAppends ==
    ASSUME NEW segs \in Seq(Segments), NEW index \in Nat, NEW t \in Nat,
           Len(segs) = Capped(index)
    PROVE  /\ Len(Emit(segs, index, Ext, t)) = Capped(index + 1)
           /\ \A i \in 1..Len(segs) : Emit(segs, index, Ext, t)[i] = segs[i]
           /\ index < PlaylistSize => Emit(segs, index, Ext, t)[index + 1].ts = t
<1>1. Segment(Ext, t) \in Segments /\ Segment(Ext, t).ts = t
  BY DEF Segment, Segments
<1>2. CASE index < PlaylistSize
  <2> DEFINE r == Append(segs, Segment(Ext, t))
  <2>1. /\ Len(r) = Len(segs) + 1
        /\ \A i \in 1..Len(segs) : r[i] = segs[i]
        /\ r[Len(segs) + 1] = Segment(Ext, t)
    BY <1>1, Appended
  <2>2. Emit(segs, index, Ext, t) = r
    BY <1>2 DEF Emit
  <2> HIDE DEF r
  <2> QED
    BY <1>1, <1>2, <2>1, <2>2 DEF Capped, PlaylistSize
<1>3. CASE ~(index < PlaylistSize)
  <2>1. Emit(segs, index, Ext, t) = segs
    BY <1>3 DEF Emit
  <2>2. Capped(index) = Capped(index + 1)
    BY <1>3 DEF Capped, PlaylistSize
  <2> QED
    BY <1>3, <2>1, <2>2
<1> QED
  BY <1>2, <1>3

LEMMA EmptyEmit ==
    ASSUME NEW t \in Nat
    PROVE  /\ Len(Emit(<<>>, 0, Ext, t)) = Capped(1) /\ Capped(1) = 1
           /\ Emit(<<>>, 0, Ext, t)[1].ts = t
<1>1. << >> \in Seq(Segments) /\ Len(<< >>) = Capped(0) /\ 0 < PlaylistSize
  BY DEF Capped, PlaylistSize
<1>2. /\ Len(Emit(<<>>, 0, Ext, t)) = Capped(0 + 1)
      /\ Emit(<<>>, 0, Ext, t)[0 + 1].ts = t
  BY ZenonT(40), <1>1, EmitAppends
<1>3. 0 + 1 = 1 /\ Capped(1) = 1
  BY DEF Capped, PlaylistSize
<1> QED
  BY <1>2, <1>3

(* What one .ts line later than the seek point, or than the segment of the *)
(* session, does to the locals of the two loops, field by field.           *)
SeekAdvance(s, t, ts, r) ==
    /\ r \in ScanState
    /\ r.index = s.index + 1 /\ r.num = s.num /\ r.at = s.at
    /\ s.index = 0 => r.put = TRUE
    /\ s.index # 0 => r.put = FALSE
    /\ r.segs = Emit(s.segs, s.index, Ext, t)
    /\ s.index = 0 => r.sess = [timestamp |-> ts, last_time |-> t, sequence |-> 0]
    /\ s.index # 0 => r.sess = s.sess

SessionAdvance(s, t, r) ==
    /\ r \in ScanState /\ r.sess \in Session
    /\ r.index = s.index + 1
    /\ s.index = 0 => r.put = TRUE
    /\ s.index # 0 => r.put = FALSE
    /\ r.segs = Emit(s.segs, s.index, Ext, t)
    /\ s.index = 0 => /\ r.sess = [timestamp |-> s.sess.timestamp, last_time |-> t,
                                   sequence |-> s.sess.sequence + 1]
                      /\ r.num = s.sess.sequence + 1
                      /\ r.at = Len(s.segs)
    /\ s.index # 0 => r.sess = s.sess /\ r.num = s.num /\ r.at = s.at

LEMMA SeekTsFields ==
    ASSUME NEW s \in ScanState, NEW t \in Nat, NEW ts \in Timestamps, NEW a \in Int,
           After(t, a)
    PROVE  SeekAdvance(s, t, ts, SeekTs(s, Ext, t, ts, a))
<1> DEFINE sess == IF s.index = 0
                   THEN [timestamp |-> ts, last_time |-> t, sequence |-> 0] ELSE s.sess
           segs == Emit(s.segs, s.index, Ext, t)
           put == (s.index = 0)
<1>1. SeekTs(s, Ext, t, ts, a) =
        [index |-> s.index + 1, put |-> put, num |-> s.num, at |-> s.at,
         segs |-> segs, sess |-> sess]
  BY Zenon DEF SeekTs, NewSession, ScanState
<1>2. segs \in Seq(Segments)
  BY EmitType DEF ScanState
<1>3. sess \in SessionDef
  BY DEF SessionDef, ScanState
<1>p. put \in BOOLEAN /\ (s.index = 0 => put = TRUE) /\ (s.index # 0 => put = FALSE)
  OBVIOUS
<1> HIDE DEF sess, segs, put
<1>4. SeekTs(s, Ext, t, ts, a) \in ScanState
  BY <1>1, <1>2, <1>3, <1>p DEF ScanState
<1> QED
  BY <1>1, <1>4, <1>p DEF SeekAdvance, sess, segs

LEMMA SessionTsFields ==
    ASSUME NEW s \in ScanState, NEW t \in Nat, s.sess \in Session,
           t # s.sess.last_time, After(t, s.sess.last_time)
    PROVE  SessionAdvance(s, t, SessionTs(s, Ext, t))
<1> DEFINE sess == IF s.index = 0
                   THEN [timestamp |-> s.sess.timestamp, last_time |-> t,
                         sequence |-> s.sess.sequence + 1] ELSE s.sess
           segs == Emit(s.segs, s.index, Ext, t)
           put == (s.index = 0)
           num == IF s.index = 0 THEN s.sess.sequence + 1 ELSE s.num
           at == IF s.index = 0 THEN Len(s.segs) ELSE s.at
<1>1. SessionTs(s, Ext, t) =
        [index |-> s.index + 1, put |-> put, num |-> num, at |-> at,
         segs |-> segs, sess |-> sess]
  BY Zenon DEF SessionTs, NextSession, NextNumber, ScanState
<1>2. segs \in Seq(Segments)
  BY EmitType DEF ScanState
<1>3. sess \in Session /\ sess \in SessionDef
  BY DEF Session, SessionDef
<1>4. num \in Nat \cup {NoNum} /\ at \in Nat
  BY DEF Session, ScanState
<1>p. put \in BOOLEAN /\ (s.index = 0 => put = TRUE) /\ (s.index # 0 => put = FALSE)
  OBVIOUS
<1> HIDE DEF sess, segs, num, at, put
<1>5. SessionTs(s, Ext, t) \in ScanState
  BY <1>1, <1>2, <1>3, <1>4, <1>p DEF ScanState
<1> QED
  BY <1>1, <1>3, <1>5, <1>p DEF SessionAdvance, sess, segs, num, at

(* The line of the segment the session points at only counts.              *)
LEMMA SessionTsFound ==
    ASSUME NEW s \in ScanState
    PROVE  /\ [s EXCEPT !.index = @ + 1] \in ScanState
           /\ LET r == [s EXCEPT !.index = @ + 1] IN
              /\ r.index = s.index + 1 /\ r.put = s.put /\ r.num = s.num
              /\ r.at = s.at /\ r.segs = s.segs /\ r.sess = s.sess
BY DEF ScanState

(* After putSession the loop goes on with everything else as it was.       *)
LEMMA PutDone ==
    ASSUME NEW s \in ScanState
    PROVE  /\ [s EXCEPT !.put = FALSE] \in ScanState
           /\ LET r == [s EXCEPT !.put = FALSE] IN
              /\ r.index = s.index /\ r.put = FALSE /\ r.num = s.num
              /\ r.at = s.at /\ r.segs = s.segs /\ r.sess = s.sess
BY Zenon DEF ScanState

-----------------------------------------------------------------------------
(* The three conjuncts that do not speak of sessions.                      *)
Base == TypeOK /\ Ordered /\ InFile

(* What ReadLine computes for the worker that takes it.                    *)
Line(w) ==
    IF mode[w] = "seek"
    THEN SeekTs(st[w], Ext, rec[pos[w] + 1], req[w].timestamp, abs[w])
    ELSE SessionTs(st[w], Ext, rec[pos[w] + 1])

LEMMA NextLine ==
    ASSUME Base, NEW w \in Workers, pc[w] = "scan", ~Eof(w)
    PROVE  pos[w] + 1 \in 1..Len(rec) /\ rec[pos[w] + 1] \in Nat
<1>1. rec \in Seq(Nat) /\ Len(rec) \in Nat /\ pos[w] \in Nat /\ end[w] \in Nat
  BY DEF Base, TypeOK
<1>2. pos[w] < Len(rec)
  BY <1>1 DEF Base, InFile, Eof
<1> QED
  BY <1>1, <1>2

LEMMA LineType ==
    ASSUME Base, NEW w \in Workers, pc[w] = "scan", ~Eof(w)
    PROVE  /\ Line(w) \in ScanState
           /\ Line(w).put \/ mode[w] = "session" => Line(w).sess \in Session
<1> DEFINE t == rec[pos[w] + 1]
<1>1. t \in Nat
  BY NextLine
<1>2. /\ st[w] \in ScanState /\ mode[w] \in {"seek", "session"} /\ abs[w] \in Int
      /\ req[w].timestamp \in Timestamps
      /\ ~st[w].put
      /\ mode[w] = "session" => st[w].sess \in Session
  BY DEF Base, TypeOK, Request
<1> HIDE DEF t
<1>3. CASE mode[w] = "seek"
  <2>1. Line(w) = SeekTs(st[w], Ext, t, req[w].timestamp, abs[w])
    BY <1>3 DEF Line, t
  <2>2. CASE After(t, abs[w])
    <3>1. /\ Line(w) \in ScanState
          /\ (st[w].index # 0 => Line(w).put = FALSE)
          /\ st[w].index = 0 => Line(w).sess = [timestamp |-> req[w].timestamp,
                                               last_time |-> t, sequence |-> 0]
      <4>1. SeekAdvance(st[w], t, req[w].timestamp, Line(w))
        BY <1>1, <1>2, <2>1, <2>2, SeekTsFields
      <4> QED
        BY <4>1 DEF SeekAdvance
    <3>2. [timestamp |-> req[w].timestamp, last_time |-> t, sequence |-> 0] \in Session
      BY <1>1, <1>2 DEF Session
    <3> QED
      BY <1>3, <3>1, <3>2
  <2>3. CASE ~After(t, abs[w])
    BY <1>2, <1>3, <2>1, <2>3 DEF SeekTs
  <2> QED
    BY <2>2, <2>3
<1>4. CASE mode[w] = "session"
  <2>1. Line(w) = SessionTs(st[w], Ext, t)
    BY <1>4 DEF Line, t
  <2>2. CASE t = st[w].sess.last_time
    <3>1. Line(w) = [st[w] EXCEPT !.index = @ + 1]
      BY <2>1, <2>2 DEF SessionTs
    <3> QED
      BY <1>2, <1>4, <3>1, SessionTsFound
  <2>3. CASE t # st[w].sess.last_time /\ After(t, st[w].sess.last_time)
    <3>1. SessionAdvance(st[w], t, Line(w))
      BY <1>1, <1>2, <1>4, <2>1, <2>3, SessionTsFields
    <3> QED
      BY <3>1 DEF SessionAdvance
  <2>4. CASE t # st[w].sess.last_time /\ ~After(t, st[w].sess.last_time)
    BY <1>2, <1>4, <2>1, <2>4 DEF SessionTs
  <2> QED
    BY <2>2, <2>3, <2>4
<1> QED
  BY <1>2, <1>3, <1>4

LEMMA StartTypes ==
    /\ SeekStart(NoSession) \in ScanState
    /\ SeekStart(NoSession).put = FALSE
    /\ \A x \in Session : /\ SessionStart(x) \in ScanState
                          /\ SessionStart(x).put = FALSE
                          /\ SessionStart(x).sess = x
<1>1. << >> \in Seq(Segments)
  OBVIOUS
<1>2. SeekStart(NoSession) \in ScanState
  <2>1. [timestamp |-> NoSession, last_time |-> 0, sequence |-> 0] \in SessionDef
    BY DEF SessionDef
  <2> QED
    BY <1>1, <2>1 DEF SeekStart, ScanState
<1>3. ASSUME NEW x \in Session PROVE SessionStart(x) \in ScanState
  <2>1. x \in SessionDef
    BY DEF Session, SessionDef
  <2> QED
    BY <1>1, <2>1 DEF SessionStart, ScanState
<1> QED
  BY <1>2, <1>3 DEF SeekStart, SessionStart

-----------------------------------------------------------------------------
LEMMA BaseInit == Init => Base
<1> SUFFICES ASSUME Init PROVE Base
  OBVIOUS
<1>1. TypeOK
  BY StartTypes, TimeAssumption DEF Init, TypeOK
<1>2. Ordered
  BY TimeAssumption DEF Init, Ordered
<1>3. InFile
  BY DEF Init, InFile
<1> QED
  BY <1>1, <1>2, <1>3 DEF Base

LEMMA TypeStep == Base /\ [Next]_vars => TypeOK'
<1> SUFFICES ASSUME Base, [Next]_vars PROVE TypeOK'
  OBVIOUS
<1> USE DEF Base
<1>1. CASE Record
  <2>1. PICK d \in Spans : now' = now + d /\ rec' = Append(rec, now')
    BY <1>1 DEF Record
  <2>2. now' \in Nat /\ rec' \in Seq(Nat)
    BY <2>1, TimeAssumption, Appended DEF TypeOK
  <2> QED
    BY <1>1, <2>2 DEF Record, TypeOK, locals, aux
<1>2. ASSUME NEW k \in Keys, Expire(k) PROVE TypeOK'
  BY <1>2 DEF Expire, TypeOK, file, locals, aux
<1>3. ASSUME NEW w \in Workers, Receive(w) PROVE TypeOK'
  BY <1>3 DEF Receive, TypeOK, file, aux
<1>4. ASSUME NEW w \in Workers, GetSession(w) PROVE TypeOK'
  <2>1. /\ pc[w] = "get" /\ stale' \subseteq Workers
        /\ UNCHANGED <<now, rec, store, req, abs, pos, end>>
    BY <1>4 DEF GetSession, TypeOK, file
  <2>2. ASSUME NEW q \in {"open", "remove"}, pc' = [pc EXCEPT ![w] = q],
               mode' = [mode EXCEPT ![w] = "seek"], UNCHANGED <<st, origin>>
        PROVE  TypeOK'
    BY <2>1, <2>2 DEF TypeOK
  <2>3. ASSUME store[req[w].key] # NoSession, pc' = [pc EXCEPT ![w] = "open"],
               mode' = [mode EXCEPT ![w] = "session"],
               st' = [st EXCEPT ![w] = SessionStart(store[req[w].key])],
               origin' = [origin EXCEPT ![w] = origin[req[w].key]]
        PROVE  TypeOK'
    <3>1. req[w].key \in Keys /\ store[req[w].key] \in Session
      BY <2>1, <2>3 DEF TypeOK, Request
    <3> DEFINE x == SessionStart(store[req[w].key])
    <3>2. x \in ScanState /\ x.put = FALSE /\ x.sess \in Session
      BY <3>1, StartTypes
    <3>3. st' = [st EXCEPT ![w] = x]
      BY <2>3
    <3> HIDE DEF x
    <3> QED
      BY <2>1, <2>3, <3>1, <3>2, <3>3 DEF TypeOK
  <2> QED
    BY <1>4, <2>2, <2>3 DEF GetSession
<1>5. ASSUME NEW w \in Workers, RemoveSession(w) PROVE TypeOK'
  BY Zenon, <1>5 DEF RemoveSession, TypeOK, Others, file, locals
<1>6. ASSUME NEW w \in Workers, OpenFile(w) PROVE TypeOK'
  <2>1. Slid \in Nat /\ Len(rec) \in Nat
    BY FileAssumption DEF Slid, TypeOK
  <2>2. req[w] \in Request /\ now \in Nat
    BY <1>6 DEF OpenFile, TypeOK
  <2>3. req[w].offset \in Nat
    BY Zenon, <2>2, TimeAssumption DEF Request
  <2>4. Wrap(now - req[w].offset) \in Int
    BY <2>2, <2>3, IntMaxAssumption DEF Wrap
  <2> QED
    BY ZenonT(40), <1>6, <2>1, <2>4, StartTypes DEF OpenFile, TypeOK, file, aux
<1>7. ASSUME NEW w \in Workers, ReadLine(w) PROVE TypeOK'
  <2>1. /\ st' = [st EXCEPT ![w] = Line(w)]
        /\ pc' = [pc EXCEPT ![w] = IF Line(w).put THEN "put" ELSE "scan"]
    BY <1>7 DEF ReadLine, Line
  <2>2. /\ Line(w) \in ScanState
        /\ Line(w).put \/ mode[w] = "session" => Line(w).sess \in Session
        /\ Line(w).put \in BOOLEAN
    BY <1>7, LineType DEF ReadLine, ScanState
  <2> QED
    BY SMTT(30), <1>7, <2>1, <2>2 DEF ReadLine, TypeOK, file
<1>8. ASSUME NEW w \in Workers, PutSession(w) PROVE TypeOK'
  <2>1. /\ [st[w] EXCEPT !.put = FALSE] \in ScanState
        /\ [st[w] EXCEPT !.put = FALSE].put = FALSE
        /\ [st[w] EXCEPT !.put = FALSE].sess = st[w].sess
    BY PutDone DEF TypeOK
  <2>2. st' = [st EXCEPT ![w] = [st[w] EXCEPT !.put = FALSE]]
    BY <1>8 DEF PutSession
  <2>3. req[w].key \in Keys /\ st[w].sess \in Session
    BY <1>8 DEF PutSession, TypeOK, Request
  <2> QED
    BY SMTT(30), <1>8, <2>1, <2>2, <2>3 DEF PutSession, TypeOK, Others, file
<1>9. ASSUME NEW w \in Workers, Return(w), UNCHANGED <<file, store>> PROVE TypeOK'
  BY <1>9, StartTypes DEF Return, TypeOK, file
<1>10. CASE UNCHANGED vars
  BY <1>10 DEF vars, file, locals, aux, TypeOK
<1> QED
  BY <1>1, <1>2, <1>3, <1>4, <1>5, <1>6, <1>7, <1>8, <1>9, <1>10
     DEF Next, Handle, Finish, Throw

(* The recorder extends the recording, nothing else touches it.            *)
LEMMA RecordStep ==
    ASSUME Base, Record
    PROVE  /\ Len(rec') = Len(rec) + 1 /\ rec'[Len(rec) + 1] = now'
           /\ \A i \in 1..Len(rec) : rec'[i] = rec[i]
           /\ now' > now /\ now' <= MaxTime
           /\ UNCHANGED <<store, pc, req, mode, abs, pos, end, st, origin, stale>>
<1>1. PICK d \in Spans : now + d <= MaxTime /\ now' = now + d /\ rec' = Append(rec, now')
  BY DEF Record
<1>2. now \in Nat /\ d \in Nat \ {0} /\ rec \in Seq(Nat) /\ now' \in Nat
  BY SMTT(30), <1>1, TimeAssumption DEF Base, TypeOK
<1> QED
  BY <1>1, <1>2, Appended DEF Record, locals, aux

LEMMA OnlyRecord ==
    ASSUME Base, [Next]_vars, ~Record
    PROVE  UNCHANGED <<now, rec>>
BY DEF Next, Handle, Expire, Receive, GetSession, RemoveSession, OpenFile, ReadLine,
       PutSession, Finish, Throw, vars, file

LEMMA OrderedStep == Base /\ [Next]_vars => Ordered'
<1> SUFFICES ASSUME Base, [Next]_vars PROVE Ordered'
  OBVIOUS
<1>1. CASE Record
  <2>1. now \in Nat /\ rec \in Seq(Nat) /\ Len(rec) \in Nat
    BY DEF Base, TypeOK
  <2>2. /\ \A i \in 1..Len(rec) : rec[i] <= now /\ rec[i] \in Nat
        /\ \A i, j \in 1..Len(rec) : i < j => rec[i] < rec[j]
    BY <2>1 DEF Base, Ordered
  <2>3. now' \in Nat /\ MaxTime \in Nat
    BY <1>1, TypeStep, TimeAssumption DEF TypeOK
  <2>4. \A i \in 1..Len(rec') : i \in 1..Len(rec) \/ i = Len(rec) + 1
    BY <1>1, <2>1, RecordStep
  <2>5. FirstTime <= now' /\ now' <= MaxTime
    BY <1>1, <2>1, <2>3, RecordStep, TimeAssumption DEF Base, Ordered
  <2>6. \A i \in 1..Len(rec') : rec'[i] <= now'
    BY SMTT(30), <1>1, <2>1, <2>2, <2>3, <2>4, RecordStep
  <2>7. ASSUME NEW i \in 1..Len(rec'), NEW j \in 1..Len(rec'), i < j
        PROVE  rec'[i] < rec'[j]
    <3>1. i \in 1..Len(rec)
      BY <1>1, <2>1, <2>7, RecordStep
    <3> QED
      BY <1>1, <2>1, <2>2, <2>3, <2>4, <2>7, <3>1, RecordStep
  <2> QED
    BY <2>5, <2>6, <2>7 DEF Ordered
<1>2. CASE ~Record
  BY <1>2, OnlyRecord DEF Base, Ordered
<1> QED
  BY <1>1, <1>2

LEMMA InFileStep == Base /\ [Next]_vars => InFile'
<1> SUFFICES ASSUME Base, [Next]_vars PROVE InFile'
  OBVIOUS
<1>0. /\ rec \in Seq(Nat) /\ Len(rec) \in Nat
      /\ pos \in [Workers -> Nat] /\ end \in [Workers -> Nat]
      /\ pc \in [Workers -> {"idle", "get", "remove", "open", "scan", "put"}]
      /\ InFile
  BY DEF Base, TypeOK
<1>1. CASE Record
  BY <1>0, <1>1, RecordStep DEF InFile
<1>2. ASSUME NEW k \in Keys, Expire(k) PROVE InFile'
  BY <1>0, <1>2 DEF Expire, InFile, file, locals, aux
<1>3. ASSUME NEW w \in Workers, Receive(w) PROVE InFile'
  BY <1>0, <1>3 DEF Receive, InFile, file, aux
<1>4. ASSUME NEW w \in Workers, GetSession(w) PROVE InFile'
  <2>1. \E q \in {"open", "remove"} : pc' = [pc EXCEPT ![w] = q]
    BY <1>4 DEF GetSession
  <2> QED
    BY <1>0, <1>4, <2>1 DEF GetSession, InFile, file
<1>5. ASSUME NEW w \in Workers, RemoveSession(w) PROVE InFile'
  BY <1>0, <1>5 DEF RemoveSession, InFile, file, locals
<1>6. ASSUME NEW w \in Workers, OpenFile(w) PROVE InFile'
  <2>1. Slid <= Len(rec)
    BY <1>0, FileAssumption DEF Slid
  <2> QED
    BY <1>0, <1>6, <2>1 DEF OpenFile, InFile, file, aux
<1>7. ASSUME NEW w \in Workers, ReadLine(w) PROVE InFile'
  <2>1. pc[w] = "scan" /\ ~Eof(w) /\ pos' = [pos EXCEPT ![w] = @ + 1]
        /\ UNCHANGED <<rec, end>> /\ \E q : pc' = [pc EXCEPT ![w] = q]
    BY Zenon, <1>7 DEF ReadLine, file
  <2>2. pos[w] + 1 <= (IF Indexed THEN Len(rec) ELSE end[w]) /\ end[w] <= Len(rec)
    BY <1>0, <2>1 DEF InFile, Eof
  <2> QED
    BY <1>0, <2>1, <2>2 DEF InFile
<1>8. ASSUME NEW w \in Workers, PutSession(w) PROVE InFile'
  BY <1>0, <1>8 DEF PutSession, InFile, file
<1>9. ASSUME NEW w \in Workers, Return(w), UNCHANGED <<file, store>> PROVE InFile'
  BY <1>0, <1>9 DEF Return, InFile, file
<1>10. CASE UNCHANGED vars
  BY <1>10 DEF vars, file, locals, aux, Base, InFile
<1> QED
  BY <1>1, <1>2, <1>3, <1>4, <1>5, <1>6, <1>7, <1>8, <1>9, <1>10
     DEF Next, Handle, Finish, Throw

(* TypeOK: the state stays well typed whatever the requests, the recorder, *)
(* the expiry of sessions and exceptions do.                               *)
THEOREM TypeCorrect == Spec => []TypeOK
<1>1. Base /\ [Next]_vars => Base'
  BY TypeStep, OrderedStep, InFileStep DEF Base
<1>2. Base => TypeOK
  BY DEF Base
<1> QED
  BY BaseInit, <1>1, <1>2, PTL DEF Spec

(* A later position of the recording has a later time.                     *)
LEMMA LaterPosition ==
    ASSUME Base, NEW i \in 1..Len(rec), NEW j \in 1..Len(rec)
    PROVE  /\ rec[i] \in 0..IntMax
           /\ rec[i] < rec[j] <=> i < j
           /\ rec[i] = rec[j] <=> i = j
<1>1. now \in Nat /\ rec \in Seq(Nat) /\ Len(rec) \in Nat /\ MaxTime <= IntMax
      /\ MaxTime \in Nat /\ IntMax \in Nat
  BY TimeAssumption, IntMaxAssumption DEF Base, TypeOK
<1>2. rec[i] \in Nat /\ rec[j] \in Nat /\ rec[i] <= now /\ now <= MaxTime
  BY <1>1 DEF Base, Ordered
<1>3. (i < j => rec[i] < rec[j]) /\ (j < i => rec[j] < rec[i])
  BY DEF Base, Ordered
<1> QED
  BY <1>1, <1>2, <1>3

(* remove_session is followed by a new seek.                               *)
Removing == \A w \in Workers : pc[w] = "remove" => mode[w] = "seek"

(* A worker about to remove a session is one that will seek.               *)
LEMMA RemovingStep ==
    ASSUME Base, Removing, [Next]_vars
    PROVE  Removing'
<1>0. /\ pc \in [Workers -> {"idle", "get", "remove", "open", "scan", "put"}]
      /\ mode \in [Workers -> {"seek", "session"}]
  BY DEF Base, TypeOK
<1>1. ASSUME NEW w \in Workers, GetSession(w) PROVE Removing'
  BY <1>0, <1>1 DEF GetSession, Removing
<1>2. ASSUME NEW w \in Workers, NEW p \in {"idle", "get", "open", "scan", "put"},
             pc' = [pc EXCEPT ![w] = p],
             mode' = mode \/ mode' = [mode EXCEPT ![w] = "seek"]
      PROVE  Removing'
  BY <1>0, <1>2 DEF Removing
<1>3. ASSUME UNCHANGED <<pc, mode>> PROVE Removing'
  BY <1>3 DEF Removing
<1>4. ASSUME NEW w \in Workers, ReadLine(w) PROVE Removing'
  <2>1. mode' = mode /\ \E p \in {"scan", "put"} : pc' = [pc EXCEPT ![w] = p]
    BY Zenon, <1>4 DEF ReadLine
  <2> QED
    BY Zenon, <1>2, <2>1
<1>5. ASSUME NEW w \in Workers,
             Receive(w) \/ RemoveSession(w) \/ OpenFile(w) \/ PutSession(w) \/ Return(w)
      PROVE  Removing'
  <2>1. /\ mode' = mode \/ mode' = [mode EXCEPT ![w] = "seek"]
        /\ \E p \in {"idle", "get", "open", "scan", "put"} : pc' = [pc EXCEPT ![w] = p]
    BY <1>5 DEF Receive, RemoveSession, OpenFile, PutSession, Return, locals
  <2> QED
    BY Zenon, <1>2, <2>1
<1>6. CASE Record \/ (\E k \in Keys : Expire(k)) \/ UNCHANGED vars
  BY <1>3, <1>6 DEF Record, Expire, vars, locals
<1> QED
  BY <1>1, <1>4, <1>5, <1>6 DEF Next, Handle, Finish, Throw

=============================================================================
