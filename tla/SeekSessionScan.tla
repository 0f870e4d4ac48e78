-------------------------- MODULE SeekSessionScan ---------------------------
(***************************************************************************)
(* Proofs about SeekSession, second part: the inductive invariant IInv, and *)
(* that one line of the file takes a scan from one well placed state to    *)
(* the next.                                                               *)
(***************************************************************************)
EXTENDS SeekSessionTypes


(* The position of the segment the session in st points at.                *)
HeadPos(w) == origin[w] + st[w].sess.sequence

(* Before the head of the playlist is reached, and after it.               *)
Searching(w) ==
    /\ st[w].segs = <<>> /\ st[w].at = 0
    /\ mode[w] = "session" => /\ st[w].num = NoNum
                              /\ Located(st[w].sess, origin[w])
                              /\ st[w].index = -1 => pos[w] < HeadPos(w)
                              /\ st[w].index = 0 => pos[w] = HeadPos(w)
    /\ mode[w] = "seek" => st[w].num = 0 /\ st[w].index = 0

Listing(w) ==
    /\ st[w].sess \in Session
    /\ Located(st[w].sess, origin[w])
    /\ st[w].num = st[w].sess.sequence /\ st[w].at = 0
    /\ st[w].index = pos[w] - HeadPos(w) + 1
    /\ Len(st[w].segs) = Capped(st[w].index)
    /\ \A i \in 1..Len(st[w].segs) : st[w].segs[i].ts = rec[HeadPos(w) + i - 1]
    /\ mode[w] = "seek" => abs[w] < rec[origin[w]] /\ st[w].sess.sequence = 0

Scanning(w) ==
    /\ mode[w] = "seek" => abs[w] \in 0..IntMax
    /\ IF st[w].index < 1 THEN Searching(w) ELSE Listing(w)
    /\ pc[w] = "put" => st[w].index = 1

Opening(w) ==
    mode[w] = "session" => /\ st[w] = SessionStart(st[w].sess)
                           /\ Located(st[w].sess, origin[w])

Placed ==
    Indexed =>
        /\ \A k \in Keys : store[k] # NoSession => Located(store[k], origin[k])
        /\ \A w \in Workers : pc[w] = "open" => Opening(w)
        /\ \A w \in Workers : pc[w] \in {"scan", "put"} => Scanning(w)

IInv == TypeOK /\ Ordered /\ InFile /\ Placed /\ Removing

-----------------------------------------------------------------------------
(* A worker is not affected by what leaves its locals alone.               *)
LEMMA Frame ==
    ASSUME NEW v, rec' = rec, st'[v] = st[v], mode'[v] = mode[v], abs'[v] = abs[v],
           pos'[v] = pos[v], origin'[v] = origin[v], pc'[v] = pc[v]
    PROVE  /\ Opening(v) => Opening(v)'
           /\ Scanning(v) => Scanning(v)'
BY DEF Opening, Scanning, Searching, Listing, Located, HeadPos

(* A line read after the head of the playlist only extends the list.       *)
LEMMA ListingGrows ==
    ASSUME Base, NEW w \in Workers, Listing(w), st[w].index >= 1, ~Eof(w), pc[w] = "scan",
           NEW r \in ScanState, r.index = st[w].index + 1, r.num = st[w].num,
           r.at = st[w].at, r.sess = st[w].sess,
           r.segs = Emit(st[w].segs, st[w].index, Ext, rec[pos[w] + 1]),
           st'[w] = r, rec' = rec, mode'[w] = mode[w], abs'[w] = abs[w],
           pos'[w] = pos[w] + 1, origin'[w] = origin[w]
    PROVE  Listing(w)'
<1> DEFINE n == st[w].index
           h == HeadPos(w)
           t == rec[pos[w] + 1]
<1>1. /\ st[w] \in ScanState /\ pos[w] \in Nat /\ origin[w] \in Nat
      /\ st[w].sess \in Session /\ st[w].sess.sequence \in Nat
  BY DEF Base, TypeOK, Listing, Session
<1>2. n \in Nat /\ h \in Nat /\ t \in Nat /\ st[w].segs \in Seq(Segments)
  <2>1. t \in Nat
    BY NextLine
  <2>2. st[w].index \in {-1} \cup Nat /\ st[w].segs \in Seq(Segments)
    BY <1>1 DEF ScanState
  <2>3. h \in Nat
    BY <1>1 DEF HeadPos
  <2>4. n \in Nat
    BY <2>2
  <2> HIDE DEF n, h, t
  <2> QED
    BY <2>1, <2>2, <2>3, <2>4
<1>3. /\ n = pos[w] - h + 1
      /\ Len(st[w].segs) = Capped(n)
      /\ \A i \in 1..Len(st[w].segs) : st[w].segs[i].ts = rec[h + i - 1]
  BY DEF Listing
<1>4. /\ Len(r.segs) = Capped(n + 1)
      /\ \A i \in 1..Len(st[w].segs) : r.segs[i] = st[w].segs[i]
      /\ n < PlaylistSize => r.segs[n + 1].ts = t
  <2> DEFINE e == Emit(st[w].segs, n, Ext, t)
  <2>1. /\ Len(e) = Capped(n + 1)
        /\ \A i \in 1..Len(st[w].segs) : e[i] = st[w].segs[i]
        /\ n < PlaylistSize => e[n + 1].ts = t
    <3> HIDE DEF n, t
    <3> QED
      BY ZenonT(40), <1>2, <1>3, EmitAppends
  <2>2. r.segs = e
    OBVIOUS
  <2> HIDE DEF e
  <2> QED
    BY <2>1, <2>2
<1>5. HeadPos(w)' = h
  BY DEF HeadPos
<1>6. h + (n + 1) - 1 = pos[w] + 1
  BY <1>1, <1>2, <1>3
<1>7. ASSUME NEW i \in 1..Len(r.segs) PROVE r.segs[i].ts = rec[h + i - 1]
  <2>1. CASE i \in 1..Len(st[w].segs)
    BY <1>3, <1>4, <2>1
  <2>2. CASE i \notin 1..Len(st[w].segs)
    <3>1. n < PlaylistSize /\ i = n + 1
      BY SMTT(30), <1>2, <1>3, <1>4, <2>2 DEF Capped, PlaylistSize
    <3> QED
      BY <1>2, <1>4, <1>6, <3>1
  <2> QED
    BY <2>1, <2>2
<1>8. r.index = pos[w] + 1 - h + 1
  BY <1>1, <1>2, <1>3
<1> HIDE DEF n, h, t
<1>9. /\ r.sess \in Session /\ r.num = r.sess.sequence /\ r.at = 0
      /\ Located(r.sess, origin[w])
      /\ mode[w] = "seek" => abs[w] < rec[origin[w]] /\ r.sess.sequence = 0
  BY DEF Listing
<1>10. Len(r.segs) = Capped(r.index)
  BY <1>4 DEF n
<1> QED
  <2>1. \A i \in 1..Len(st'[w].segs) : st'[w].segs[i].ts = rec'[HeadPos(w)' + i - 1]
    BY <1>5, <1>7
  <2>2. st'[w].index = pos'[w] - HeadPos(w)' + 1
    <3>1. PICK q : q = HeadPos(w)'
      OBVIOUS
    <3>2. q = h
      BY <1>5, <3>1
    <3>3. q \in Nat /\ pos[w] \in Nat
      BY <1>1, <1>2, <3>2
    <3>4. r.index = pos[w] + 1 - q + 1
      BY <1>8, <3>2
    <3>5. st'[w].index = pos'[w] - q + 1
      BY <3>3, <3>4
    <3> QED
      BY <3>1, <3>5
  <2> QED
    BY <1>9, <1>10, <2>1, <2>2 DEF Listing, Located

(* One line of the file, for the worker that reads it.                     *)
LEMMA ScanLine ==
    ASSUME IInv, Indexed, NEW w \in Workers, ReadLine(w)
    PROVE  Scanning(w)'
<1> DEFINE t == rec[pos[w] + 1]
           h == HeadPos(w)
           r == Line(w)
<1>0. Base
  BY DEF IInv, Base
<1>1. /\ pc[w] = "scan" /\ ~Eof(w)
      /\ st'[w] = r /\ pos'[w] = pos[w] + 1
      /\ pc'[w] = (IF r.put THEN "put" ELSE "scan")
      /\ origin'[w] = (IF mode[w] = "seek" /\ r.put THEN pos[w] + 1 ELSE origin[w])
      /\ rec' = rec /\ mode'[w] = mode[w] /\ abs'[w] = abs[w]
  <2>1. w \in Keys \cup Workers
    OBVIOUS
  <2> QED
    BY <1>0, <2>1 DEF ReadLine, Line, file, Base, TypeOK
<1>2. /\ st[w] \in ScanState /\ pos[w] \in Nat /\ origin[w] \in Nat
      /\ mode[w] \in {"seek", "session"} /\ ~st[w].put
      /\ req[w].timestamp \in Timestamps
      /\ mode[w] = "session" => st[w].sess \in Session
      /\ Len(rec) \in Nat
  BY <1>0, <1>1 DEF Base, TypeOK, Request
<1>3. st[w].index \in {-1} \cup Nat /\ st[w].segs \in Seq(Segments)
  BY <1>2 DEF ScanState
<1>4. pos[w] + 1 \in 1..Len(rec) /\ t \in 0..IntMax /\ t \in Nat
  BY <1>0, <1>1, NextLine, LaterPosition
<1>5. Scanning(w)
  BY <1>1 DEF IInv, Placed
<1>6. r \in ScanState
  BY <1>0, <1>1, LineType
<1>7. CASE st[w].index >= 1
  <2>1. /\ Listing(w) /\ h \in 1..Len(rec) /\ h < pos[w] + 1
        /\ st[w].sess.last_time = rec[h]
        /\ mode[w] = "seek" => abs[w] < rec[h] /\ abs[w] \in 0..IntMax
    <3>1. Listing(w)
      BY SMTT(30), <1>3, <1>5, <1>7 DEF Scanning
    <3>2. st[w].sess.sequence \in Nat
      BY <3>1 DEF Listing, Session
    <3> QED
      BY SMTT(30), <1>2, <1>3, <1>5, <1>7, <3>1, <3>2 DEF Listing, Located, HeadPos, Scanning
  <2>2. t > rec[h] /\ rec[h] \in 0..IntMax
    BY <1>0, <1>4, <2>1, LaterPosition
  <2>3. /\ r.index = st[w].index + 1 /\ ~r.put /\ r.num = st[w].num
        /\ r.at = st[w].at /\ r.sess = st[w].sess
        /\ r.segs = Emit(st[w].segs, st[w].index, Ext, t)
    <3>1. CASE mode[w] = "seek"
      <4>1. r = SeekTs(st[w], Ext, t, req[w].timestamp, abs[w])
        BY <3>1 DEF Line
      <4>2. After(t, abs[w]) /\ abs[w] \in Int
        BY <1>4, <2>1, <2>2, <3>1, AfterIsLater
      <4> HIDE DEF t, r
      <4> QED
        <5>1. /\ r.index = st[w].index + 1 /\ (st[w].index = 0 => r.put = TRUE)
              /\ (st[w].index # 0 => r.put = FALSE)
              /\ r.num = st[w].num /\ r.at = st[w].at
              /\ r.segs = Emit(st[w].segs, st[w].index, Ext, t)
              /\ st[w].index # 0 => r.sess = st[w].sess
          <6>1. SeekAdvance(st[w], t, req[w].timestamp, r)
            BY <1>2, <1>4, <4>1, <4>2, SeekTsFields
          <6> QED
            BY <6>1 DEF SeekAdvance
        <5> QED
          BY SMTT(30), <1>3, <1>7, <5>1
    <3>2. CASE mode[w] = "session"
      <4>1. r = SessionTs(st[w], Ext, t)
        BY <3>2 DEF Line
      <4>2. After(t, st[w].sess.last_time) /\ t # st[w].sess.last_time
        BY <1>4, <2>1, <2>2, AfterIsLater
      <4> HIDE DEF t, r
      <4> QED
        <5>1. /\ r.index = st[w].index + 1 /\ (st[w].index = 0 => r.put = TRUE)
              /\ (st[w].index # 0 => r.put = FALSE)
              /\ r.segs = Emit(st[w].segs, st[w].index, Ext, t)
              /\ st[w].index # 0 => r.sess = st[w].sess /\ r.num = st[w].num
                                    /\ r.at = st[w].at
          <6>1. SessionAdvance(st[w], t, r)
            BY <1>2, <1>4, <3>2, <4>1, <4>2, SessionTsFields
          <6> QED
            BY <6>1 DEF SessionAdvance
        <5> QED
          BY <1>3, <1>7, <5>1
    <3> QED
      BY <1>2, <3>1, <3>2
  <2>4. Listing(w)'
    <3> HIDE DEF r
    <3> QED
      BY <1>0, <1>1, <1>6, <1>7, <2>1, <2>3, ListingGrows
  <2> QED
    BY SMTT(30), <1>1, <1>3, <1>5, <1>7, <2>3, <2>4 DEF Scanning
<1>8. CASE st[w].index < 1 /\ mode[w] = "seek"
  <2>1. /\ Searching(w) /\ st[w].index = 0 /\ st[w].num = 0 /\ st[w].at = 0
        /\ st[w].segs = <<>> /\ abs[w] \in 0..IntMax
    BY <1>5, <1>8 DEF Scanning, Searching
  <2>2. r = SeekTs(st[w], Ext, t, req[w].timestamp, abs[w])
    BY <1>8 DEF Line
  <2>3. CASE ~After(t, abs[w])
    <3>1. r = st[w]
      BY <2>2, <2>3 DEF SeekTs
    <3> HIDE DEF r
    <3> QED
      BY <1>1, <1>2, <1>8, <2>1, <3>1 DEF Scanning, Searching
  <2>4. CASE After(t, abs[w])
    <3>1. /\ r.index = 1 /\ r.put /\ r.num = 0 /\ r.at = 0
          /\ r.segs = Emit(<<>>, 0, Ext, t)
          /\ r.sess = [timestamp |-> req[w].timestamp, last_time |-> t, sequence |-> 0]
      <4> HIDE DEF t, r
      <4> QED
        <5>1. /\ r.index = st[w].index + 1 /\ (st[w].index = 0 => r.put = TRUE)
              /\ (st[w].index # 0 => r.put = FALSE)
              /\ r.num = st[w].num /\ r.at = st[w].at
              /\ r.segs = Emit(st[w].segs, st[w].index, Ext, t)
              /\ st[w].index = 0 => r.sess = [timestamp |-> req[w].timestamp,
                                              last_time |-> t, sequence |-> 0]
          <6>1. abs[w] \in Int
            BY <2>1
          <6>2. SeekAdvance(st[w], t, req[w].timestamp, r)
            BY <1>2, <1>4, <2>2, <2>4, <6>1, SeekTsFields
          <6> QED
            BY <6>2 DEF SeekAdvance
        <5> QED
          BY SMTT(30), <2>1, <5>1
    <3>2. r.sess \in Session /\ r.sess.sequence = 0 /\ r.sess.last_time = t
      <4> HIDE DEF t, r
      <4> QED
        BY <1>2, <1>4, <3>1 DEF Session
    <3>3. Len(r.segs) = Capped(1) /\ r.segs[1].ts = t /\ Capped(1) = 1
      <4> HIDE DEF t, r
      <4> QED
        BY <1>4, <3>1, EmptyEmit
    <3>4. abs[w] < t
      BY <1>4, <2>1, <2>4, AfterIsLater
    <3> HIDE DEF t, r
    <3>5. HeadPos(w)' = pos[w] + 1 /\ origin'[w] = pos[w] + 1
      BY SMTT(30), <1>1, <1>2, <1>8, <3>1, <3>2 DEF HeadPos
    <3>6. Listing(w)'
      <4>1. /\ st'[w].index = pos'[w] - HeadPos(w)' + 1
            /\ Located(st[w].sess, origin[w])'
        BY <1>1, <1>2, <1>4, <3>1, <3>2, <3>5 DEF Located, t
      <4>2. \A i \in 1..Len(st'[w].segs) : st'[w].segs[i].ts = rec'[HeadPos(w)' + i - 1]
        BY SMTT(30), <1>1, <1>2, <3>3, <3>5 DEF t
      <4> QED
        BY <1>1, <3>1, <3>2, <3>3, <3>4, <3>5, <4>1, <4>2 DEF Listing, t
    <3> QED
      BY SMTT(30), <1>1, <1>8, <2>1, <3>1, <3>6 DEF Scanning
  <2> QED
    BY <2>3, <2>4
<1>9. CASE st[w].index < 1 /\ mode[w] = "session"
  <2>1. /\ Searching(w) /\ st[w].num = NoNum /\ st[w].at = 0 /\ st[w].segs = <<>>
        /\ st[w].index = -1 => pos[w] < h
        /\ st[w].index = 0 => pos[w] = h
        /\ st[w].index \in {-1, 0}
        /\ h \in 1..Len(rec) /\ st[w].sess.last_time = rec[h]
        /\ st[w].sess.sequence \in Nat /\ h = origin[w] + st[w].sess.sequence
    BY SMTT(30), <1>2, <1>3, <1>5, <1>9 DEF Scanning, Searching, Located, HeadPos, Session
  <2>0. origin'[w] = origin[w] /\ mode[w] = "session" /\ mode'[w] = "session"
    BY <1>1, <1>9
  <2>2. r = SessionTs(st[w], Ext, t)
    BY <1>9 DEF Line
  <2>3. /\ rec[h] \in 0..IntMax
        /\ t < rec[h] <=> pos[w] + 1 < h
        /\ t = rec[h] <=> pos[w] + 1 = h
        /\ rec[h] < t <=> h < pos[w] + 1
    BY <1>0, <1>4, <2>1, LaterPosition
  <2>4. CASE t = st[w].sess.last_time
    <3>1. r = [st[w] EXCEPT !.index = @ + 1]
      BY <2>2, <2>4 DEF SessionTs
    <3>2. /\ r.index = st[w].index + 1 /\ ~r.put /\ r.num = st[w].num
          /\ r.at = st[w].at /\ r.segs = st[w].segs /\ r.sess = st[w].sess
      <4> HIDE DEF r
      <4> QED
        BY <1>2, <3>1, SessionTsFound
    <3>3. pos[w] + 1 = h /\ st[w].index = -1
      BY <1>2, <2>1, <2>3, <2>4
    <3> HIDE DEF r, t
    <3>4. Searching(w)' /\ r.index = 0
      <4>1. HeadPos(w)' = h
        BY <1>1, <2>0, <3>2 DEF HeadPos
      <4>2. Located(st[w].sess, origin[w])'
        BY <1>1, <2>0, <2>1, <3>2 DEF Located
      <4>3. r.index = 0 /\ pos'[w] = h
        BY <1>1, <3>2, <3>3
      <4> HIDE DEF h
      <4> QED
        <5>1. st'[w].index # -1 /\ r.index = 0
          BY <1>1, <4>3
        <5>2. pos'[w] = HeadPos(w)'
          BY <4>1, <4>3
        <5>3. st'[w].segs = <<>> /\ st'[w].at = 0 /\ st'[w].num = NoNum /\ mode'[w] # "seek"
          BY <1>1, <2>0, <2>1, <3>2
        <5> QED
          BY <4>2, <5>1, <5>2, <5>3 DEF Searching
    <3> QED
      BY <1>1, <1>9, <3>2, <3>4 DEF Scanning
  <2>5. CASE t # st[w].sess.last_time /\ ~After(t, st[w].sess.last_time)
    <3>1. r = st[w]
      BY <2>2, <2>5 DEF SessionTs
    <3>2. t < rec[h]
      BY SMTT(30), <1>4, <2>1, <2>3, <2>5, AfterIsLater
    <3>3. pos[w] + 1 < h /\ st[w].index = -1
      BY SMTT(30), <1>2, <2>1, <2>3, <3>2
    <3> HIDE DEF r, t
    <3>4. Searching(w)'
      <4>1. HeadPos(w)' = h
        BY <1>1, <2>0, <3>1 DEF HeadPos
      <4>2. Located(st[w].sess, origin[w])'
        BY <1>1, <2>0, <2>1, <3>1 DEF Located
      <4>3. st'[w].index = -1 /\ pos'[w] < h
        BY <1>1, <3>1, <3>3
      <4> HIDE DEF h
      <4> QED
        <5>1. st'[w].index # 0
          BY <4>3
        <5>2. pos'[w] < HeadPos(w)'
          BY <4>1, <4>3
        <5>3. st'[w].segs = <<>> /\ st'[w].at = 0 /\ st'[w].num = NoNum /\ mode'[w] # "seek"
          BY <1>1, <2>0, <2>1, <3>1
        <5> QED
          BY <4>2, <5>1, <5>2, <5>3 DEF Searching
    <3> QED
      BY <1>1, <1>2, <1>9, <3>1, <3>4 DEF Scanning
  <2>6. CASE t # st[w].sess.last_time /\ After(t, st[w].sess.last_time)
    <3>1. rec[h] < t
      BY <1>4, <2>1, <2>3, <2>6, AfterIsLater
    <3>2. pos[w] = h /\ st[w].index = 0
      BY SMTT(30), <1>2, <2>1, <2>3, <3>1
    <3>3. /\ r.index = 1 /\ r.put /\ r.num = st[w].sess.sequence + 1 /\ r.at = 0
          /\ r.segs = Emit(<<>>, 0, Ext, t)
          /\ r.sess \in Session /\ r.sess.last_time = t
          /\ r.sess.sequence = st[w].sess.sequence + 1
      <4> HIDE DEF t, r
      <4>1. Len(st[w].segs) = 0
        BY <2>1
      <4> QED
        <5>1. /\ r.index = st[w].index + 1 /\ (st[w].index = 0 => r.put = TRUE)
              /\ (st[w].index # 0 => r.put = FALSE)
              /\ r.segs = Emit(st[w].segs, st[w].index, Ext, t)
              /\ st[w].index = 0 =>
                   /\ r.sess = [timestamp |-> st[w].sess.timestamp, last_time |-> t,
                                sequence |-> st[w].sess.sequence + 1]
                   /\ r.num = st[w].sess.sequence + 1
                   /\ r.at = Len(st[w].segs)
              /\ r.sess \in Session
          <6>1. SessionAdvance(st[w], t, r)
            BY <1>2, <1>4, <1>9, <2>2, <2>6, SessionTsFields
          <6> QED
            BY <6>1 DEF SessionAdvance
        <5> QED
          BY SMTT(30), <2>1, <3>2, <4>1, <5>1
    <3>4. Len(r.segs) = Capped(1) /\ r.segs[1].ts = t /\ Capped(1) = 1
      <4> HIDE DEF t, r
      <4> QED
        BY <1>4, <3>3, EmptyEmit
    <3> HIDE DEF r, t
    <3>5. HeadPos(w)' = pos[w] + 1 /\ origin'[w] = origin[w]
      BY SMTT(30), <1>1, <1>2, <1>9, <2>1, <3>2, <3>3 DEF HeadPos
    <3>6. Listing(w)'
      <4>1. origin[w] + (st[w].sess.sequence + 1) = pos[w] + 1
        BY SMTT(30), <1>2, <2>1, <3>2
      <4>2. pos[w] + 1 \in 1..Len(rec) /\ t = rec[pos[w] + 1]
        BY <1>4 DEF t
      <4>3. Located(st[w].sess, origin[w])'
        BY <1>1, <3>3, <3>5, <4>1, <4>2 DEF Located
      <4>4. st'[w].index = pos'[w] - HeadPos(w)' + 1
        BY <1>1, <1>2, <3>3, <3>5
      <4>5. \A i \in 1..Len(st'[w].segs) : st'[w].segs[i].ts = rec'[HeadPos(w)' + i - 1]
        BY SMTT(30), <1>1, <1>2, <3>4, <3>5, <4>2
      <4> QED
        BY <1>1, <2>0, <3>3, <3>4, <4>3, <4>4, <4>5 DEF Listing
    <3> QED
      BY SMTT(30), <1>1, <1>9, <3>3, <3>6 DEF Scanning
  <2> QED
    BY <2>4, <2>5, <2>6
<1> QED
  BY <1>2, <1>3, <1>7, <1>8, <1>9

=============================================================================
