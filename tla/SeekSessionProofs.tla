------------------------- MODULE SeekSessionProofs --------------------------
(***************************************************************************)
(* Proofs about SeekSession, third part: every step keeps IInv, and what   *)
(* follows for a .m3u8.index: a number always means one segment, and a     *)
(* playlist lists what its number says.                                    *)
(***************************************************************************)
EXTENDS SeekSessionScan

(* The sessions in Redis stay located when a step leaves a key alone.      *)
LEMMA KeyFrame ==
    ASSUME NEW k, rec' = rec, store'[k] = store[k], origin'[k] = origin[k],
           Located(store[k], origin[k])
    PROVE  Located(store[k], origin[k])'
BY DEF Located

LEMMA PlacedRecord ==
    ASSUME IInv, Indexed, Record
    PROVE  Placed'
<1>0. Base /\ Len(rec) \in Nat
  BY DEF IInv, Base, TypeOK
<1>1. /\ Len(rec') = Len(rec) + 1
      /\ \A i \in 1..Len(rec) : rec'[i] = rec[i]
      /\ UNCHANGED <<store, pc, req, mode, abs, pos, end, st, origin, stale>>
  BY <1>0, RecordStep
<1>2. ASSUME NEW x, NEW o, Located(x, o)
      PROVE  o + x.sequence \in 1..Len(rec') /\ x.last_time = rec'[o + x.sequence]
  BY <1>0, <1>1, <1>2 DEF Located
<1>3. ASSUME NEW k \in Keys, store[k] # NoSession
      PROVE  Located(store[k], origin[k])'
  BY <1>1, <1>2, <1>3 DEF IInv, Placed, Located
<1>4. ASSUME NEW w \in Workers, pc[w] = "open"
      PROVE  Opening(w)'
  BY <1>1, <1>2, <1>4 DEF IInv, Placed, Opening, Located
<1>5. ASSUME NEW w \in Workers, pc[w] \in {"scan", "put"}
      PROVE  Scanning(w)'
  <2>1. Scanning(w) /\ pos[w] <= Len(rec)
    BY <1>5 DEF IInv, Placed, InFile
  <2>2. st[w] \in ScanState /\ pos[w] \in Nat /\ origin[w] \in Nat
    BY DEF IInv, TypeOK
  <2>3. st[w].index \in {-1} \cup Nat
    BY <2>2 DEF ScanState
  <2>4. CASE st[w].index < 1
    <3>1. Searching(w)
      BY <2>1, <2>4 DEF Scanning
    <3>2. Searching(w)'
      BY <1>1, <1>2, <3>1 DEF Searching, Located, HeadPos
    <3> QED
      BY <1>1, <2>1, <2>4, <3>2 DEF Scanning
  <2>5. CASE ~(st[w].index < 1)
    <3>1. Listing(w)
      BY <2>1, <2>5 DEF Scanning
    <3>2. HeadPos(w)' = HeadPos(w)
      BY <1>1 DEF HeadPos
    <3>3. /\ st[w].sess.sequence \in Nat /\ HeadPos(w) \in 1..Len(rec)
          /\ HeadPos(w) = origin[w] + st[w].sess.sequence
          /\ Located(st[w].sess, origin[w])'
      BY <1>1, <1>2, <3>1 DEF Listing, HeadPos, Located, Session
    <3>4. ASSUME NEW i \in 1..Len(st[w].segs)
          PROVE  st[w].segs[i].ts = rec'[HeadPos(w) + i - 1]
      <4>1. Len(st[w].segs) = Capped(st[w].index) /\ st[w].index = pos[w] - HeadPos(w) + 1
        BY <3>1 DEF Listing
      <4>2. HeadPos(w) + i - 1 \in 1..Len(rec)
        <5>1. Len(st[w].segs) <= st[w].index /\ st[w].index \in Nat
          BY <2>3, <2>5, <4>1 DEF Capped, PlaylistSize
        <5>2. i \in Nat /\ 1 <= i /\ i <= st[w].index
          BY <4>1, <5>1 DEF Capped, PlaylistSize
        <5> QED
          BY SMTT(30), <1>0, <2>1, <2>2, <3>3, <4>1, <5>1, <5>2
      <4> QED
        BY <1>1, <3>1, <4>2 DEF Listing
    <3>5. mode[w] = "seek" => origin[w] \in 1..Len(rec) /\ rec'[origin[w]] = rec[origin[w]]
      <4>1. mode[w] = "seek" => st[w].sess.sequence = 0
        BY <3>1 DEF Listing
      <4>2. mode[w] = "seek" => origin[w] \in 1..Len(rec)
        BY <2>2, <3>3, <4>1
      <4> QED
        BY <1>1, <4>2
    <3>6. Listing(w)'
      BY <1>1, <3>1, <3>2, <3>3, <3>4, <3>5 DEF Listing
    <3> QED
      BY <1>1, <2>1, <2>5, <3>6 DEF Scanning
  <2> QED
    BY <2>4, <2>5
<1> QED
  BY <1>1, <1>3, <1>4, <1>5 DEF Placed

(* A step of one worker that neither records nor stores.                   *)
LEMMA PlacedWorker ==
    ASSUME IInv, Indexed, NEW w \in Workers,
           UNCHANGED <<rec, store>>,
           \A k \in Keys : origin'[k] = origin[k],
           \A v \in Workers \ {w} :
               /\ st'[v] = st[v] /\ mode'[v] = mode[v] /\ abs'[v] = abs[v]
               /\ pos'[v] = pos[v] /\ origin'[v] = origin[v] /\ pc'[v] = pc[v],
           pc'[w] = "open" => Opening(w)',
           pc'[w] \in {"scan", "put"} => Scanning(w)'
    PROVE  Placed'
<1>1. ASSUME NEW k \in Keys, store[k] # NoSession
      PROVE  Located(store[k], origin[k])'
  BY <1>1, KeyFrame DEF IInv, Placed
<1>2. ASSUME NEW v \in Workers
      PROVE  /\ pc'[v] = "open" => Opening(v)'
             /\ pc'[v] \in {"scan", "put"} => Scanning(v)'
  <2>1. CASE v = w
    BY <2>1
  <2>2. CASE v # w
    BY <2>2, Frame DEF IInv, Placed
  <2> QED
    BY <2>1, <2>2
<1> QED
  BY <1>1, <1>2 DEF Placed

(* A step of one worker that writes Redis.                                 *)
LEMMA PlacedStore ==
    ASSUME IInv, Indexed, NEW q \in Keys,
           rec' = rec,
           \A k \in Keys \ {q} : store'[k] = store[k] /\ origin'[k] = origin[k],
           store'[q] # NoSession => Located(store[q], origin[q])',
           \A v \in Workers : /\ pc'[v] = "open" => Opening(v)'
                              /\ pc'[v] \in {"scan", "put"} => Scanning(v)'
    PROVE  Placed'
<1>1. ASSUME NEW k \in Keys, store'[k] # NoSession
      PROVE  Located(store[k], origin[k])'
  <2>1. CASE k = q
    BY <1>1, <2>1
  <2>2. CASE k # q
    BY <1>1, <2>2, KeyFrame DEF IInv, Placed
  <2> QED
    BY <2>1, <2>2
<1> QED
  BY <1>1 DEF Placed

LEMMA OpenScan ==
    ASSUME IInv, Indexed, NEW w \in Workers, OpenFile(w)
    PROVE  Placed'
<1>0. /\ Base /\ Placed /\ pc[w] = "open" /\ now \in Nat
      /\ pc \in [Workers -> {"idle", "get", "remove", "open", "scan", "put"}]
      /\ mode \in [Workers -> {"seek", "session"}]
      /\ abs \in [Workers -> Int] /\ pos \in [Workers -> Nat]
      /\ st \in [Workers -> ScanState] /\ req[w] \in Request
  BY DEF IInv, Base, TypeOK, OpenFile
<1>1. /\ UNCHANGED <<rec, store, mode, origin>>
      /\ pc' = [pc EXCEPT ![w] = "scan"] /\ pos' = [pos EXCEPT ![w] = 0]
      /\ mode[w] = "seek" => /\ abs' = [abs EXCEPT ![w] = Wrap(now - req[w].offset)]
                             /\ st' = [st EXCEPT ![w] = SeekStart(NoSession)]
      /\ mode[w] = "session" => UNCHANGED <<abs, st>>
  BY <1>0 DEF OpenFile, file, aux, Slid
<1>2. Scanning(w)'
  <2>1. CASE mode[w] = "seek"
    <3>1. req[w].offset \in Nat /\ req[w].offset <= FirstTime
      BY Zenon, <1>0, TimeAssumption DEF Request
    <3>2. FirstTime <= now /\ now <= IntMax
      BY <1>0, TimeAssumption, IntMaxAssumption DEF Base, Ordered
    <3>3. Wrap(now - req[w].offset) \in 0..IntMax
      BY <1>0, <3>1, <3>2, TimeAssumption, IntMaxAssumption DEF Wrap
    <3>4. /\ abs'[w] \in 0..IntMax /\ st'[w] = SeekStart(NoSession)
          /\ mode'[w] = "seek" /\ pc'[w] = "scan"
      BY <1>0, <1>1, <2>1, <3>3
    <3> QED
      BY <3>4 DEF Scanning, Searching, SeekStart
  <2>2. CASE mode[w] = "session"
    <3>1. st[w] = SessionStart(st[w].sess) /\ Located(st[w].sess, origin[w])
      BY <1>0, <2>2 DEF Placed, Opening
    <3>2. st'[w] = st[w] /\ mode'[w] = "session" /\ pc'[w] = "scan" /\ pos'[w] = 0
      BY <1>0, <1>1, <2>2
    <3>3. /\ st[w].index = -1 /\ st[w].segs = <<>> /\ st[w].at = 0 /\ st[w].num = NoNum
      BY <3>1 DEF SessionStart
    <3>4. HeadPos(w)' > 0 /\ Located(st[w].sess, origin[w])'
      BY <1>1, <3>1, <3>2 DEF HeadPos, Located
    <3> QED
      BY <3>2, <3>3, <3>4 DEF Scanning, Searching
  <2> QED
    BY <1>0, <2>1, <2>2
<1>3. \A v \in Workers \ {w} :
         /\ st'[v] = st[v] /\ mode'[v] = mode[v] /\ abs'[v] = abs[v]
         /\ pos'[v] = pos[v] /\ origin'[v] = origin[v] /\ pc'[v] = pc[v]
  BY <1>0, <1>1
<1>4. pc'[w] = "scan" /\ \A k \in Keys : origin'[k] = origin[k]
  BY <1>0, <1>1
<1> QED
  BY <1>1, <1>2, <1>3, <1>4, PlacedWorker

LEMMA PlacedPut ==
    ASSUME IInv, Indexed, NEW w \in Workers, PutSession(w)
    PROVE  Placed'
<1>0. /\ Base /\ Placed /\ pc[w] = "put" /\ req[w].key \in Keys
      /\ pc \in [Workers -> {"idle", "get", "remove", "open", "scan", "put"}]
      /\ st \in [Workers -> ScanState] /\ origin \in [Keys \cup Workers -> Nat]
      /\ store \in [Keys -> Session \cup {NoSession}]
      /\ \A k \in Keys : k \notin Workers
  BY NamesAssumption DEF IInv, Base, TypeOK, PutSession, Request
<1>q. PICK q \in Keys : q = req[w].key
  BY <1>0
<1> DEFINE x == [st[w] EXCEPT !.put = FALSE]
<1>1. /\ UNCHANGED <<rec, mode, abs, pos>>
      /\ store' = [store EXCEPT ![q] = st[w].sess]
      /\ origin' = [origin EXCEPT ![q] = origin[w]]
      /\ st' = [st EXCEPT ![w] = x]
      /\ pc' = [pc EXCEPT ![w] = "scan"]
  BY <1>q DEF PutSession, file
<1>2. Scanning(w) /\ st[w].index = 1
  BY <1>0 DEF Placed, Scanning
<1>3. Located(st[w].sess, origin[w])
  BY <1>2 DEF Scanning, Listing
<1>4. /\ x.index = st[w].index /\ x.num = st[w].num
      /\ x.at = st[w].at /\ x.segs = st[w].segs /\ x.sess = st[w].sess
  BY <1>0, PutDone
<1> HIDE DEF x
<1>5. store'[q] = st[w].sess /\ origin'[q] = origin[w]
  BY <1>0, <1>1
<1>6. Located(store[q], origin[q])'
  BY <1>1, <1>3, <1>5 DEF Located
<1>7. \A k \in Keys \ {q} : store'[k] = store[k] /\ origin'[k] = origin[k]
  BY <1>0, <1>1
<1>8. \A v \in Workers : origin'[v] = origin[v]
  BY <1>0, <1>1
<1>9. Scanning(w)'
  <2>1. st'[w] = x /\ pc'[w] = "scan" /\ origin'[w] = origin[w]
    BY <1>0, <1>1, <1>8
  <2>2. HeadPos(w)' = HeadPos(w)
    BY <1>4, <2>1 DEF HeadPos
  <2>3. Listing(w)
    BY <1>2 DEF Scanning
  <2>4. Listing(w)'
    BY <1>1, <1>4, <2>1, <2>2, <2>3 DEF Listing, Located
  <2> QED
    BY <1>1, <1>2, <1>4, <2>1, <2>4 DEF Scanning
<1>10. ASSUME NEW v \in Workers
       PROVE  /\ pc'[v] = "open" => Opening(v)'
              /\ pc'[v] \in {"scan", "put"} => Scanning(v)'
  <2>1. CASE v = w
    BY <1>0, <1>1, <1>9, <2>1
  <2>2. CASE v # w
    BY <1>0, <1>1, <1>8, <2>2, Frame DEF Placed
  <2> QED
    BY <2>1, <2>2
<1> QED
  BY <1>1, <1>6, <1>7, <1>10, PlacedStore

LEMMA PlacedStep == IInv /\ [Next]_vars => Placed'
<1> SUFFICES ASSUME IInv, [Next]_vars, Indexed PROVE Placed'
  BY DEF Placed
<1>0. /\ Base /\ Placed
      /\ pc \in [Workers -> {"idle", "get", "remove", "open", "scan", "put"}]
      /\ mode \in [Workers -> {"seek", "session"}]
      /\ abs \in [Workers -> Int] /\ pos \in [Workers -> Nat]
      /\ st \in [Workers -> ScanState] /\ origin \in [Keys \cup Workers -> Nat]
      /\ store \in [Keys -> Session \cup {NoSession}]
      /\ \A k \in Keys : k \notin Workers
  BY NamesAssumption DEF IInv, Base, TypeOK
<1>1. CASE Record
  BY <1>1, PlacedRecord
<1>2. ASSUME NEW k \in Keys, Expire(k) PROVE Placed'
  <2>1. /\ rec' = rec /\ store'[k] = NoSession
        /\ \A q \in Keys \ {k} : store'[q] = store[q] /\ origin'[q] = origin[q]
        /\ UNCHANGED <<st, mode, abs, pos, origin, pc>>
    BY <1>0, <1>2 DEF Expire, file, locals, aux
  <2>2. \A v \in Workers : /\ pc'[v] = "open" => Opening(v)'
                           /\ pc'[v] \in {"scan", "put"} => Scanning(v)'
    BY <1>0, <2>1, Frame DEF Placed
  <2> QED
    BY <2>1, <2>2, PlacedStore
<1>3. ASSUME NEW w \in Workers, Receive(w) PROVE Placed'
  <2>1. pc' = [pc EXCEPT ![w] = "get"] /\ UNCHANGED <<rec, store, st, mode, abs, pos, origin>>
    BY <1>3 DEF Receive, file, aux
  <2> QED
    BY <1>0, <2>1, PlacedWorker
<1>4. ASSUME NEW w \in Workers, GetSession(w) PROVE Placed'
  <2>1. UNCHANGED <<rec, store, abs, pos>> /\ pc[w] = "get"
    BY <1>4 DEF GetSession, file
  <2>2. ASSUME NEW q \in {"open", "remove"}, pc' = [pc EXCEPT ![w] = q],
               mode' = [mode EXCEPT ![w] = "seek"], UNCHANGED <<st, origin>>
        PROVE  Placed'
    <3>1. Opening(w)'
      BY <1>0, <2>2 DEF Opening
    <3> QED
      BY <1>0, <2>1, <2>2, <3>1, PlacedWorker
  <2>3. ASSUME store[req[w].key] # NoSession, pc' = [pc EXCEPT ![w] = "open"],
               mode' = [mode EXCEPT ![w] = "session"],
               st' = [st EXCEPT ![w] = SessionStart(store[req[w].key])],
               origin' = [origin EXCEPT ![w] = origin[req[w].key]]
        PROVE  Placed'
    <3>1. req[w].key \in Keys
      BY <2>1 DEF IInv, TypeOK, Request
    <3>2. store[req[w].key] \in Session /\ Located(store[req[w].key], origin[req[w].key])
      BY <1>0, <2>3, <3>1 DEF Placed
    <3>3. /\ st'[w] = SessionStart(store[req[w].key])
          /\ st'[w].sess = store[req[w].key] /\ origin'[w] = origin[req[w].key]
      BY SMTT(30), <1>0, <2>3, <3>2, StartTypes
    <3>4. Opening(w)'
      BY <2>1, <3>2, <3>3 DEF Opening, Located
    <3>5. pc'[w] = "open" /\ \A k \in Keys : origin'[k] = origin[k]
      BY <1>0, <2>3
    <3>6. \A v \in Workers \ {w} :
             /\ st'[v] = st[v] /\ mode'[v] = mode[v] /\ abs'[v] = abs[v]
             /\ pos'[v] = pos[v] /\ origin'[v] = origin[v] /\ pc'[v] = pc[v]
      BY <1>0, <2>1, <2>3
    <3> QED
      BY <2>1, <3>4, <3>5, <3>6, PlacedWorker
  <2> QED
    BY <1>4, <2>2, <2>3 DEF GetSession
<1>5. ASSUME NEW w \in Workers, RemoveSession(w) PROVE Placed'
  <2>1. /\ pc[w] = "remove" /\ pc' = [pc EXCEPT ![w] = "open"]
        /\ store' = [store EXCEPT ![req[w].key] = NoSession]
        /\ UNCHANGED <<rec, st, mode, abs, pos, origin>>
    BY <1>5 DEF RemoveSession, file, locals
  <2>2. req[w].key \in Keys
    BY <2>1 DEF IInv, TypeOK, Request
  <2>3. /\ store'[req[w].key] = NoSession
        /\ \A q \in Keys \ {req[w].key} : store'[q] = store[q] /\ origin'[q] = origin[q]
    BY <1>0, <2>1, <2>2
  <2>4. ASSUME NEW v \in Workers
        PROVE  /\ pc'[v] = "open" => Opening(v)'
               /\ pc'[v] \in {"scan", "put"} => Scanning(v)'
    <3>1. CASE v = w
      <4>1. mode[w] = "seek"
        BY <2>1 DEF IInv, Removing
      <4> QED
        BY <1>0, <2>1, <3>1, <4>1 DEF Opening
    <3>2. CASE v # w
      BY <1>0, <2>1, <3>2, Frame DEF Placed
    <3> QED
      BY <3>1, <3>2
  <2> QED
    BY <2>1, <2>2, <2>3, <2>4, PlacedStore
<1>6. ASSUME NEW w \in Workers, OpenFile(w) PROVE Placed'
  BY Zenon, <1>0, <1>6, OpenScan DEF OpenFile, file, aux
<1>7. ASSUME NEW w \in Workers, ReadLine(w) PROVE Placed'
  <2>1. /\ UNCHANGED <<rec, store, mode, abs>> /\ pos' = [pos EXCEPT ![w] = @ + 1]
        /\ \E x : st' = [st EXCEPT ![w] = x]
        /\ \E q \in {"put", "scan"} : pc' = [pc EXCEPT ![w] = q]
        /\ origin' = origin \/ \E o : origin' = [origin EXCEPT ![w] = o]
    BY Zenon, <1>7 DEF ReadLine, file
  <2>2. Scanning(w)'
    BY <1>7, ScanLine
  <2>3. \A k \in Keys : origin'[k] = origin[k]
    BY <1>0, <2>1
  <2>4. \A v \in Workers \ {w} :
           /\ st'[v] = st[v] /\ mode'[v] = mode[v] /\ abs'[v] = abs[v]
           /\ pos'[v] = pos[v] /\ origin'[v] = origin[v] /\ pc'[v] = pc[v]
    BY <1>0, <2>1
  <2>5. pc'[w] # "open"
    BY <1>0, <2>1
  <2> QED
    BY <2>1, <2>2, <2>3, <2>4, <2>5, PlacedWorker
<1>8. ASSUME NEW w \in Workers, PutSession(w) PROVE Placed'
  BY <1>8, PlacedPut
<1>9. ASSUME NEW w \in Workers, Return(w), UNCHANGED <<file, store>> PROVE Placed'
  <2>1. pc'[w] = "idle" /\ \A k \in Keys : origin'[k] = origin[k]
    BY <1>0, <1>9 DEF Return
  <2>2. \A v \in Workers \ {w} :
           /\ st'[v] = st[v] /\ mode'[v] = mode[v] /\ abs'[v] = abs[v]
           /\ pos'[v] = pos[v] /\ origin'[v] = origin[v] /\ pc'[v] = pc[v]
    BY SMTT(30), <1>0, <1>9 DEF Return
  <2> QED
    BY <1>9, <2>1, <2>2, PlacedWorker DEF file
<1>10. CASE UNCHANGED vars
  <2>1. UNCHANGED <<rec, store, origin, st, mode, abs, pos, pc>>
    BY <1>10 DEF vars, file, locals, aux
  <2>2. ASSUME NEW k \in Keys, store'[k] # NoSession
        PROVE  Located(store[k], origin[k])'
    BY <1>0, <2>1, <2>2, KeyFrame DEF Placed
  <2>3. ASSUME NEW v \in Workers
        PROVE  /\ pc'[v] = "open" => Opening(v)'
               /\ pc'[v] \in {"scan", "put"} => Scanning(v)'
    BY <1>0, <2>1, Frame DEF Placed
  <2> QED
    BY <2>2, <2>3 DEF Placed
<1> QED
  BY <1>1, <1>2, <1>3, <1>4, <1>5, <1>6, <1>7, <1>8, <1>9, <1>10
     DEF Next, Handle, Finish, Throw

-----------------------------------------------------------------------------
LEMMA IInvInit == Init => IInv
<1> SUFFICES ASSUME Init PROVE IInv
  OBVIOUS
<1>1. Placed /\ Removing
  BY DEF Init, Placed, Removing
<1> QED
  BY <1>1, BaseInit DEF IInv, Base

LEMMA IInvStep == IInv /\ [Next]_vars => IInv'
<1> SUFFICES ASSUME IInv, [Next]_vars PROVE IInv'
  OBVIOUS
<1>1. Base
  BY DEF IInv, Base
<1>2. Removing'
  BY <1>1, RemovingStep DEF IInv
<1> QED
  BY <1>1, <1>2, TypeStep, OrderedStep, InFileStep, PlacedStep DEF IInv

(* SequenceIdentity: the media sequence number kept in Redis names one     *)
(* segment of the recording for the whole life of a seek, for any number   *)
(* of threads, viewers, failures and expiries.                             *)
THEOREM SequenceIdentityHolds == Spec => []SequenceIdentity
<1>1. IInv => SequenceIdentity
  BY DEF IInv, Placed, SequenceIdentity
<1> QED
  BY IInvInit, IInvStep, <1>1, PTL DEF Spec

(* PlaylistIdentity: every playlist answered from a .m3u8.index file       *)
(* starts with its number, and the number says which consecutive segments  *)
(* of the recording follow.                                                *)
THEOREM PlaylistIdentityHolds == Spec => []PlaylistIdentity
<1>1. IInv => PlaylistIdentity
  <2> SUFFICES ASSUME IInv, Indexed, NEW w \in Workers, Answering(w)
               PROVE  /\ Playlist(w).num # NoNum /\ Playlist(w).at = 0
                      /\ \A i \in 1..Len(Playlist(w).segs) :
                          /\ origin[w] + Playlist(w).num + i - 1 \in 1..Len(rec)
                          /\ Playlist(w).segs[i].ts = rec[origin[w] + Playlist(w).num + i - 1]
    BY DEF PlaylistIdentity
  <2>1. /\ Scanning(w) /\ pos[w] = Len(rec) /\ Len(rec) \in Nat
        /\ st[w] \in ScanState /\ origin[w] \in Nat
        /\ mode[w] \in {"seek", "session"}
        /\ mode[w] = "session" => st[w].sess \in Session
    BY SMTT(30) DEF IInv, Placed, Answering, Eof, TypeOK
  <2>2. st[w].index \in {-1} \cup Nat
    BY <2>1 DEF ScanState
  <2>3. CASE st[w].index >= 1
    <3>1. Listing(w) /\ ~(st[w].index = 0)
      BY <2>1, <2>2, <2>3 DEF Scanning
    <3>2. Playlist(w) = st[w]
      BY SMTT(30), <3>1 DEF Playlist, SessionEnd
    <3>3. /\ st[w].sess.sequence \in Nat /\ st[w].num = st[w].sess.sequence /\ st[w].at = 0
          /\ HeadPos(w) = origin[w] + st[w].num /\ HeadPos(w) \in 1..Len(rec)
      BY <3>1 DEF Listing, Session, HeadPos, Located
    <3>4. st[w].num # NoNum
      BY <3>3, NoNumAssumption
    <3>5. ASSUME NEW i \in 1..Len(st[w].segs)
          PROVE  /\ HeadPos(w) + i - 1 \in 1..Len(rec)
                 /\ st[w].segs[i].ts = rec[HeadPos(w) + i - 1]
      <4>1. /\ Len(st[w].segs) = Capped(st[w].index)
            /\ st[w].index = Len(rec) - HeadPos(w) + 1
            /\ st[w].segs[i].ts = rec[HeadPos(w) + i - 1]
        BY <2>1, <3>1 DEF Listing
      <4>2. i \in Nat /\ 1 <= i /\ i <= st[w].index
        BY <2>2, <2>3, <4>1 DEF Capped, PlaylistSize
      <4> QED
        BY <2>1, <3>3, <4>1, <4>2
    <3> QED
      BY <3>2, <3>3, <3>4, <3>5
  <2>4. CASE st[w].index < 1
    <3>1. Searching(w) /\ st[w].segs = <<>> /\ st[w].at = 0
      BY <2>1, <2>4 DEF Scanning, Searching
    <3>2. CASE mode[w] = "seek"
      <4>1. Playlist(w) = st[w] /\ st[w].num = 0
        BY <3>1, <3>2 DEF Playlist, Searching
      <4>2. st[w].num # NoNum /\ Len(Playlist(w).segs) = 0
        BY <3>1, <4>1, NoNumAssumption
      <4> QED
        BY <3>1, <4>1, <4>2
    <3>3. CASE mode[w] = "session"
      <4>1. st[w].index = 0 /\ st[w].sess.sequence \in Nat
        BY <2>1, <2>2, <2>4, <3>1, <3>3 DEF Searching, HeadPos, Located, Session
      <4>2. Playlist(w) = [st[w] EXCEPT !.num = st[w].sess.sequence, !.at = Len(st[w].segs)]
        BY <3>3, <4>1 DEF Playlist, SessionEnd
      <4>3. /\ Playlist(w).num = st[w].sess.sequence /\ Playlist(w).at = 0
            /\ Len(Playlist(w).segs) = 0
        BY <2>1, <3>1, <4>2 DEF ScanState
      <4>4. Playlist(w).num # NoNum
        BY <4>1, <4>3, NoNumAssumption
      <4> QED
        BY <4>3, <4>4
    <3> QED
      BY <2>1, <3>2, <3>3
  <2> QED
    BY <2>2, <2>3, <2>4
<1> QED
  BY IInvInit, IInvStep, <1>1, PTL DEF Spec

=============================================================================
