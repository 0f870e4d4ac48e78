------------------------------ MODULE SeekScan ------------------------------
(***************************************************************************)
(* The per-line bodies of the two loops of m3u8Capture that build a        *)
(* playseek playlist, as operators on the loop's local variables.  They    *)
(* are shared by PlaylistFilter, which reads one whole file line by line,  *)
(* and by SeekSession, where many requests read the growing file at once.  *)
(*                                                                         *)
(* The loop's locals are one record:                                       *)
(*   index  the counter of the loop (it starts at 0 or at -1)              *)
(*   sess   the sessionDef object: timestamp, last_time, sequence          *)
(*   put    putSession has to be called for sess before the next line      *)
(*   num    the number appended to the StringBuffer, NoNum before that     *)
(*   at     how many segments the StringBuffer held when num was appended  *)
(*   segs   the (EXTINF line, .ts line) pairs appended, in order           *)
(* so the text of the StringBuffer is abstracted to the order of the       *)
(* number and the segments, which is what a player depends on.             *)
(***************************************************************************)
EXTENDS Integers, Sequences

CONSTANTS IntMax,   \* Integer.MAX_VALUE
          NoNum     \* the media sequence number has not been appended

ASSUME IntMaxAssumption == IntMax \in Nat \ {0}
ASSUME NoNumAssumption == NoNum \notin Int

(* A Java int after an addition, a subtraction or a cast of a value that   *)
(* is at most one range away.                                              *)
Wrap(x) == IF x > IntMax THEN x - 2 * (IntMax + 1)
           ELSE IF x < -(IntMax + 1) THEN x + 2 * (IntMax + 1)
           ELSE x

(* "a - b > 0" on Java ints.                                               *)
After(a, b) == Wrap(a - b) > 0

(* A playlist lists at most this many segments: "index < 3".               *)
PlaylistSize == 3

Segment(ext, t) == [ext |-> ext, ts |-> t]

EmitFour(segs, index, ext, t) ==
    IF index <= PlaylistSize THEN Append(segs, Segment(ext, t)) ELSE segs

Emit(segs, index, ext, t) ==
    IF index < PlaylistSize THEN Append(segs, Segment(ext, t)) ELSE segs

-----------------------------------------------------------------------------
(* m3u8_playseek_filter: the first request of a seek.                      *)
SeekStart(null) ==
    [index |-> 0, put |-> FALSE, num |-> 0, at |-> 0, segs |-> <<>>,
     sess |-> [timestamp |-> null, last_time |-> 0, sequence |-> 0]]

NewSession(timestamp, t) ==
    [timestamp |-> timestamp, last_time |-> t, sequence |-> 0]

(* A .ts line of that loop: everything later than the seek point counts,   *)
(* and the first such segment founds the session.                          *)
SeekTs(st, ext, t, timestamp, absolute_time) ==
    IF ~After(t, absolute_time) THEN st
    ELSE [st EXCEPT
            !.sess = IF st.index = 0 THEN NewSession(timestamp, t) ELSE @,
            !.put = (st.index = 0),
            !.segs = Emit(@, st.index, ext, t),
            !.index = @ + 1]

(* m3u8_playseek_filter_session: a later request of the same seek.         *)
SessionStart(session) ==
    [index |-> -1, put |-> FALSE, num |-> NoNum, at |-> 0, segs |-> <<>>,
     sess |-> session]

(* "sb.append(++session.sequence)", then the fields as update_session      *)
(* writes them.                                                            *)
NextNumberPost(sess) == sess.sequence

NextNumber(sess) == sess.sequence + 1

NextSessionOldTime(sess, t) ==
    [timestamp |-> sess.timestamp, last_time |-> sess.last_time, sequence |-> sess.sequence + 1]

NextSessionOldNumber(sess, t) ==
    [timestamp |-> sess.timestamp, last_time |-> t, sequence |-> sess.sequence]

NextSession(sess, t) ==
    [timestamp |-> sess.timestamp, last_time |-> t, sequence |-> sess.sequence + 1]

(* A .ts line of that loop: the segment of the previous request is looked  *)
(* for, the one after it becomes the new head of the playlist.             *)
SessionTs(st, ext, t) ==
    IF t = st.sess.last_time THEN [st EXCEPT !.index = @ + 1]
    ELSE IF ~After(t, st.sess.last_time) THEN st
    ELSE [st EXCEPT
            !.sess = IF st.index = 0 THEN NextSession(@, t) ELSE @,
            !.put = (st.index = 0),
            !.num = IF st.index = 0 THEN NextNumber(st.sess) ELSE @,
            !.at = IF st.index = 0 THEN Len(st.segs) ELSE @,
            !.segs = Emit(@, st.index, ext, t),
            !.index = @ + 1]

(* The end of the file: at the live edge the old number is repeated.       *)
SessionEnd(st) ==
    IF st.index = 0
    THEN [st EXCEPT !.num = st.sess.sequence, !.at = Len(st.segs)]
    ELSE st
=============================================================================
