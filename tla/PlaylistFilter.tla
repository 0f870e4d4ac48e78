--------------------------- MODULE PlaylistFilter ---------------------------
(***************************************************************************)
(* One request of the m3u8 filter reading a playlist file line by line:    *)
(* the loops of m3u8_playseek_filter, m3u8_playseek_filter_session and     *)
(* m3u8_playback_filter, and how nginx lays out a playback answer.         *)
(*                                                                         *)
(* Text is a sequence of tokens: a header tag, the end of a line, the      *)
(* media sequence number, an EXTINF line or a .ts line.  JSON carries the  *)
(* strings from the filter to nginx unchanged.                             *)
(*                                                                         *)
(* The file is external: the recorder may order the header as it likes and *)
(* may leave lines that are no segment names.                              *)
(***************************************************************************)
EXTENDS SeekScan, FiniteSets, SequencesExt

CONSTANTS Names,      \* the filters called: "seek", "session", "review"
          Times,      \* times that segment names carry
          Exts,       \* durations that EXTINF lines carry
          Headers,    \* possible headers, sequences of tags
          MaxBody,    \* bound: lines that follow the header
          Null        \* ext_info, and a session's timestamp, before they are set

Tags == {"EXTM3U", "VERSION", "TARGETDURATION", "SEQUENCE"}

VARIABLES
    op,      \* the filter called and its arguments
    head,    \* the header of the file
    file,    \* the lines read so far, the header included
    ext,     \* ext_info
    sb,      \* the StringBuffer, for a playback the title
    st,      \* the loop's locals of a playseek, see SeekScan
    list,    \* ts_list of a playback
    puts,    \* the sessions written to Redis
    phase    \* "read", "done" or "threw"

vars == <<op, head, file, ext, sb, st, list, puts, phase>>

(* A line: a header tag, an EXTINF line, a .ts line with the time in its   *)
(* name or (bad) without one, or a line that matches no branch.            *)
Line(kind, val) == [kind |-> kind, val |-> val]
BodyLines == {Line("other", 0), Line("bad", 0)} \cup {Line("EXTINF", e) : e \in Exts}
             \cup {Line("ts", t) : t \in Times}

(* Tokens.                                                                 *)
Tag(x) == [kind |-> "tag", val |-> x]
NL == [kind |-> "nl", val |-> 0]
Num(n) == [kind |-> "num", val |-> n]
Ext(e) == [kind |-> "ext", val |-> e]
Ts(t) == [kind |-> "ts", val |-> t]

(* transform2UnixTime: a date that cannot be parsed becomes 0.             *)
Dates == {0} \cup Times

(* The calls, a session with some sequence number among them.              *)
Calls ==
    [name : {"seek"}, abs : Dates]
    \cup [name : {"session"},
          sess : [timestamp : {Null}, last_time : Times, sequence : {7}]]
    \cup [name : {"review"}, begin : Dates, end : Dates]

Init ==
    /\ op \in {c \in Calls : c.name \in Names}
    /\ head \in Headers
    /\ file = <<>> /\ ext = Null /\ sb = <<>> /\ list = <<>> /\ puts = <<>>
    /\ st = IF op.name = "session" THEN SessionStart(op.sess) ELSE SeekStart(Null)
    /\ phase = "read"

-----------------------------------------------------------------------------
(* readLine() returns this line.                                           *)
Reads(line) ==
    /\ phase = "read"
    /\ IF Len(file) < Len(head) THEN line = Line(head[Len(file) + 1], 0)
       ELSE line \in BodyLines /\ Len(file) < Len(head) + MaxBody
    /\ file' = Append(file, line)
    /\ UNCHANGED <<op, head>>

ReadExtinf ==
    \E e \in Exts :
        /\ Reads(Line("EXTINF", e))
        /\ ext' = e
        /\ UNCHANGED <<sb, st, list, puts, phase>>

HeaderText(tag) ==
    CASE op.name = "review" \/ tag # "SEQUENCE" -> <<Tag(tag), NL>>
      [] op.name = "seek" /\ tag = "SEQUENCE" -> <<Tag(tag), Num(0)>>
      [] op.name = "session" /\ tag = "SEQUENCE" -> <<Tag(tag)>>

ReadHeader ==
    \E tag \in Tags :
        /\ Reads(Line(tag, 0))
        /\ sb' = sb \o HeaderText(tag)
        /\ UNCHANGED <<ext, st, list, puts, phase>>

ReadOther ==
    /\ Reads(Line("other", 0))
    /\ UNCHANGED <<ext, sb, st, list, puts, phase>>

(* get_ts_time: NumberFormatException or ArrayIndexOutOfBoundsException.   *)
ReadBad ==
    /\ Reads(Line("bad", 0))
    /\ phase' = "threw"
    /\ UNCHANGED <<ext, sb, st, list, puts>>

Appended(old, new, t) ==
    (IF new.num # old.num THEN <<Num(new.num)>> ELSE <<>>)
    \o (IF new.segs # old.segs THEN <<NL, Ext(ext), NL, Ts(t)>> ELSE <<>>)

ReadTs ==
    \E t \in Times :
        LET new == IF op.name = "seek" THEN SeekTs(st, ext, t, Null, op.abs)
                   ELSE SessionTs(st, ext, t)
        IN
        /\ op.name \in {"seek", "session"}
        /\ Reads(Line("ts", t))
        /\ sb' = sb \o Appended(st, new, t)
        /\ puts' = IF new.put THEN Append(puts, new.sess) ELSE puts
        /\ st' = [new EXCEPT !.put = FALSE]
        /\ UNCHANGED <<ext, list, phase>>

Within(begin, t, end) == begin < t /\ t < end

ReadReviewTs ==
    \E t \in Times :
        /\ op.name = "review"
        /\ Reads(Line("ts", t))
        /\ list' = IF Within(op.begin, t, op.end)
                   THEN Append(list, Segment(ext, t)) ELSE list
        /\ UNCHANGED <<ext, sb, st, puts, phase>>

(* readLine() returns null.                                                *)
Finish ==
    /\ phase = "read" /\ Len(file) >= Len(head)
    /\ phase' = "done"
    /\ IF op.name = "session" /\ st.index = 0
       THEN sb' = Append(sb, Num(st.sess.sequence)) /\ st' = SessionEnd(st)
       ELSE UNCHANGED <<sb, st>>
    /\ UNCHANGED <<op, head, file, ext, list, puts>>

Next ==
    \/ ReadExtinf \/ ReadHeader \/ ReadOther \/ ReadBad
    \/ ReadTs \/ ReadReviewTs \/ Finish

Spec == Init /\ [][Next]_vars

-----------------------------------------------------------------------------

ReviewItem(i, seg) ==
    (IF i = 1 THEN <<>> ELSE <<NL>>) \o <<Ext(seg.ext), NL, Ts(seg.ts)>>

ReviewText ==
    sb \o FlattenSeq([i \in 1..Len(list) |-> ReviewItem(i, list[i])])
       \o <<NL, Tag("ENDLIST")>>

-----------------------------------------------------------------------------
(* Reference definitions, over the whole file at once.                     *)
TsLines == {i \in 1..Len(file) : file[i].kind = "ts"}

ExtBefore(i) ==
    LET E == {j \in 1..i : file[j].kind = "EXTINF"}
    IN  IF E = {} THEN Null ELSE file[Max(E)].val

Listed(I) ==
    LET order == SetToSortSeq(I, <)
    IN  [n \in 1..Len(order) |-> Segment(ExtBefore(order[n]), file[order[n]].val)]

LaterThan(t) == Listed({i \in TsLines : file[i].val > t})

UpTo(n, seq) == SubSeq(seq, 1, Min({n, Len(seq)}))

Chronological ==
    \A i, j \in TsLines : i < j => file[i].val < file[j].val

Present(t) == \E i \in TsLines : file[i].val = t

Done(name) == phase = "done" /\ op.name = name

(* m3u8_playback_filter lists exactly the segments strictly inside the     *)
(* interval, in the order of the file, each with the last EXTINF line      *)
(* before it; with a begin that cannot be parsed it lists from the start   *)
(* of the recording, with such an end nothing.                             *)
ReviewExact ==
    Done("review") =>
        list = Listed({i \in TsLines : op.begin < file[i].val /\ file[i].val < op.end})

(* m3u8_playseek_filter lists the first three segments after the seek      *)
(* point and founds exactly one session, at the first of them, or none if  *)
(* there is none.                                                          *)
SeekExact ==
    Done("seek") =>
        LET later == LaterThan(op.abs) IN
        /\ st.segs = UpTo(3, later)
        /\ puts = IF later = <<>> THEN <<>>
                  ELSE <<[timestamp |-> Null, last_time |-> later[1].ts, sequence |-> 0]>>

(* m3u8_playseek_filter_session on a chronological file.  While the last   *)
(* segment handed out is in the file, the next three follow, numbered one  *)
(* higher, or none with the old number at the live edge.  When it has left *)
(* the file, up to four segments follow and the session skips the first.   *)
SessionExact ==
    Done("session") /\ Chronological =>
        LET last == op.sess.last_time
            later == LaterThan(last)
            skip == IF Present(last) THEN 0 ELSE 1
        IN
        /\ st.segs = UpTo(3 + skip, later)
        /\ IF Len(later) > skip
           THEN /\ st.num = op.sess.sequence + 1 /\ st.at = skip
                /\ puts = <<[timestamp |-> Null, last_time |-> later[skip + 1].ts,
                             sequence |-> op.sess.sequence + 1]>>
           ELSE /\ st.num = (IF Len(later) = skip THEN op.sess.sequence ELSE NoNum)
                /\ puts = <<>>

(* The text in the StringBuffer is what SeekScan says it is: the segments  *)
(* in order, with the number after the first "at" of them.                 *)
TextMirrorsScan ==
    op.name = "session" =>
        LET Text(segs) == FlattenSeq([i \in 1..Len(segs) |->
                                        <<Ext(segs[i].ext), Ts(segs[i].ts)>>])
            number == IF st.num = NoNum THEN <<>> ELSE <<Num(st.num)>>
        IN  SelectSeq(sb, LAMBDA k : k.kind \in {"num", "ext", "ts"})
            = Text(SubSeq(st.segs, 1, st.at)) \o number
              \o Text(SubSeq(st.segs, st.at + 1, Len(st.segs)))

(* A player can read the text: a number stands behind the media sequence   *)
(* tag, everything else at the start of a line.                            *)
Readable(text) ==
    \A i \in 1..Len(text) :
        CASE text[i].kind = "nl" -> TRUE
          [] text[i].kind = "num" ->
             i > 1 /\ text[i - 1].kind = "tag" /\ text[i - 1] = Tag("SEQUENCE")
          [] text[i].kind \in {"tag", "ext", "ts"} -> i = 1 \/ text[i - 1].kind = "nl"

SequenceLast == head # <<>> /\ Last(head) = "SEQUENCE"

(* A playseek playlist made from a file whose header ends with the media   *)
(* sequence is readable, except exactly in this case: the segment of the   *)
(* session has left the file, so that the number comes behind a segment.   *)
PlayseekReadable ==
    phase = "done" /\ op.name # "review" /\ SequenceLast /\ Chronological =>
        (Readable(sb) <=> \/ op.name = "seek"
                          \/ Present(op.sess.last_time)
                          \/ LaterThan(op.sess.last_time) = <<>>)

(* The pieces of a playback answer, the title from the filter and the      *)
(* buffers nginx adds, always join to a readable playlist.                 *)
ReviewReadable == Done("review") => Readable(ReviewText)
=============================================================================
