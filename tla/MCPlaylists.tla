---------------------------- MODULE MCPlaylists -----------------------------

(***************************************************************************)
(* The playlists of the time-shift filter: the lines the three filters     *)
(* write, the pipeline of its HTTP server, the sliding window of a session *)
(* and the whole path from the player to the session store.                *)
(***************************************************************************)

EXTENDS FilterServer, Integers, Sequences, TLC

CONSTANTS IntMax, NoNum, Null, NoSession, Workers, Keys, Spans, MaxLost,
    MaxJumps

VARIABLES part, op, head, file, ext, sb, st, list, puts, phase, now, rec,
    store, pc, req, mode, abs, pos, end, origin, stale, link, seek, seen,
    slack, budget

(* Headers: the usual order, one with a tag behind the media sequence, and *)
(* none.                                                                   *)
MCHeaders == {<<"EXTM3U", "VERSION", "TARGETDURATION", "SEQUENCE">>,
              <<"EXTM3U", "SEQUENCE", "TARGETDURATION">>, <<>>}

Playseek == INSTANCE PlaylistFilter WITH
    Names <- {"seek", "session"}, Times <- {1, 2, 3, 4}, Exts <- {1},
    Headers <- MCHeaders, MaxBody <- 5

Review == INSTANCE PlaylistFilter WITH
    Names <- {"review"}, Times <- {1, 2, 3}, Exts <- {1, 2},
    Headers <- MCHeaders, MaxBody <- 4

Sessions == INSTANCE SeekSession WITH
    FirstTime <- 4, Timestamps <- {"t1"}, Offsets <- {4}, Indexed <- FALSE,
    Window <- 4, MaxTime <- 10

Viewer == INSTANCE TimeShift WITH
    FirstTime <- 1, Timestamps <- {"t1", "t2"}, Offsets <- {1},
    Indexed <- TRUE, Window <- 1, MaxTime <- 4

playseekVars == <<op, head, file, ext, sb, list, puts, phase>>

NoPlayseek == op = 0 /\ head = 0 /\ file = 0 /\ ext = 0 /\ sb = 0
              /\ list = 0 /\ puts = 0 /\ phase = 0

sharedVars == <<now, rec, store, pc, req, mode, abs, pos, end, origin, stale>>

NoShared == now = 0 /\ rec = 0 /\ store = 0 /\ pc = 0 /\ req = 0 /\ mode = 0
            /\ abs = 0 /\ pos = 0 /\ end = 0 /\ origin = 0 /\ stale = 0

timeShiftVars == <<link, seek, seen, slack, budget>>

NoTimeShift == link = 0 /\ seek = 0 /\ seen = 0 /\ slack = 0 /\ budget = 0

all == <<part, playseekVars, st, vars, sharedVars, timeShiftVars>>

-----------------------------------------------------------------------------

MCInit ==
    \/ /\ \/ part = "playseek" /\ Playseek!Init
          \/ part = "review" /\ Review!Init
       /\ (files = {} /\ Init) /\ NoShared /\ NoTimeShift
    \/ /\ part = "pipeline" /\ Init
       /\ NoPlayseek /\ st = 0 /\ NoShared /\ NoTimeShift
    \/ /\ part = "window" /\ Sessions!Init
       /\ NoPlayseek /\ (files = {} /\ Init) /\ NoTimeShift
    \/ /\ part = "time shift" /\ Viewer!TimeInit
       /\ NoPlayseek /\ (files = {} /\ Init)

(* A playlist ends, and a client or a viewer may be through.               *)
MayStop ==
    /\ part \in {"playseek", "review", "pipeline", "time shift"}
    /\ UNCHANGED all

MCNext ==
    \/ /\ \/ part = "playseek" /\ Playseek!Next
          \/ part = "review" /\ Review!Next
       /\ UNCHANGED <<part, vars, sharedVars, timeShiftVars>>
    \/ /\ part = "pipeline" /\ Next
       /\ UNCHANGED <<part, playseekVars, st, sharedVars, timeShiftVars>>
    \/ /\ part = "window" /\ Sessions!Next
       /\ UNCHANGED <<part, playseekVars, vars, timeShiftVars>>
    \/ /\ part = "time shift" /\ Viewer!TimeNext
       /\ UNCHANGED <<part, playseekVars, vars>>
    \/ MayStop

MCSpec == MCInit /\ [][MCNext]_all

-----------------------------------------------------------------------------

(* The threads of the filter are interchangeable.                          *)
Symmetry == Permutations(Workers)

(* A playseek playlist has the first three segments after the seek point,  *)
(* or the next three of the session numbered one higher; a playback        *)
(* playlist exactly the segments inside its interval; and what is written  *)
(* is readable except when the session's segment has left the file         *)
(* (m3u8_playseek_filter, m3u8_playseek_filter_session,                    *)
(* m3u8_playback_filter).                                                  *)
PlaylistsExact ==
    /\ part = "playseek" =>
          /\ Playseek!SeekExact /\ Playseek!SessionExact
          /\ Playseek!TextMirrorsScan /\ Playseek!PlayseekReadable
    /\ part = "review" => Review!ReviewExact /\ Review!ReviewReadable

(* On a sliding .m3u8 the number stands in front of the segment the        *)
(* session moves to and never runs ahead of it; through lost answers and   *)
(* workers of an earlier seek, a player gets playlists of its own seek,    *)
(* and each lost poll costs it at most one number                          *)
(* (m3u8_playseek_filter_session, update_session).                         *)
SessionFollows ==
    /\ part = "window" =>
          /\ Sessions!NumberPrecedesHead /\ Sessions!SequenceNeverAhead
    /\ part = "time shift" => Viewer!LossCostsOne /\ Viewer!OwnSeek

=============================================================================
