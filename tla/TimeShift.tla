----------------------------- MODULE TimeShift -----------------------------
(***************************************************************************)
(* The whole time-shift path for one viewer: a player that polls its seek, *)
(* the hlsm3u8 handler in nginx that passes each poll to the filter and    *)
(* the answer back, and the filter's workers over the session store        *)
(* (SeekSession).  nginx is what HlsM3u8 shows of it to the outside: a     *)
(* poll is answered with the filter's playlist, or the player gets an      *)
(* error or nothing because a timer expired, a connection broke or the     *)
(* filter failed.  The filter is not told: its worker goes on, advances    *)
(* the session and answers into a closed connection.                       *)
(***************************************************************************)
EXTENDS SeekSession

CONSTANTS MaxLost,    \* bound: polls that stay without a playlist
          MaxJumps    \* bound: how often the viewer seeks elsewhere

VARIABLES
    link,     \* the worker nginx waits for, NoReq when no poll is open
    seek,     \* the timestamp and the offset the player polls with
    seen,     \* for each seek, by its first segment, the highest number received
    slack,    \* lost polls not yet made up for by a skipped number
    budget    \* how many polls may still be lost, and jumps made

player == <<link, seek, seen, slack, budget>>
tvars == <<vars, player>>

Nothing == [o \in 0 .. (MaxTime - FirstTime) |-> -1]

TimeInit ==
    /\ Init
    /\ link = NoReq
    /\ seek \in [timestamp : Timestamps, offset : Offsets]
    /\ seen = Nothing
    /\ slack = 0
    /\ budget = [lost |-> MaxLost, jumps |-> MaxJumps]

(* The player polls: ngx_http_hlsm3u8_handler starts a subrequest, which   *)
(* reaches a free thread of the filter.                                    *)
Poll(w) ==
    /\ link = NoReq
    /\ pc[w] = "idle"
    /\ \E k \in Keys :
          req' = [req EXCEPT ![w] = [key |-> k, timestamp |-> seek.timestamp,
                                     offset |-> seek.offset]]
    /\ pc' = [pc EXCEPT ![w] = "get"]
    /\ link' = w
    /\ UNCHANGED <<file, store, mode, abs, pos, end, st, aux, seek, seen, slack, budget>>

(* hlsm3u8_pr_post_handler: the playlist reaches the player, who compares  *)
(* its number with the highest one of this seek.                           *)
Deliver(w) ==
    LET p == Playlist(w)
        b == seen[origin[w]]
    IN  /\ link = w
        /\ Finish(w)
        /\ seen' = [seen EXCEPT ![origin[w]] = IF b > p.num THEN b ELSE p.num]
        /\ slack' = IF b >= 0 /\ p.num > b + 1 THEN slack - (p.num - b - 1) ELSE slack
        /\ link' = NoReq
        /\ UNCHANGED <<seek, budget>>

(* The answer of a worker nobody waits for.                                *)
Orphaned(w) == link # w /\ Finish(w) /\ UNCHANGED player

(* The poll ends without a playlist; whatever the worker has done stays.   *)
Lose ==
    /\ link # NoReq /\ budget.lost > 0
    /\ link' = NoReq
    /\ slack' = slack + 1
    /\ budget' = [budget EXCEPT !.lost = @ - 1]
    /\ UNCHANGED <<vars, seek, seen>>

(* The filter's worker dies on an exception, or with its process.          *)
Fail(w) == budget.lost > 0 /\ Throw(w) /\ UNCHANGED player

(* The viewer seeks elsewhere: the player uses a new timestamp.            *)
Jump ==
    /\ link = NoReq /\ budget.jumps > 0
    /\ \E t \in Timestamps, o \in Offsets :
          t # seek.timestamp /\ seek' = [timestamp |-> t, offset |-> o]
    /\ budget' = [budget EXCEPT !.jumps = @ - 1]
    /\ UNCHANGED <<vars, link, seen, slack>>

Serve(w) == GetSession(w) \/ RemoveSession(w) \/ OpenFile(w) \/ ReadLine(w) \/ PutSession(w)

TimeNext ==
    \/ (Record \/ \E k \in Keys : Expire(k)) /\ UNCHANGED player
    \/ \E w \in Workers :
          \/ Poll(w) \/ Deliver(w) \/ Orphaned(w) \/ Fail(w)
          \/ Serve(w) /\ UNCHANGED player
    \/ Lose
    \/ Jump

TimeSpec == TimeInit /\ [][TimeNext]_tvars

-----------------------------------------------------------------------------
(* update_session against polls whose answer is lost: the workers they     *)
(* leave behind move the session on unseen, but each lost poll costs the   *)
(* player at most one number.  With no loss a playlist never begins more   *)
(* than one number after the highest one of its seek, so no segment is     *)
(* skipped; a repeated number never makes room for a larger jump.          *)
LossCostsOne == slack >= 0

(* A playlist that reaches the player belongs to the seek it polls, also   *)
(* while workers of an earlier seek still write their session under the    *)
(* same key.                                                               *)
OwnSeek ==
    \A w \in Workers : link = w /\ Answering(w) /\ Len(Playlist(w).segs) > 0 =>
        /\ Playlist(w).sess.timestamp = seek.timestamp
        /\ mode[w] = "seek" => Playlist(w).segs[1].ts > abs[w]
=============================================================================
