------------------------------ MODULE HlsM3u8 -------------------------------
(***************************************************************************)
(* A request for a time-shifted .m3u8: the life cycle of requests in the   *)
(* core, and on it the handler of the hlsm3u8 module.                      *)
(***************************************************************************)
EXTENDS Integers, Sequences

(***************************************************************************)
(* The part of nginx's request life cycle that the HLS handlers drive: a   *)
(* main request with one in-memory subrequest on one client connection,    *)
(* their reference count, the queue of posted requests, finalization and   *)
(* termination.  nginx calls these functions nested in one another, so     *)
(* each is an operator from a connection state s to the state after it.    *)
(*                                                                         *)
(*   data       c->data: the request that receives the client's events     *)
(*   error      c->error (set together with c->read->eof when it closes)   *)
(*   buffered   c->buffered: output waits in the write filter              *)
(*   timer, timedout   c->write->timer_set and c->write->timedout          *)
(*   posted     r->main->posted_requests                                   *)
(*   count      r->main->count                                             *)
(*   handler    write_event_handler of the main request and of the sub     *)
(*   status     headers_out.status of both, 0 when unset                   *)
(*   done       r->done of both                                            *)
(*   postponed  r->postponed of the main request is not empty: it holds    *)
(*              the subrequest or output that waits behind it              *)
(*   late       output of the main request waits behind the subrequest     *)
(*   header_sent, keepalive, header_only   of the main request             *)
(*   cleanup    u->cleanup is set: the subrequest's upstream is alive      *)
(*   up         what the upstream waits for: "none", "connect", "header",  *)
(*              "body", "closed"                                           *)
(*   buf        u->buffer: "null" (pos is NULL), "blank", "part", "full"   *)
(*   json       what the filter's complete answer holds                    *)
(*   ctx        ctx->data as the parent's handler finds it                 *)
(*   reply, body, shown   the status line, how much of the response and    *)
(*              which content went to the client                           *)
(*   rc         the code the subrequest was finalized with                 *)
(*   alerts     the NGX_LOG_ALERT messages                                 *)
(*   end        what became of the request                                 *)
(***************************************************************************)

(* ngx_http_create_request on a connection whose write event is in the     *)
(* state timedout: nothing resets that flag between two requests.          *)
Created(timedout, keepalive, header_only) ==
    [data |-> "main", error |-> FALSE, buffered |-> FALSE,
     timer |-> FALSE, timedout |-> timedout, posted |-> <<>>, count |-> 1,
     handler |-> [main |-> "phases", sub |-> "none"],
     status |-> [main |-> 0, sub |-> 0],
     done |-> [main |-> FALSE, sub |-> FALSE], postponed |-> FALSE,
     late |-> FALSE, header_sent |-> FALSE, keepalive |-> keepalive,
     header_only |-> header_only, cleanup |-> FALSE, up |-> "none",
     buf |-> "null", json |-> "none", ctx |-> "null", reply |-> 0,
     body |-> "none", shown |-> "none", rc |-> 0, alerts |-> {},
     end |-> "open"]

Alert(s, a) == [s EXCEPT !.alerts = @ \cup {a}]

Open(s) == s.end = "open"

(* ngx_http_post_request *)
PostRequest(s, r) == [s EXCEPT !.posted = Append(@, r)]

(* ngx_http_free_request: a cleanup that still finds the upstream alive    *)
(* finalizes it, and so closes a request whose count is already zero.      *)
FreeRequest(s, end) ==
    IF ~Open(s) THEN Alert(s, "already closed")
    ELSE LET f == [s EXCEPT !.end = end, !.timer = FALSE, !.cleanup = FALSE]
         IN  IF s.cleanup THEN Alert(f, "count is zero") ELSE f

(* ngx_http_close_request and ngx_http_close_connection *)
CloseRequest(s) ==
    LET a == IF s.count = 0 THEN Alert(s, "count is zero") ELSE s
        c == [a EXCEPT !.count = @ - 1]
    IN  IF c.count # 0 THEN c ELSE FreeRequest(c, "closed")

(* ngx_http_finalize_connection and ngx_http_set_keepalive; a lingering    *)
(* close only delays ngx_http_close_request.                               *)
FinalizeConnection(s) ==
    IF s.count = 1 /\ s.keepalive THEN FreeRequest(s, "keepalive")
    ELSE CloseRequest(s)

(* ngx_http_upstream_cleanup: ngx_http_upstream_finalize_request with      *)
(* NGX_DONE, which closes the connection to the peer.                      *)
UpstreamCleanup(s) ==
    FinalizeConnection([s EXCEPT !.cleanup = FALSE, !.up = "closed"])

(* ngx_http_terminate_request: the cleanups run, whatever was posted is    *)
(* dropped and the main request is left to the terminate handler.          *)
Terminate(s) ==
    LET c == IF s.cleanup THEN UpstreamCleanup(s) ELSE s
    IN  [c EXCEPT !.posted = <<"main">>, !.handler["main"] = "terminate"]

(* ngx_http_terminate_handler *)
TerminateHandler(s) == CloseRequest([s EXCEPT !.count = 1])

(* ngx_http_set_write_handler *)
SetWriteHandlerNoTimer(s) == [s EXCEPT !.handler["main"] = "writer"]

SetWriteHandler(s) == [s EXCEPT !.handler["main"] = "writer", !.timer = TRUE]

(* ngx_http_finalize_request of the main request with NGX_OK, NGX_AGAIN    *)
(* or a code below 300 (aborted is FALSE), or with NGX_ERROR, 408 or 499.  *)
FinalizeMainUnflushed(s, aborted) ==
    IF aborted \/ s.error THEN Terminate(s)
    ELSE IF s.postponed THEN SetWriteHandler(s)
    ELSE FinalizeConnection([s EXCEPT !.done["main"] = TRUE,
                                      !.handler["main"] = "empty",
                                      !.timer = FALSE])

FinalizeMain(s, aborted) ==
    IF aborted \/ s.error THEN Terminate(s)
    ELSE IF s.buffered \/ s.postponed THEN SetWriteHandler(s)
    ELSE IF s.data # "main" THEN Alert(s, "finalize non-active request")
    ELSE FinalizeConnection([s EXCEPT !.done["main"] = TRUE,
                                      !.handler["main"] = "empty",
                                      !.timer = FALSE])

(* The rest of ngx_http_finalize_request of the subrequest once its        *)
(* post_subrequest handler has run and returned NGX_OK.                    *)
FinalizeSubKeepCount(s) ==
    IF s.error THEN Terminate(s)
    ELSE PostRequest([s EXCEPT !.done["sub"] = TRUE,
                               !.postponed = FALSE, !.data = "main"], "main")

FinalizeSub(s) ==
    IF s.error THEN Terminate(s)
    ELSE IF s.data = "sub"
         THEN LET a == IF s.done["sub"] THEN Alert(s, "logged again") ELSE s
              IN  PostRequest([a EXCEPT !.count = @ - 1, !.done["sub"] = TRUE,
                                        !.postponed = s.late, !.data = "main"],
                              "main")
         ELSE PostRequest([s EXCEPT !.handler["sub"] = "finalizer"], "main")

(* ngx_http_subrequest with NGX_HTTP_SUBREQUEST_IN_MEMORY *)
Subrequest(s) ==
    PostRequest([s EXCEPT !.data = "sub", !.postponed = TRUE,
                          !.count = @ + 1, !.handler["sub"] = "phases"], "sub")

-----------------------------------------------------------------------------

(* ngx_http_send_header followed by ngx_http_output_filter of the whole    *)
(* response.  The socket takes all of it, a part of it, or fails.          *)
Sendings == {"all", "part", "fail"}

Output(s, sending) ==
    [s EXCEPT !.buffered = (sending = "part"),
              !.error = @ \/ (sending = "fail"),
              !.body = IF sending = "all" THEN "whole" ELSE "cut"]

Send(s, code, content, sending) ==
    IF s.header_sent
    THEN [Alert(s, "header already sent") EXCEPT !.error = TRUE]
    ELSE Output([s EXCEPT !.header_sent = TRUE, !.reply = code,
                          !.shown = content], sending)

(* ngx_http_finalize_request of the main request with a code of 300 or     *)
(* more, and ngx_http_special_response_handler.  For the codes of the      *)
(* error_page directive the page is served by an internal redirect, which  *)
(* takes and gives back one reference.                                     *)
FinalizeSpecial(s, code, sending) ==
    IF s.error THEN Terminate(s)
    ELSE FinalizeMain(Send([s EXCEPT !.timer = FALSE, !.status["main"] = code,
                                     !.keepalive = @ /\ code # 500],
                           code, "page", sending), FALSE)

Writer(s, sending) ==
    IF s.timedout THEN FinalizeMain(s, TRUE)
    ELSE LET o == Output(s, sending)
         IN  CASE sending = "all" -> FinalizeMain([o EXCEPT !.handler["main"] = "empty"], FALSE)
               [] sending = "part" -> [o EXCEPT !.timer = TRUE]
               [] sending = "fail" -> FinalizeMain(o, TRUE)

-----------------------------------------------------------------------------

(***************************************************************************)
(* A playseek or playback request in the nginx worker: the content handler *)
(* of ngx_http_hlsm3u8_module asks the m3u8 filter through an in-memory    *)
(* subrequest, and the parent is woken to turn the filter's JSON into a    *)
(* playlist.  Each action is one event of the worker's loop with all that  *)
(* its handler calls; the posted requests it leaves are run before the     *)
(* next event (ngx_http_run_posted_requests).                              *)
(*                                                                         *)
(* A connection serves one request after another while it is kept alive.   *)
(***************************************************************************)

VARIABLE s      \* the connection, see above

vars == s

(* The answers of the filter: the status and what the JSON body holds.     *)
(* "null" is a playlist the filter failed to read, "empty" one without a   *)
(* line or, for a playback, without a title, "page" an error answer.       *)
Answers == {<<200, "seek">>, <<200, "null">>, <<200, "empty">>,
            <<200, "review">>, <<403, "page">>, <<404, "page">>}

Refusals == {403, 405, 500, 503}

NoMemory(c) == [c EXCEPT !.shown = "nomem"]

Playlists == {"seek", "review", "empty"}

-----------------------------------------------------------------------------

SubrequestPost(c) ==
    [c EXCEPT !.status["main"] = c.status["sub"], !.ctx = c.buf,
              !.handler["main"] = "pr_post"]

UpstreamFinalize(c, rc) ==
    IF ~c.cleanup THEN FinalizeConnection(c)
    ELSE FinalizeSub(SubrequestPost([c EXCEPT !.cleanup = FALSE,
                                              !.up = "closed", !.rc = rc]))

ProxyHandler(c, connected) ==
    LET u == [c EXCEPT !.count = @ + 1, !.cleanup = TRUE, !.up = "connect",
                       !.handler["sub"] = "check"]
    IN  FinalizeConnection(IF connected THEN u ELSE UpstreamFinalize(u, 502))

(* What json_tokener_parse makes of ctx->data.  The buffer has no end      *)
(* mark: behind a part of a body lie bytes of earlier responses, which may *)
(* or may not complete it.                                                 *)
Parsed(c) ==
    IF c.ctx = "full" THEN {c.json} ELSE {"garbage", "stale"}

Crash(c, why) == [c EXCEPT !.end = why, !.timer = FALSE, !.posted = <<>>]

(* The playlist is sent, unless a chain or a buffer cannot be allocated    *)
(* for it.  A buffer of size zero makes the write filter fail before       *)
(* anything of the header has left; a HEAD request has no buffer at all.   *)
SendPlaylist(c, parsed, sending) ==
    LET k == [c EXCEPT !.keepalive = FALSE]
    IN  CASE sending = "nomem" -> FinalizeMain(NoMemory(c), FALSE)
          [] sending # "nomem" /\ parsed = "empty" /\ ~c.header_only ->
                FinalizeMain([k EXCEPT !.header_sent = TRUE, !.error = TRUE], TRUE)
          [] sending # "nomem" /\ (parsed # "empty" \/ c.header_only) ->
                FinalizeMain(Send(k, 200, parsed, sending), FALSE)

PrPostHandler(c, parsed, sending) ==
    CASE c.ctx = "null" -> Crash(c, "null pointer")
      [] c.ctx # "null" /\ c.status["main"] = 0 -> FinalizeMain(c, FALSE)
      [] c.ctx # "null" /\ c.status["main"] >= 300 ->
            FinalizeSpecial(c, c.status["main"], IF sending = "nomem" THEN "fail" ELSE sending)
      [] c.ctx # "null" /\ c.status["main"] = 200 ->
            CASE parsed = "garbage" -> Crash(c, "assertion")
              [] parsed = "null" -> Crash(c, "null pointer")
              [] parsed \in Playlists \cup {"stale"} ->
                    SendPlaylist(c, parsed, sending)

-----------------------------------------------------------------------------

(* ngx_http_hlsm3u8_handler refuses the request: not GET or HEAD, neither  *)
(* playseek nor playback among the arguments, no memory, no subrequest.    *)
(* It returns NGX_ERROR when there is no memory for its context.           *)
Refuse ==
    /\ Open(s) /\ s.handler["main"] = "phases"
    /\ \/ \E code \in Refusals, sending \in Sendings :
              s' = FinalizeSpecial(s, code, sending)
       \/ s' = FinalizeMain(NoMemory(s), TRUE)

(* It starts the subrequest and returns NGX_OK.                            *)
Ask ==
    /\ Open(s) /\ s.handler["main"] = "phases"
    /\ s' = FinalizeMain(Subrequest([s EXCEPT !.handler["main"] = "empty"]), FALSE)

(* ngx_http_run_posted_requests *)
Posted(r, handler) ==
    Open(s) /\ s.posted # <<>> /\ Head(s.posted) = r /\ s.handler[r] = handler

Taken == [s EXCEPT !.posted = Tail(@)]

RunSubrequest ==
    /\ Posted("sub", "phases")
    /\ \E connected \in BOOLEAN : s' = ProxyHandler(Taken, connected)

RunPrPost ==
    /\ Posted("main", "pr_post")
    /\ \E parsed \in Parsed(s), sending \in Sendings \cup {"nomem"} :
          s' = PrPostHandler(Taken, parsed, sending)

RunTerminate ==
    /\ Posted("main", "terminate")
    /\ s' = TerminateHandler(Taken)

RunPosted == RunSubrequest \/ RunPrPost \/ RunTerminate

-----------------------------------------------------------------------------

(* The events the worker waits for once nothing is posted.                 *)
Waiting == Open(s) /\ s.posted = <<>> /\ s.handler["main"] # "phases"

Upstream(phases) == Waiting /\ s.up \in phases

(* ngx_http_upstream_process_header: the first read event allocates the    *)
(* buffer, whatever can then be read.                                      *)
ReadBlank ==
    /\ Upstream({"connect"})
    /\ s' = [s EXCEPT !.up = "header", !.buf = "blank"]

(* The header of the answer is complete; the body may come later.          *)
ReadHeader ==
    /\ Upstream({"connect", "header"})
    /\ \E a \in Answers :
          s' = [s EXCEPT !.up = "body", !.buf = "part",
                         !.status["sub"] = a[1], !.json = a[2]]

(* ngx_http_upstream_process_body_in_memory: the last byte has come.       *)
ReadBody ==
    /\ Upstream({"body"})
    /\ s' = UpstreamFinalize([s EXCEPT !.buf = "full"], 0)

(* The peer closes: before the header is complete this is a bad gateway,   *)
(* in the body it counts as its end.  An invalid header or one that does   *)
(* not fit is a bad gateway as well.                                       *)
PeerClosed ==
    \/ /\ Upstream({"connect"})
       /\ \E buf \in {"null", "blank"} :
             s' = UpstreamFinalize([s EXCEPT !.buf = buf], 502)
    \/ /\ Upstream({"header"})
       /\ s' = UpstreamFinalize(s, 502)
    \/ /\ Upstream({"body"})
       /\ s' = UpstreamFinalize(s, 0)

(* A read error, or a body larger than proxy_buffer_size: NGX_ERROR, which *)
(* is recorded as 500.                                                     *)
BodyError ==
    /\ Upstream({"body"})
    /\ s' = UpstreamFinalize(s, 500)

(* The connect, send or read timer of the upstream expires.                *)
UpstreamTimeout ==
    /\ Upstream({"connect", "header", "body"})
    /\ s' = UpstreamFinalize(s, 504)

-----------------------------------------------------------------------------

(* The client closes: ngx_http_upstream_check_broken_connection while the  *)
(* subrequest is active, ngx_http_test_reading while the parent writes.    *)
ClientCloses ==
    /\ Waiting
    /\ LET e == [s EXCEPT !.error = TRUE]
       IN  s' = IF s.data = "sub" THEN UpstreamFinalize(e, 499)
                ELSE FinalizeMain(e, TRUE)

(* The write timer expires.  While the subrequest is active its handler    *)
(* only looks whether the client is still there.                           *)
WriteTimeout ==
    /\ Waiting /\ s.timer
    /\ LET e == [s EXCEPT !.timer = FALSE, !.timedout = TRUE]
       IN  s' = IF s.data = "sub" THEN e ELSE Writer(e, "part")

(* The client's socket is writable again.                                  *)
WriteReady ==
    /\ Waiting /\ s.data = "main" /\ s.handler["main"] = "writer"
    /\ \E sending \in Sendings : s' = Writer(s, sending)

(* The next request on a connection that was kept alive; a new connection  *)
(* after one that was closed.  A crashed worker is replaced by the master. *)
NextRequest ==
    /\ ~Open(s)
    /\ \E keepalive, header_only \in BOOLEAN :
          s' = Created(s.end = "keepalive" /\ s.timedout, keepalive, header_only)

-----------------------------------------------------------------------------

Init == \E keepalive, header_only \in BOOLEAN :
            s = Created(FALSE, keepalive, header_only)

Next ==
    \/ Refuse \/ Ask
    \/ RunSubrequest \/ RunPrPost \/ RunTerminate
    \/ ReadBlank \/ ReadHeader \/ ReadBody
    \/ PeerClosed \/ BodyError \/ UpstreamTimeout
    \/ ClientCloses \/ WriteTimeout \/ WriteReady
    \/ NextRequest

Spec == Init /\ [][Next]_vars

-----------------------------------------------------------------------------

Freed == s.end \in {"closed", "keepalive"}

(* r->main->count is one for the main request and one for a subrequest     *)
(* that has not ended: no path through finalization, termination or a      *)
(* failed connect leaks a reference or drops one too many.                 *)
CountExact ==
    Open(s) => s.count = 1 + (IF s.handler["sub"] # "none" /\ ~s.done["sub"]
                              THEN 1 ELSE 0)

(* The alerts of the core ("count is zero", "already closed", "header      *)
(* already sent", "finalize non-active request", "logged again") are never *)
(* logged, whatever order the client, the filter and the timers act in.    *)
NoAlert == s.alerts = {}

(* When hlsm3u8_pr_post_handler is about to run, the subrequest is over,   *)
(* its upstream is closed, the parent receives the client's events again   *)
(* and has sent nothing; it is about to run only if it is posted.          *)
WokenWhenDone ==
    Open(s) /\ s.handler["main"] = "pr_post" =>
        /\ s.done["sub"] /\ ~s.cleanup /\ s.up = "closed"
        /\ s.data = "main" /\ ~s.postponed /\ ~s.header_sent
        /\ s.posted = <<"main">>

(* A request is freed only when its upstream is closed and neither a timer *)
(* nor a posted entry still points to it.                                  *)
NothingDangles ==
    Freed => /\ ~s.cleanup /\ s.up \in {"none", "closed"}
             /\ ~s.timer /\ s.posted = <<>>

(* The client's status is the filter's: a playlist is sent only for a 200  *)
(* of the filter and is the filter's own unless the answer was cut short,  *)
(* and when the filter was asked an error status sent is the one it gave.  *)
PassedOn ==
    /\ s.reply = 200 =>
          /\ s.status["sub"] = 200
          /\ s.shown = s.json \/ (s.shown = "stale" /\ s.buf = "part")
    /\ s.reply > 200 /\ s.done["sub"] => s.reply = s.status["sub"]

(* A response is left incomplete only for a client that is gone or whose   *)
(* write timer has expired.                                                *)
CutHasCause == Freed /\ s.body = "cut" => s.error \/ s.timedout

(* A request ends without any response only if the connection failed, the  *)
(* upstream failed before its header was complete or memory ran out.       *)
SilentHasCause ==
    Freed /\ s.reply = 0 =>
        \/ s.error
        \/ s.shown = "nomem"
        \/ (s.rc \in {502, 504} /\ s.status["sub"] = 0)

(* What a time-shift request keeps through its subrequest, its upstream,    *)
(* the timers and a client that leaves (hlsm3u8_handler and its callbacks). *)
HlsSound ==
    /\ CountExact /\ NoAlert /\ WokenWhenDone /\ NothingDangles
    /\ PassedOn /\ CutHasCause /\ SilentHasCause

(* Every request comes to an end, whatever the client and the filter do or *)
(* fail to do: some timer is armed in every state nginx waits in.          *)
EachEnds == Open(s) ~> ~Open(s)

Exchange == INSTANCE HttpExchange WITH
    Codes <- {200, 404} \cup Refusals,
    reply <- s.reply, body <- s.body, open <- Open(s)

(* The handlers implement a one-response exchange.                         *)
OneResponse == Exchange!Spec

-----------------------------------------------------------------------------

(* "assert(0)" in the default case of the switch on play_mode: the author  *)
(* takes it that a 200 of the filter always carries a known play mode.     *)
AssertionHolds == s.end # "assertion"

=============================================================================
