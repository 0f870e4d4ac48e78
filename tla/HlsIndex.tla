------------------------------ MODULE HlsIndex ------------------------------
(***************************************************************************)
(* A request for a _index.m3u8 in the nginx worker.  Like the hlsm3u8      *)
(* module the content handler asks a backend through an in-memory          *)
(* subrequest, but here the subrequest's callback itself answers on the    *)
(* parent, which is not yet the active request of the connection: the      *)
(* header goes to the write filter, the body waits in r->postponed behind  *)
(* the subrequest until ngx_http_writer runs for the parent.               *)
(*                                                                         *)
(* The events of the upstream and of the client are those of HlsM3u8.  No  *)
(* configuration of the repository has a location /query: "static" is what *)
(* conf/nginx.conf gives (location /), "proxied" what the callback needs.  *)
(***************************************************************************)
EXTENDS HlsM3u8

VARIABLE backend    \* what serves /query

ivars == <<s, backend>>

(* The backend's status and JSON: "text" and "empty" have a string under   *)
(* First_m3u8_tx, "nokey" has not.                                         *)
IndexAnswers == {200, 404} \X {"text", "empty", "nokey"}

IndexRefusals == {405, 500}

-----------------------------------------------------------------------------
(* hlsm3u8_index_subrequest_callback once the text is known.  The output   *)
(* filter puts the body behind the subrequest, since that is c->data; a    *)
(* HEAD request ends with the header, which is flushed at once.            *)
AnswerParentDropped(c, parsed, sending) ==
    LET k == [c EXCEPT !.status["main"] = 200, !.json = parsed]
    IN  IF k.header_only THEN FinalizeSub(Send(k, 200, parsed, sending))
        ELSE FinalizeSub([k EXCEPT !.header_sent = TRUE])

AnswerParent(c, parsed, sending) ==
    LET k == [c EXCEPT !.status["main"] = 200, !.json = parsed]
    IN  IF k.header_only THEN FinalizeSub(Send(k, 200, parsed, sending))
        ELSE IF k.header_sent
             THEN Terminate([Alert(k, "header already sent") EXCEPT !.error = TRUE])
        ELSE FinalizeSub([k EXCEPT !.header_sent = TRUE, !.late = TRUE])

Callback(c, parsed, sending) ==
    IF backend = "static" THEN Crash(c, "null pointer")
    ELSE IF c.buf = "null" THEN Terminate(c)
    ELSE IF parsed \in {"garbage", "nokey"} THEN Crash(c, "null pointer")
    ELSE IF parsed = "stale" THEN AnswerParent(c, "text", sending)
    ELSE AnswerParent(c, parsed, sending)

(* ngx_http_upstream_finalize_request, with every way the callback can go. *)
SubrequestEnds(c, rc) ==
    IF ~c.cleanup THEN {FinalizeConnection(c)}
    ELSE LET e == [c EXCEPT !.cleanup = FALSE, !.up = "closed", !.rc = rc, !.ctx = c.buf]
         IN  {Callback(e, parsed, sending) : parsed \in Parsed(e), sending \in Sendings}

IndexWriter(c, sending) ==
    IF c.late /\ ~c.timedout
    THEN LET f == [c EXCEPT !.late = FALSE, !.postponed = FALSE]
         IN  IF c.json = "empty" THEN FinalizeMain(f, TRUE)
             ELSE Writer([f EXCEPT !.reply = 200, !.shown = c.json], sending)
    ELSE IF c.buffered \/ c.timedout THEN Writer(c, sending)
    ELSE FinalizeMain([c EXCEPT !.handler["main"] = "empty"], FALSE)

-----------------------------------------------------------------------------
Same == UNCHANGED backend

(* ngx_http_hlsm3u8_index_module_handler refuses: not GET or HEAD, or no   *)
(* memory.  ngx_http_subrequest fails: NGX_ERROR.                          *)
IndexRefuse ==
    /\ Open(s) /\ s.handler["main"] = "phases"
    /\ \/ \E code \in IndexRefusals, sending \in Sendings :
              s' = FinalizeSpecial(s, code, sending)
       \/ s' = FinalizeMain(NoMemory(s), TRUE)
    /\ Same

IndexAsk == Ask /\ Same

(* The subrequest runs: the proxy takes a reference and connects; the      *)
(* static handler finds no such file and finalizes at once.                *)
IndexRunSub ==
    /\ Posted("sub", "phases")
    /\ LET u == [Taken EXCEPT !.count = @ + 1, !.cleanup = TRUE, !.up = "connect",
                              !.handler["sub"] = "check"]
       IN  \/ backend = "proxied" /\ s' = FinalizeConnection(u)
           \/ /\ backend = "proxied"
              /\ \E e \in SubrequestEnds(u, 502) :
                    s' = IF Open(e) THEN FinalizeConnection(e) ELSE e
           \/ /\ backend = "static"
              /\ s' = Callback(Taken, "nokey", "all")
    /\ Same

IndexRunWriter ==
    /\ Posted("main", "writer")
    /\ \E sending \in Sendings : s' = IndexWriter(Taken, sending)
    /\ Same

IndexRunTerminate == RunTerminate /\ Same

(* The upstream's events, see HlsM3u8.                                     *)
IndexReadHeader ==
    \/ ReadBlank /\ Same
    \/ /\ Upstream({"connect", "header"})
       /\ \E a \in IndexAnswers :
             s' = [s EXCEPT !.up = "body", !.buf = "part",
                            !.status["sub"] = a[1], !.json = a[2]]
       /\ Same

IndexReadBody ==
    /\ Upstream({"body"})
    /\ s' \in SubrequestEnds([s EXCEPT !.buf = "full"], 0)
    /\ Same

IndexUpstreamFails ==
    /\ Upstream({"connect", "header", "body"})
    /\ \E rc \in {0, 500, 502, 504} :
          /\ rc \in {0, 500} <=> (s.up = "body" /\ rc # 504)
          /\ s' \in SubrequestEnds(s, rc)
    /\ Same

IndexClientCloses ==
    /\ Waiting
    /\ LET e == [s EXCEPT !.error = TRUE]
       IN  s' \in IF s.data = "sub" THEN SubrequestEnds(e, 499)
                  ELSE {FinalizeMain(e, TRUE)}
    /\ Same

IndexWriteTimeout ==
    /\ Waiting /\ s.timer
    /\ LET e == [s EXCEPT !.timer = FALSE, !.timedout = TRUE]
       IN  s' = IF s.data = "sub" THEN e ELSE IndexWriter(e, "part")
    /\ Same

IndexWriteReady == WriteReady /\ Same

IndexNextRequest == NextRequest /\ Same

-----------------------------------------------------------------------------
IndexInit == Init /\ backend \in {"static", "proxied"}

IndexNext ==
    \/ IndexRefuse \/ IndexAsk
    \/ IndexRunSub \/ IndexRunWriter \/ IndexRunTerminate
    \/ IndexReadHeader \/ IndexReadBody \/ IndexUpstreamFails
    \/ IndexClientCloses \/ IndexWriteTimeout \/ IndexWriteReady
    \/ IndexNextRequest

IndexSpec == IndexInit /\ [][IndexNext]_ivars

-----------------------------------------------------------------------------
(* The body that waits behind the subrequest is never forgotten: while it  *)
(* waits the subrequest is over, the parent is posted to write it, and the *)
(* request is not freed with it unless the client or the write timer is to *)
(* blame.                                                                  *)
LateIsWritten ==
    /\ Open(s) /\ s.late => \/ s.posted = <<"main">> /\ s.postponed
                            \/ s.handler["main"] = "terminate"
    /\ Freed /\ s.header_sent /\ s.reply = 0
           => s.error \/ s.timedout \/ s.json = "empty"

(* The callback's nested calls keep r->main->count exact and log no alert, *)
(* although they answer on a request that is not the active one.           *)
IndexCounts == CountExact /\ NoAlert /\ NothingDangles

(* The client of an index request sees one response at most.               *)
IndexOneResponse == Exchange!Spec

(* Every index request ends, or the worker has crashed.                    *)
IndexEnds == Open(s) ~> ~Open(s)

=============================================================================
