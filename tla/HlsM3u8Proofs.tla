--------------------------- MODULE HlsM3u8Proofs ----------------------------
(***************************************************************************)
(* A time-shift request in the nginx worker keeps its reference count      *)
(* exact, is freed with nothing that still points to it, and is answered   *)
(* at most once: the handler implements HttpExchange.                      *)
(***************************************************************************)
EXTENDS HlsM3u8, TLAPS

Fields == {"data", "error", "buffered", "timer", "timedout", "posted", "count", "handler",
           "status", "done", "postponed", "late", "header_sent", "keepalive", "header_only",
           "cleanup", "up", "buf", "json", "ctx", "reply", "body", "shown", "rc", "alerts", "end"}

Two == {"main", "sub"}

(* The shape of a request: a record, three of whose fields have a value    *)
(* for the main request and one for the subrequest.                        *)
Req(c) ==
    /\ DOMAIN c = Fields
    /\ DOMAIN c.handler = Two /\ DOMAIN c.status = Two /\ DOMAIN c.done = Two

(* The response is the filter's, see PassedOn.                             *)
Passed(c) ==
    /\ c.reply = 200 =>
          /\ c.status["sub"] = 200
          /\ c.shown = c.json \/ (c.shown = "stale" /\ c.buf = "part")
    /\ c.reply > 200 /\ c.done["sub"] => c.reply = c.status["sub"]

Codes == {200, 404} \cup Refusals

(* What holds of an open request from its creation to its end.             *)
Sound(c) ==
    /\ Req(c) /\ c.end = "open" /\ c.alerts = {} /\ ~c.late
    /\ c.status["sub"] \in {0, 200, 403, 404}
    /\ c.status["sub"] # 0 => c.buf \in {"part", "full"}
    /\ c.status["sub"] = 200 => c.json \in Playlists \cup {"null"}
    /\ \/ c.reply = 0 /\ c.body = "none"
       \/ c.reply \in Codes /\ c.body \in {"cut", "whole"}
    /\ Passed(c)

(* The stages of a request: to be handled; waiting for the subrequest to   *)
(* start and then for its upstream; woken by its end; sending the rest of  *)
(* the response; left to the terminate handler; freed or crashed.          *)
Unsent(c) == ~c.header_sent /\ c.reply = 0 /\ ~c.buffered /\ ~c.error

Fresh(c) ==
    /\ Sound(c) /\ Unsent(c) /\ c.handler["main"] = "phases" /\ c.handler["sub"] = "none"
    /\ c.data = "main" /\ c.posted = <<>> /\ c.count = 1 /\ ~c.cleanup /\ ~c.postponed
    /\ ~c.done["sub"] /\ c.up = "none" /\ c.status["sub"] = 0 /\ c.buf = "null"

Asking(c, n) ==
    /\ Sound(c) /\ Unsent(c) /\ c.handler["main"] = "writer"
    /\ c.data = "sub" /\ c.count = n /\ c.postponed /\ ~c.done["sub"]
    /\ (c.status["sub"] = 0) <=> (c.up # "body")

Asked(c) ==
    /\ Asking(c, 2) /\ c.handler["sub"] = "phases" /\ c.posted = <<"sub">>
    /\ ~c.cleanup /\ c.up = "none"

Fetching(c) ==
    /\ Asking(c, 2) /\ c.handler["sub"] = "check" /\ c.posted = <<>>
    /\ c.cleanup /\ c.up \in {"connect", "header", "body"}

(* Nothing but the main request is left, and n references to it.           *)
Only(c, n) ==
    /\ Sound(c) /\ c.data = "main" /\ ~c.cleanup /\ c.up \in {"none", "closed"} /\ ~c.postponed
    /\ c.count = n /\ (c.handler["sub"] = "none" \/ c.done["sub"])

Alone(c) == Only(c, 1)

Awake(c, n) ==
    /\ Only(c, n) /\ Unsent(c) /\ c.handler["main"] = "pr_post" /\ c.posted = <<"main">>
    /\ c.done["sub"] /\ c.up = "closed"
    /\ c.ctx = c.buf /\ c.status["main"] = c.status["sub"]
    /\ c.status["sub"] = 0 => c.rc \in {502, 504}

Woken(c) == Awake(c, 1)

Writing(c) ==
    /\ Alone(c) /\ c.handler["main"] = "writer" /\ c.posted = <<>>
    /\ c.header_sent /\ c.body = "cut" /\ ~c.error

(* Why a response may be cut short or missing.                             *)
Cause(c) ==
    /\ c.body = "cut" => c.error \/ c.timedout
    /\ c.reply = 0 => \/ c.error
                      \/ c.shown = "nomem"
                      \/ (c.rc \in {502, 504} /\ c.status["sub"] = 0)

Ending(c) ==
    /\ Sound(c) /\ Cause(c) /\ c.handler["main"] = "terminate" /\ c.posted = <<"main">>
    /\ ~c.cleanup /\ c.up \in {"none", "closed"}
    /\ c.count = 1 + (IF c.handler["sub"] # "none" /\ ~c.done["sub"] THEN 1 ELSE 0)

Gone(c) ==
    /\ Req(c) /\ Passed(c) /\ c.alerts = {}
    /\ c.end \in {"closed", "keepalive", "null pointer", "assertion"}
    /\ c.end \in {"closed", "keepalive"} =>
          ~c.timer /\ c.posted = <<>> /\ ~c.cleanup /\ c.up \in {"none", "closed"} /\ Cause(c)

Stages(c) ==
    \/ Fresh(c) \/ Asked(c) \/ Fetching(c) \/ Woken(c) \/ Writing(c) \/ Ending(c) \/ Gone(c)

Inv == Stages(s)

(* What the client may see of a step from c to d.                          *)
Same(c, d) == d.reply = c.reply /\ d.body = c.body

Seen(c, d) ==
    \/ Same(c, d)
    \/ /\ c.reply = 0 /\ d.reply \in Codes /\ d.body \in {"cut", "whole"}
       /\ d.body = "cut" => Open(d)
    \/ c.body = "cut" /\ d.body = "whole" /\ d.reply = c.reply

Step(c, d) == Stages(d) /\ Seen(c, d)

-----------------------------------------------------------------------------
LEMMA UnsentPassed ==
    ASSUME NEW c, c.reply = 0
    PROVE  Passed(c)
  BY DEF Passed

(* Freed: nothing the client sees changes.                                 *)
LEMMA Frees ==
    ASSUME NEW c, Req(c), Passed(c), Cause(c), c.end = "open", c.alerts = {}, ~c.cleanup,
           c.posted = <<>>, c.up \in {"none", "closed"}, NEW e \in {"closed", "keepalive"}
    PROVE  Gone(FreeRequest(c, e)) /\ Same(c, FreeRequest(c, e))
  <1> DEFINE f == [c EXCEPT !.end = e, !.timer = FALSE, !.cleanup = FALSE]
  <1>1. FreeRequest(c, e) = f
    BY DEF FreeRequest, Open
  <1>2. Req(f)
    BY DEF Req, Fields, Two
  <1>3. /\ f.end = e /\ ~f.timer /\ ~f.cleanup /\ f.posted = c.posted /\ f.up = c.up
        /\ f.alerts = c.alerts /\ f.reply = c.reply /\ f.body = c.body /\ f.error = c.error
        /\ f.timedout = c.timedout /\ f.status = c.status /\ f.shown = c.shown /\ f.json = c.json
        /\ f.buf = c.buf /\ f.rc = c.rc /\ f.done = c.done
    BY DEF Req, Fields, Two
  <1> HIDE DEF f
  <1>4. Passed(f) /\ Cause(f)
    BY <1>3 DEF Passed, Cause
  <1> QED
    BY <1>1, <1>2, <1>3, <1>4 DEF Gone, Same

LEMMA Closes ==
    ASSUME NEW c, Req(c), Passed(c), Cause(c), c.end = "open", c.alerts = {}, ~c.cleanup,
           c.posted = <<>>, c.up \in {"none", "closed"}, c.count = 1
    PROVE  /\ Gone(CloseRequest(c)) /\ Same(c, CloseRequest(c))
           /\ Gone(FinalizeConnection(c)) /\ Same(c, FinalizeConnection(c))
  <1> DEFINE d == [c EXCEPT !.count = @ - 1]
  <1>1. /\ Req(d) /\ d.end = "open" /\ d.alerts = {} /\ ~d.cleanup /\ d.posted = <<>>
        /\ d.up \in {"none", "closed"} /\ d.count = 0 /\ d.reply = c.reply /\ d.body = c.body
        /\ d.error = c.error /\ d.timedout = c.timedout /\ d.status = c.status
        /\ d.shown = c.shown /\ d.json = c.json /\ d.buf = c.buf /\ d.rc = c.rc /\ d.done = c.done
    BY DEF Req, Fields, Two
  <1>2. CloseRequest(c) = FreeRequest(d, "closed")
    BY <1>1 DEF CloseRequest
  <1>3. FinalizeConnection(c) = IF c.keepalive THEN FreeRequest(c, "keepalive") ELSE CloseRequest(c)
    BY DEF FinalizeConnection
  <1> HIDE DEF d
  <1>4. Passed(d) /\ Cause(d)
    BY <1>1 DEF Passed, Cause
  <1>5. Gone(CloseRequest(c)) /\ Same(c, CloseRequest(c))
    BY <1>1, <1>2, <1>4, Frees DEF Same
  <1>6. Gone(FreeRequest(c, "keepalive")) /\ Same(c, FreeRequest(c, "keepalive"))
    BY Frees
  <1> QED
    BY <1>3, <1>5, <1>6

(* Left to the terminate handler.                                          *)
LEMMA Terminates ==
    ASSUME NEW c, Sound(c), Cause(c), ~c.cleanup, c.up \in {"none", "closed"},
           c.count = 1 + (IF c.handler["sub"] # "none" /\ ~c.done["sub"] THEN 1 ELSE 0)
    PROVE  Ending(Terminate(c)) /\ Same(c, Terminate(c))
  <1> DEFINE f == [c EXCEPT !.posted = <<"main">>, !.handler["main"] = "terminate"]
  <1>1. Terminate(c) = f
    BY DEF Terminate
  <1>2. Req(c)
    BY DEF Sound
  <1>3. Req(f)
    BY <1>2 DEF Req, Fields, Two
  <1>4. /\ f.posted = <<"main">> /\ f.handler["main"] = "terminate"
        /\ f.handler["sub"] = c.handler["sub"] /\ f.end = c.end /\ f.alerts = c.alerts
        /\ f.late = c.late /\ f.status = c.status /\ f.reply = c.reply /\ f.body = c.body
        /\ f.cleanup = c.cleanup /\ f.up = c.up /\ f.count = c.count /\ f.done = c.done
        /\ f.error = c.error /\ f.timedout = c.timedout /\ f.buf = c.buf /\ f.rc = c.rc
        /\ f.shown = c.shown /\ f.json = c.json
    BY <1>2 DEF Req, Fields, Two
  <1> HIDE DEF f
  <1>5. Sound(f) /\ Cause(f)
    BY <1>3, <1>4 DEF Sound, Passed, Cause
  <1> QED
    BY <1>1, <1>4, <1>5 DEF Ending, Same

(* A request that has sent nothing ends without a response.                *)
Ready(c) == Alone(c) /\ Unsent(c) /\ c.posted = <<>>

LEMMA EndsSilent ==
    ASSUME NEW c, Ready(c), Cause(c)
    PROVE  Step(c, FinalizeMain(c, TRUE)) /\ Step(c, FinalizeMain(c, FALSE))
  <1>1. /\ Req(c) /\ Sound(c) /\ Passed(c) /\ c.end = "open" /\ c.alerts = {} /\ ~c.cleanup
        /\ c.posted = <<>> /\ c.up \in {"none", "closed"} /\ c.count = 1 /\ c.data = "main"
        /\ ~c.postponed /\ ~c.error /\ ~c.buffered
        /\ c.count = 1 + (IF c.handler["sub"] # "none" /\ ~c.done["sub"] THEN 1 ELSE 0)
    BY DEF Ready, Alone, Only, Unsent, Sound
  <1>2. FinalizeMain(c, TRUE) = Terminate(c)
    BY DEF FinalizeMain
  <1>3. Step(c, FinalizeMain(c, TRUE))
    BY <1>1, <1>2, Terminates DEF Step, Stages, Seen
  <1> DEFINE d == [c EXCEPT !.done["main"] = TRUE, !.handler["main"] = "empty", !.timer = FALSE]
  <1>4. FinalizeMain(c, FALSE) = FinalizeConnection(d)
    BY <1>1 DEF FinalizeMain
  <1>5. /\ Req(d) /\ d.end = "open" /\ d.alerts = {} /\ ~d.cleanup /\ d.posted = <<>>
        /\ d.up \in {"none", "closed"} /\ d.count = 1 /\ d.reply = c.reply /\ d.body = c.body
        /\ d.error = c.error /\ d.timedout = c.timedout /\ d.status = c.status
        /\ d.shown = c.shown /\ d.json = c.json /\ d.buf = c.buf /\ d.rc = c.rc
        /\ d.done["sub"] = c.done["sub"]
    BY <1>1 DEF Req, Fields, Two
  <1> HIDE DEF d
  <1>6. Passed(d) /\ Cause(d)
    BY <1>1, <1>5 DEF Passed, Cause
  <1>7. Step(c, FinalizeMain(c, FALSE))
    BY <1>4, <1>5, <1>6, Closes DEF Step, Stages, Seen, Same
  <1> QED
    BY <1>3, <1>7

(* A request that has sent nothing is answered.                            *)
LEMMA Answered ==
    ASSUME NEW c, Ready(c), NEW code \in Nat, code \in Codes, code # 0, NEW content,
           NEW sending \in Sendings,
           code = 200 => /\ c.status["sub"] = 200
                         /\ content = c.json \/ (content = "stale" /\ c.buf = "part"),
           code > 200 /\ c.done["sub"] => code = c.status["sub"]
    PROVE  Step(c, FinalizeMain(Send(c, code, content, sending), FALSE))
  <1>1. /\ Req(c) /\ c.end = "open" /\ c.alerts = {} /\ ~c.cleanup /\ ~c.late
        /\ c.posted = <<>> /\ c.up \in {"none", "closed"} /\ c.count = 1 /\ c.data = "main"
        /\ ~c.postponed /\ ~c.error /\ ~c.header_sent /\ c.reply = 0
        /\ c.handler["sub"] = "none" \/ c.done["sub"]
        /\ c.status["sub"] \in {0, 200, 403, 404}
        /\ c.status["sub"] # 0 => c.buf \in {"part", "full"}
        /\ c.status["sub"] = 200 => c.json \in Playlists \cup {"null"}
    BY DEF Ready, Alone, Only, Unsent, Sound
  <1> DEFINE d == [c EXCEPT !.header_sent = TRUE, !.reply = code, !.shown = content]
             f == [d EXCEPT !.buffered = (sending = "part"),
                            !.error = @ \/ (sending = "fail"),
                            !.body = IF sending = "all" THEN "whole" ELSE "cut"]
  <1>2. Send(c, code, content, sending) = f
    BY <1>1 DEF Send, Output
  <1>3. /\ Req(d) /\ d.header_sent /\ d.reply = code /\ d.shown = content /\ d.error = c.error
        /\ d.end = c.end /\ d.alerts = c.alerts /\ d.cleanup = c.cleanup /\ d.late = c.late
        /\ d.posted = c.posted /\ d.up = c.up /\ d.count = c.count /\ d.data = c.data
        /\ d.postponed = c.postponed /\ d.handler = c.handler /\ d.done = c.done
        /\ d.status = c.status /\ d.buf = c.buf /\ d.json = c.json
    BY <1>1 DEF Req, Fields, Two
  <1> HIDE DEF d
  <1>4. /\ Req(f) /\ f.header_sent = d.header_sent /\ f.reply = d.reply /\ f.shown = d.shown
        /\ f.end = d.end /\ f.alerts = d.alerts /\ f.cleanup = d.cleanup /\ f.late = d.late
        /\ f.posted = d.posted /\ f.up = d.up /\ f.count = d.count /\ f.data = d.data
        /\ f.postponed = d.postponed /\ f.handler = d.handler /\ f.done = d.done
        /\ f.status = d.status /\ f.buf = d.buf /\ f.json = d.json
    BY <1>3 DEF Req, Fields, Two
  <1>5. /\ f.buffered <=> (sending = "part")
        /\ f.error <=> (sending = "fail")
        /\ f.body = IF sending = "all" THEN "whole" ELSE "cut"
    <2>1. f.buffered = (sending = "part") /\ f.error = (d.error \/ sending = "fail")
      BY <1>3 DEF Req, Fields
    <2>2. f.body = IF sending = "all" THEN "whole" ELSE "cut"
      BY <1>3 DEF Req, Fields
    <2>3. ~d.error
      BY <1>1, <1>3
    <2> QED
      BY Zenon, <2>1, <2>2, <2>3
  <1> HIDE DEF f
  <1>6. Passed(f)
    BY <1>3, <1>4 DEF Passed
  <1>7. Sound(f)
    BY <1>1, <1>3, <1>4, <1>5, <1>6 DEF Sound
  <1>8. f.reply = code /\ f.body \in {"cut", "whole"} /\ (f.body = "cut" <=> sending # "all")
    BY <1>3, <1>4, <1>5
  <1>9. ASSUME NEW g, Stages(g), g.reply = f.reply, g.body = f.body, f.body = "cut" => Open(g)
        PROVE  Step(c, g)
    BY <1>1, <1>8, <1>9 DEF Step, Seen
  <1>10. CASE sending = "fail"
    <2>1. FinalizeMain(f, FALSE) = Terminate(f)
      BY <1>5, <1>10 DEF FinalizeMain
    <2>2. Cause(f)
      BY <1>5, <1>10 DEF Cause
    <2>3. Ending(Terminate(f)) /\ Same(f, Terminate(f))
      BY <1>1, <1>3, <1>4, <1>7, <2>2, Terminates
    <2>4. Open(Terminate(f))
      BY <2>3 DEF Ending, Sound, Open
    <2> QED
      BY <1>2, <1>9, <2>1, <2>3, <2>4 DEF Stages, Same
  <1>11. CASE sending = "part"
    <2> DEFINE w == [f EXCEPT !.handler["main"] = "writer", !.timer = TRUE]
    <2>1. FinalizeMain(f, FALSE) = w
      BY <1>5, <1>11 DEF FinalizeMain, SetWriteHandler
    <2>2. /\ Req(w) /\ w.handler["main"] = "writer" /\ w.handler["sub"] = f.handler["sub"]
          /\ w.header_sent = f.header_sent /\ w.reply = f.reply /\ w.shown = f.shown
          /\ w.end = f.end /\ w.alerts = f.alerts /\ w.cleanup = f.cleanup /\ w.late = f.late
          /\ w.posted = f.posted /\ w.up = f.up /\ w.count = f.count /\ w.data = f.data
          /\ w.postponed = f.postponed /\ w.done = f.done /\ w.error = f.error
          /\ w.status = f.status /\ w.buf = f.buf /\ w.json = f.json /\ w.body = f.body
      BY <1>4 DEF Req, Fields, Two
    <2> HIDE DEF w
    <2>3. Sound(w)
      BY <1>7, <2>2 DEF Sound, Passed
    <2>4. Writing(w)
      BY <1>1, <1>3, <1>4, <1>5, <1>11, <2>2, <2>3 DEF Writing, Alone, Only
    <2>5. Stages(w)
      BY <2>4 DEF Stages
    <2>6. Open(w)
      BY <2>3 DEF Sound, Open
    <2>7. Step(c, w)
      BY <1>9, <2>2, <2>5, <2>6
    <2> QED
      BY <1>2, <2>1, <2>7
  <1>12. CASE sending = "all"
    <2> DEFINE w == [f EXCEPT !.done["main"] = TRUE, !.handler["main"] = "empty", !.timer = FALSE]
    <2>1. FinalizeMain(f, FALSE) = FinalizeConnection(w)
      BY <1>1, <1>3, <1>4, <1>5, <1>12 DEF FinalizeMain
    <2>2. /\ Req(w) /\ w.done["sub"] = f.done["sub"]
          /\ w.reply = f.reply /\ w.shown = f.shown /\ w.rc = f.rc /\ w.timedout = f.timedout
          /\ w.end = f.end /\ w.alerts = f.alerts /\ w.cleanup = f.cleanup
          /\ w.posted = f.posted /\ w.up = f.up /\ w.count = f.count /\ w.error = f.error
          /\ w.status = f.status /\ w.buf = f.buf /\ w.json = f.json /\ w.body = f.body
      BY <1>4 DEF Req, Fields, Two
    <2> HIDE DEF w
    <2>3. Passed(w) /\ Cause(w)
      BY <1>6, <1>8, <1>12, <2>2 DEF Passed, Cause
    <2>4. Gone(FinalizeConnection(w)) /\ Same(w, FinalizeConnection(w))
      BY <1>1, <1>3, <1>4, <2>2, <2>3, Closes
    <2>5. Stages(FinalizeConnection(w))
      BY <2>4 DEF Stages
    <2>6. /\ FinalizeConnection(w).reply = f.reply /\ FinalizeConnection(w).body = f.body
          /\ f.body # "cut"
      BY <1>8, <1>12, <2>2, <2>4 DEF Same
    <2>7. Step(c, FinalizeConnection(w))
      BY <1>9, <2>5, <2>6
    <2> QED
      BY <1>2, <2>1, <2>7
  <1> QED
    BY <1>10, <1>11, <1>12 DEF Sendings

(* What the above depends on.                                              *)
Alike(c, d) ==
    /\ Req(d) /\ d.end = c.end /\ d.alerts = c.alerts /\ d.late = c.late /\ d.error = c.error
    /\ d.status["sub"] = c.status["sub"] /\ d.done["sub"] = c.done["sub"]
    /\ d.handler["sub"] = c.handler["sub"] /\ d.buf = c.buf /\ d.json = c.json
    /\ d.reply = c.reply /\ d.body = c.body /\ d.data = c.data /\ d.cleanup = c.cleanup
    /\ d.up = c.up /\ d.postponed = c.postponed /\ d.count = c.count
    /\ d.header_sent = c.header_sent /\ d.buffered = c.buffered /\ d.posted = c.posted

LEMMA AlikeReady ==
    ASSUME NEW c, NEW d, Ready(c), Alike(c, d)
    PROVE  Ready(d)
  BY DEF Alike, Ready, Alone, Only, Unsent, Sound, Passed

LEMMA AlikeStep ==
    ASSUME NEW c, NEW d, NEW e, Alike(c, d), Step(d, e)
    PROVE  Step(c, e)
  BY DEF Alike, Step, Seen, Same

LEMMA AnsweredSpecial ==
    ASSUME NEW c, Ready(c), NEW code \in Nat, code \in Codes, code > 200,
           NEW sending \in Sendings, c.done["sub"] => code = c.status["sub"]
    PROVE  Step(c, FinalizeSpecial(c, code, sending))
  <1>1. Req(c) /\ ~c.error
    BY DEF Ready, Alone, Only, Sound, Unsent
  <1> DEFINE d == [c EXCEPT !.timer = FALSE, !.status["main"] = code,
                            !.keepalive = @ /\ code # 500]
  <1>2. FinalizeSpecial(c, code, sending) = FinalizeMain(Send(d, code, "page", sending), FALSE)
    BY <1>1 DEF FinalizeSpecial
  <1>3. Alike(c, d)
    BY <1>1 DEF Alike, Req, Fields, Two
  <1> HIDE DEF d
  <1>4. Ready(d)
    BY <1>3, AlikeReady
  <1>5. d.done["sub"] => code = d.status["sub"]
    BY <1>3 DEF Alike
  <1>6. Step(d, FinalizeMain(Send(d, code, "page", sending), FALSE))
    <2>1. code # 0 /\ code # 200
      OBVIOUS
    <2> QED
      BY <1>4, <1>5, <2>1, Answered
  <1> QED
    BY <1>2, <1>3, <1>6, AlikeStep

LEMMA EndsNoMemory ==
    ASSUME NEW c, Ready(c)
    PROVE  Step(c, FinalizeMain(NoMemory(c), TRUE)) /\ Step(c, FinalizeMain(NoMemory(c), FALSE))
  <1>1. Req(c) /\ c.reply = 0 /\ c.body # "cut"
    BY DEF Ready, Alone, Only, Sound, Unsent, Codes, Refusals
  <1> DEFINE d == NoMemory(c)
  <1>2. Alike(c, d) /\ d.shown = "nomem"
    BY <1>1 DEF NoMemory, Alike, Req, Fields, Two
  <1> HIDE DEF d
  <1>3. Cause(d)
    BY <1>1, <1>2 DEF Cause, Alike
  <1>4. Step(d, FinalizeMain(d, TRUE)) /\ Step(d, FinalizeMain(d, FALSE))
    BY <1>2, <1>3, AlikeReady, EndsSilent
  <1>5. Step(c, FinalizeMain(d, TRUE)) /\ Step(c, FinalizeMain(d, FALSE))
    BY <1>2, <1>4, AlikeStep
  <1> QED
    BY <1>5 DEF d

-----------------------------------------------------------------------------
(* The end of the subrequest's upstream wakes the parent.                  *)
Failed(c, rc) == c.status["sub"] = 0 => rc \in {502, 504}

LEMMA Wakes ==
    ASSUME NEW c, NEW n \in Nat, NEW k, k = n + 1, Asking(c, k), c.cleanup, c.posted = <<>>,
           c.handler["sub"] # "none", NEW rc, Failed(c, rc)
    PROVE  Awake(UpstreamFinalize(c, rc), n) /\ Same(c, UpstreamFinalize(c, rc))
  <1>1. /\ Req(c) /\ Sound(c) /\ Unsent(c) /\ c.data = "sub" /\ c.count = n + 1 /\ ~c.done["sub"]
        /\ ~c.late /\ ~c.error /\ c.reply = 0
    BY DEF Asking, Sound, Unsent
  <1> DEFINE u == [c EXCEPT !.cleanup = FALSE, !.up = "closed", !.rc = rc]
             p == [u EXCEPT !.status["main"] = u.status["sub"], !.ctx = u.buf,
                            !.handler["main"] = "pr_post"]
             e == [p EXCEPT !.count = @ - 1, !.done["sub"] = TRUE,
                            !.postponed = p.late, !.data = "main"]
             f == [e EXCEPT !.posted = Append(@, "main")]
  <1>2. /\ Req(u) /\ ~u.cleanup /\ u.up = "closed" /\ u.rc = rc /\ u.end = c.end
        /\ u.alerts = c.alerts /\ u.late = c.late /\ u.json = c.json /\ u.error = c.error /\ u.status = c.status
        /\ u.done = c.done /\ u.handler = c.handler /\ u.buf = c.buf /\ u.reply = c.reply
        /\ u.body = c.body /\ u.data = c.data /\ u.count = c.count /\ u.posted = c.posted
        /\ u.header_sent = c.header_sent /\ u.buffered = c.buffered
    BY <1>1 DEF Req, Fields, Two
  <1> HIDE DEF u
  <1>3. /\ Req(p) /\ p.cleanup = u.cleanup /\ p.up = u.up /\ p.rc = u.rc /\ p.end = u.end
        /\ p.alerts = u.alerts /\ p.late = u.late /\ p.json = u.json /\ p.error = u.error
        /\ p.status["sub"] = u.status["sub"] /\ p.status["main"] = u.status["sub"]
        /\ p.done = u.done /\ p.handler["main"] = "pr_post" /\ p.ctx = u.buf
        /\ p.buf = u.buf /\ p.reply = u.reply
        /\ p.body = u.body /\ p.data = u.data /\ p.count = u.count /\ p.posted = u.posted
        /\ p.header_sent = u.header_sent /\ p.buffered = u.buffered
    BY <1>2 DEF Req, Fields, Two
  <1>4. p = SubrequestPost(u)
    BY DEF SubrequestPost
  <1> HIDE DEF p
  <1>5. /\ Req(e) /\ e.cleanup = p.cleanup /\ e.up = p.up /\ e.rc = p.rc /\ e.end = p.end
        /\ e.alerts = p.alerts /\ e.late = p.late /\ e.json = p.json /\ e.error = p.error /\ e.status = p.status
        /\ e.done["sub"] /\ e.handler = p.handler /\ e.ctx = p.ctx
        /\ e.buf = p.buf /\ e.reply = p.reply /\ e.postponed = p.late
        /\ e.body = p.body /\ e.data = "main" /\ e.count = n /\ e.posted = p.posted
        /\ e.header_sent = p.header_sent /\ e.buffered = p.buffered
    BY <1>1, <1>2, <1>3 DEF Req, Fields, Two
  <1>6. UpstreamFinalize(c, rc) = FinalizeSub(p)
    BY <1>4 DEF UpstreamFinalize, u
  <1>7. FinalizeSub(p) = f
    <2>1. ~p.error /\ p.data = "sub" /\ ~p.done["sub"]
      BY <1>1, <1>2, <1>3
    <2> QED
      BY <2>1 DEF FinalizeSub, PostRequest
  <1> HIDE DEF e
  <1>8. /\ Req(f) /\ f.cleanup = e.cleanup /\ f.up = e.up /\ f.rc = e.rc /\ f.end = e.end
        /\ f.alerts = e.alerts /\ f.late = e.late /\ f.json = e.json /\ f.error = e.error /\ f.status = e.status
        /\ f.done = e.done /\ f.handler = e.handler /\ f.ctx = e.ctx
        /\ f.buf = e.buf /\ f.reply = e.reply /\ f.postponed = e.postponed
        /\ f.body = e.body /\ f.data = e.data /\ f.count = e.count
        /\ f.posted = Append(e.posted, "main")
        /\ f.header_sent = e.header_sent /\ f.buffered = e.buffered
    BY <1>5 DEF Req, Fields, Two
  <1>9. Append(<<>>, "main") = <<"main">>
    OBVIOUS
  <1> HIDE DEF f
  <1>10. f.posted = <<"main">> /\ f.reply = 0 /\ f.body = c.body
    BY <1>1, <1>2, <1>3, <1>5, <1>8, <1>9
  <1>11. Sound(f)
    BY <1>1, <1>2, <1>3, <1>5, <1>8, <1>10 DEF Sound, Passed
  <1>12. Unsent(f)
    BY <1>1, <1>2, <1>3, <1>5, <1>8, <1>10 DEF Unsent
  <1>13. Only(f, n)
    BY <1>1, <1>2, <1>3, <1>5, <1>8, <1>11 DEF Only
  <1>14. Awake(f, n)
    BY <1>1, <1>2, <1>3, <1>5, <1>8, <1>10, <1>12, <1>13 DEF Awake, Failed
  <1> QED
    BY <1>1, <1>6, <1>7, <1>10, <1>14 DEF Same

(* The subrequest of a client that has gone ends with the whole request.   *)
LEMMA Abandons ==
    ASSUME NEW c, Fetching(c)
    PROVE  LET e == [c EXCEPT !.error = TRUE]
           IN  Ending(UpstreamFinalize(e, 499)) /\ Same(c, UpstreamFinalize(e, 499))
  <1>1. /\ Req(c) /\ Sound(c) /\ Unsent(c) /\ c.data = "sub" /\ c.count = 2 /\ ~c.done["sub"]
        /\ c.reply = 0 /\ c.cleanup /\ c.handler["sub"] = "check" /\ c.body = "none"
    BY DEF Fetching, Asking, Sound, Unsent, Codes, Refusals
  <1> DEFINE e == [c EXCEPT !.error = TRUE]
             u == [e EXCEPT !.cleanup = FALSE, !.up = "closed", !.rc = 499]
             p == [u EXCEPT !.status["main"] = u.status["sub"], !.ctx = u.buf,
                            !.handler["main"] = "pr_post"]
  <1>2. /\ Req(e) /\ e.error /\ e.cleanup = c.cleanup /\ e.end = c.end
        /\ e.alerts = c.alerts /\ e.late = c.late /\ e.json = c.json /\ e.status = c.status
        /\ e.done = c.done /\ e.handler = c.handler /\ e.buf = c.buf /\ e.reply = c.reply
        /\ e.body = c.body /\ e.count = c.count
    BY <1>1 DEF Req, Fields, Two
  <1> HIDE DEF e
  <1>31. /\ Req(u) /\ u.json = e.json /\ u.error = e.error /\ ~u.cleanup /\ u.up = "closed"
         /\ u.end = e.end /\ u.alerts = e.alerts /\ u.late = e.late
    <2>1. Req(u)
      BY <1>2 DEF Req, Fields, Two
    <2>2. u.json = e.json /\ u.error = e.error /\ u.cleanup = FALSE /\ u.up = "closed"
      BY <1>2 DEF Req, Fields
    <2>3. u.end = e.end /\ u.alerts = e.alerts /\ u.late = e.late
      BY <1>2 DEF Req, Fields
    <2> QED
      BY Zenon, <2>1, <2>2, <2>3
  <1>3. /\ u.status = e.status /\ u.done = e.done /\ u.handler = e.handler /\ u.buf = e.buf
        /\ u.reply = e.reply /\ u.body = e.body /\ u.count = e.count
    BY <1>2 DEF Req, Fields
  <1> HIDE DEF u
  <1>4. /\ Req(p) /\ p.error = u.error /\ ~p.cleanup /\ p.up = "closed" /\ p.end = u.end
        /\ p.alerts = u.alerts /\ p.late = u.late /\ p.json = u.json /\ p.status["sub"] = u.status["sub"]
        /\ p.done = u.done /\ p.handler["sub"] = u.handler["sub"] /\ p.buf = u.buf
        /\ p.reply = u.reply /\ p.body = u.body /\ p.count = u.count
    BY <1>31, <1>3 DEF Req, Fields, Two
  <1>5. p = SubrequestPost(u)
    BY DEF SubrequestPost
  <1> HIDE DEF p
  <1>6. UpstreamFinalize(e, 499) = FinalizeSub(p)
    BY <1>1, <1>2, <1>5 DEF UpstreamFinalize, u
  <1>7. FinalizeSub(p) = Terminate(p)
    BY <1>2, <1>3, <1>31, <1>4 DEF FinalizeSub
  <1>8. Sound(p)
    BY <1>1, <1>2, <1>3, <1>31, <1>4 DEF Sound, Passed
  <1>9. Cause(p)
    BY <1>1, <1>2, <1>3, <1>31, <1>4 DEF Cause
  <1>10. p.count = 1 + (IF p.handler["sub"] # "none" /\ ~p.done["sub"] THEN 1 ELSE 0)
    BY <1>1, <1>2, <1>3, <1>31, <1>4
  <1>11. Ending(Terminate(p)) /\ Same(p, Terminate(p))
    BY <1>4, <1>8, <1>9, <1>10, Terminates
  <1>12. Ending(UpstreamFinalize(e, 499)) /\ Same(c, UpstreamFinalize(e, 499))
    BY <1>1, <1>2, <1>3, <1>31, <1>4, <1>6, <1>7, <1>11 DEF Same
  <1> QED
    BY <1>12 DEF e

-----------------------------------------------------------------------------
(* Which stage a handler finds.                                            *)
LEMMA StageOf ==
    ASSUME Inv
    PROVE  /\ Open(s) /\ s.handler["main"] = "phases" => Fresh(s)
           /\ Posted("sub", "phases") => Asked(s)
           /\ Posted("main", "pr_post") => Woken(s)
           /\ Posted("main", "terminate") => Ending(s)
           /\ Upstream({"connect", "header", "body"}) => Fetching(s)
           /\ Waiting => Fetching(s) \/ Writing(s)
           /\ ~Open(s) => Gone(s)
  <1>1. Head(<<"sub">>) = "sub" /\ Head(<<"main">>) = "main"
    OBVIOUS
  <1>2. Fresh(s) => /\ Open(s) /\ s.handler["main"] = "phases" /\ s.posted = <<>>
    BY DEF Fresh, Sound, Open
  <1>3. Asked(s) => /\ Open(s) /\ s.handler["main"] = "writer" /\ s.posted = <<"sub">>
                    /\ s.handler["sub"] = "phases"
    BY DEF Asked, Asking, Sound, Open
  <1>4. Fetching(s) => /\ Open(s) /\ s.handler["main"] = "writer" /\ s.posted = <<>>
    BY DEF Fetching, Asking, Sound, Open
  <1>5. Woken(s) => /\ Open(s) /\ s.handler["main"] = "pr_post" /\ s.posted = <<"main">>
    BY DEF Woken, Awake, Only, Sound, Open
  <1>6. Writing(s) => /\ Open(s) /\ s.handler["main"] = "writer" /\ s.posted = <<>>
                      /\ s.up \in {"none", "closed"}
    BY DEF Writing, Alone, Only, Sound, Open
  <1>7. Ending(s) => /\ Open(s) /\ s.handler["main"] = "terminate" /\ s.posted = <<"main">>
    BY DEF Ending, Sound, Open
  <1>8. Gone(s) => ~Open(s)
    BY DEF Gone, Open
  <1>9. <<"sub">> # <<>> /\ <<"main">> # <<>>
    OBVIOUS
  <1> QED
    BY <1>1, <1>2, <1>3, <1>4, <1>5, <1>6, <1>7, <1>8, <1>9
    DEF Inv, Stages, Posted, Upstream, Waiting

LEMMA FreshReady ==
    ASSUME NEW c, Fresh(c)
    PROVE  Ready(c)
  BY DEF Fresh, Ready, Alone, Only

LEMMA RefuseStep ==
    ASSUME Inv, Refuse
    PROVE  Step(s, s')
  <1>1. Fresh(s)
    BY StageOf DEF Refuse
  <1>2. Ready(s) /\ ~s.done["sub"]
    BY <1>1, FreshReady DEF Fresh
  <1>3. CASE s' = FinalizeMain(NoMemory(s), TRUE)
    BY <1>2, <1>3, EndsNoMemory
  <1>4. ASSUME NEW code \in Refusals, NEW sending \in Sendings,
               s' = FinalizeSpecial(s, code, sending)
        PROVE  Step(s, s')
    <2>1. code \in Nat /\ code \in Codes /\ code > 200
      BY <1>4 DEF Refusals, Codes
    <2> QED
      BY <1>2, <1>4, <2>1, AnsweredSpecial
  <1> QED
    BY <1>3, <1>4 DEF Refuse

LEMMA AskStep ==
    ASSUME Inv, Ask
    PROVE  Step(s, s')
  <1>1. Fresh(s)
    BY StageOf DEF Ask
  <1>2. /\ Req(s) /\ Sound(s) /\ Unsent(s) /\ s.posted = <<>> /\ s.count = 1 /\ ~s.cleanup
        /\ ~s.done["sub"] /\ s.up = "none" /\ s.status["sub"] = 0 /\ ~s.error
    BY <1>1 DEF Fresh, Sound, Unsent
  <1> DEFINE a == [s EXCEPT !.handler["main"] = "empty"]
             b == [a EXCEPT !.data = "sub", !.postponed = TRUE,
                            !.count = @ + 1, !.handler["sub"] = "phases"]
             d == [b EXCEPT !.posted = Append(@, "sub")]
             f == [d EXCEPT !.handler["main"] = "writer", !.timer = TRUE]
  <1>3. s' = FinalizeMain(d, FALSE)
    BY DEF Ask, Subrequest, PostRequest
  <1>4. /\ Req(a) /\ a.posted = s.posted /\ a.count = s.count /\ a.cleanup = s.cleanup
        /\ a.done = s.done /\ a.up = s.up /\ a.status = s.status /\ a.error = s.error
        /\ a.end = s.end /\ a.alerts = s.alerts /\ a.late = s.late /\ a.json = s.json /\ a.buf = s.buf
        /\ a.reply = s.reply /\ a.body = s.body /\ a.header_sent = s.header_sent
        /\ a.buffered = s.buffered
    BY <1>2 DEF Req, Fields, Two
  <1> HIDE DEF a
  <1>5. /\ Req(b) /\ b.posted = a.posted /\ b.count = 2 /\ b.cleanup = a.cleanup
        /\ b.done = a.done /\ b.up = a.up /\ b.status = a.status /\ b.error = a.error
        /\ b.end = a.end /\ b.alerts = a.alerts /\ b.late = a.late /\ b.json = a.json /\ b.buf = a.buf
        /\ b.reply = a.reply /\ b.body = a.body /\ b.header_sent = a.header_sent
        /\ b.buffered = a.buffered /\ b.data = "sub" /\ b.postponed
        /\ b.handler["sub"] = "phases"
    BY <1>2, <1>4 DEF Req, Fields, Two
  <1> HIDE DEF b
  <1>6. /\ Req(d) /\ d.posted = Append(b.posted, "sub") /\ d.count = b.count
        /\ d.cleanup = b.cleanup
        /\ d.done = b.done /\ d.up = b.up /\ d.status = b.status /\ d.error = b.error
        /\ d.end = b.end /\ d.alerts = b.alerts /\ d.late = b.late /\ d.json = b.json /\ d.buf = b.buf
        /\ d.reply = b.reply /\ d.body = b.body /\ d.header_sent = b.header_sent
        /\ d.buffered = b.buffered /\ d.data = b.data /\ d.postponed = b.postponed
        /\ d.handler = b.handler
    BY <1>5 DEF Req, Fields, Two
  <1> HIDE DEF d
  <1>7. /\ Req(f) /\ f.posted = d.posted /\ f.count = d.count /\ f.cleanup = d.cleanup
        /\ f.done = d.done /\ f.up = d.up /\ f.status = d.status /\ f.error = d.error
        /\ f.end = d.end /\ f.alerts = d.alerts /\ f.late = d.late /\ f.json = d.json /\ f.buf = d.buf
        /\ f.reply = d.reply /\ f.body = d.body /\ f.header_sent = d.header_sent
        /\ f.buffered = d.buffered /\ f.data = d.data /\ f.postponed = d.postponed
        /\ f.handler["sub"] = d.handler["sub"] /\ f.handler["main"] = "writer"
    BY <1>6 DEF Req, Fields, Two
  <1>8. s' = f
    BY <1>2, <1>3, <1>4, <1>5, <1>6 DEF FinalizeMain, SetWriteHandler
  <1> HIDE DEF f
  <1>9. f.posted = <<"sub">>
    BY <1>2, <1>4, <1>5, <1>6, <1>7
  <1>10. Sound(f)
    BY <1>2, <1>4, <1>5, <1>6, <1>7 DEF Sound, Passed, Unsent
  <1>11. Asking(f, 2)
    BY <1>2, <1>4, <1>5, <1>6, <1>7, <1>10 DEF Asking, Unsent
  <1>12. Asked(f)
    BY <1>2, <1>4, <1>5, <1>6, <1>7, <1>9, <1>11 DEF Asked
  <1>13. Same(s, f)
    BY <1>4, <1>5, <1>6, <1>7 DEF Same
  <1> QED
    BY <1>8, <1>12, <1>13 DEF Step, Stages, Seen

(* The first entry of the posted requests is taken.                        *)
LEMMA TakenIs ==
    ASSUME Req(s), NEW r, s.posted = <<r>>
    PROVE  /\ Req(Taken) /\ Taken.posted = <<>>
           /\ Taken.count = s.count /\ Taken.cleanup = s.cleanup
            /\ Taken.done = s.done /\ Taken.up = s.up /\ Taken.status = s.status
            /\ Taken.error = s.error /\ Taken.end = s.end /\ Taken.alerts = s.alerts
            /\ Taken.late = s.late /\ Taken.buf = s.buf /\ Taken.reply = s.reply
            /\ Taken.body = s.body /\ Taken.header_sent = s.header_sent
            /\ Taken.buffered = s.buffered /\ Taken.data = s.data
            /\ Taken.postponed = s.postponed /\ Taken.handler = s.handler
            /\ Taken.json = s.json /\ Taken.ctx = s.ctx /\ Taken.rc = s.rc
            /\ Taken.shown = s.shown /\ Taken.timedout = s.timedout
  <1>1. Tail(<<r>>) = <<>>
    OBVIOUS
  <1> QED
    BY <1>1 DEF Taken, Req, Fields, Two

LEMMA RunSubrequestStep ==
    ASSUME Inv, RunSubrequest
    PROVE  Step(s, s')
  <1>1. Asked(s)
    BY StageOf DEF RunSubrequest
  <1>2. /\ Req(s) /\ s.posted = <<"sub">> /\ Asking(s, 2) /\ s.up = "none" /\ Sound(s)
        /\ s.count = 2
        /\ s.handler["main"] = "writer"
    BY <1>1 DEF Asked, Asking, Sound
  <1> DEFINE c == Taken
             u == [c EXCEPT !.count = @ + 1, !.cleanup = TRUE, !.up = "connect",
                            !.handler["sub"] = "check"]
  <1>3. /\ Req(c) /\ c.posted = <<>>
        /\ c.count = s.count /\ c.cleanup = s.cleanup /\ c.done = s.done
        /\ c.up = s.up /\ c.status = s.status /\ c.error = s.error /\ c.end = s.end
        /\ c.alerts = s.alerts /\ c.late = s.late /\ c.buf = s.buf /\ c.reply = s.reply
        /\ c.body = s.body /\ c.header_sent = s.header_sent /\ c.buffered = s.buffered
        /\ c.data = s.data /\ c.postponed = s.postponed /\ c.handler = s.handler
        /\ c.json = s.json /\ c.ctx = s.ctx /\ c.rc = s.rc /\ c.shown = s.shown
        /\ c.timedout = s.timedout
    BY <1>2, TakenIs
  <1> HIDE DEF c
  <1>0. u.count = 3
    BY <1>2, <1>3 DEF Req, Fields
  <1>4. /\ u.cleanup /\ u.up = "connect" /\ u.handler["sub"] = "check"
        /\ u.handler["main"] = c.handler["main"]
        /\ Req(u) /\ u.posted = c.posted /\ u.done = c.done /\ u.status = c.status
        /\ u.error = c.error /\ u.end = c.end /\ u.alerts = c.alerts /\ u.late = c.late
        /\ u.buf = c.buf /\ u.reply = c.reply /\ u.body = c.body
        /\ u.header_sent = c.header_sent /\ u.buffered = c.buffered /\ u.data = c.data
        /\ u.postponed = c.postponed /\ u.json = c.json /\ u.ctx = c.ctx /\ u.rc = c.rc
        /\ u.shown = c.shown /\ u.timedout = c.timedout
    BY <1>3 DEF Req, Fields, Two
  <1>5. PICK connected \in BOOLEAN :
           s' = FinalizeConnection(IF connected THEN u ELSE UpstreamFinalize(u, 502))
    BY DEF RunSubrequest, ProxyHandler, c
  <1> HIDE DEF u
  <1>6. Sound(u)
    BY <1>2, <1>3, <1>4 DEF Sound, Passed
  <1>7. Asking(u, 3)
    BY <1>0, <1>2, <1>3, <1>4, <1>6 DEF Asking, Unsent
  <1>8. CASE connected
    <2> DEFINE f == [u EXCEPT !.count = @ - 1]
    <2>0. f.count = 2
      BY <1>0, <1>4 DEF Req, Fields
    <2>1. /\ Req(f) /\ f.posted = u.posted /\ f.cleanup = u.cleanup /\ f.done = u.done
          /\ f.up = u.up /\ f.status = u.status /\ f.error = u.error /\ f.end = u.end
          /\ f.alerts = u.alerts /\ f.late = u.late /\ f.buf = u.buf /\ f.reply = u.reply
          /\ f.body = u.body /\ f.header_sent = u.header_sent /\ f.buffered = u.buffered
          /\ f.data = u.data /\ f.postponed = u.postponed /\ f.handler = u.handler
          /\ f.json = u.json /\ f.ctx = u.ctx /\ f.rc = u.rc /\ f.shown = u.shown
          /\ f.timedout = u.timedout
      BY <1>4 DEF Req, Fields, Two
    <2>2. s' = f
      <3>1. s' = FinalizeConnection(u)
        BY <1>5, <1>8
      <3>2. FinalizeConnection(u) = CloseRequest(u)
        BY <1>0 DEF FinalizeConnection
      <3>3. CloseRequest(u) = f
        BY <1>0, <2>0 DEF CloseRequest
      <3> QED
        BY <3>1, <3>2, <3>3
    <2> HIDE DEF f
    <2>3. Asking(f, 2)
      BY <1>6, <1>7, <2>0, <2>1 DEF Asking, Unsent, Sound, Passed
    <2>4. Fetching(f)
      BY <1>3, <1>4, <2>1, <2>3 DEF Fetching
    <2>5. Same(s, f)
      BY <1>3, <1>4, <2>1 DEF Same
    <2> QED
      BY <2>2, <2>4, <2>5 DEF Step, Stages, Seen
  <1>9. CASE ~connected
    <2> DEFINE w == UpstreamFinalize(u, 502)
               f == [w EXCEPT !.count = @ - 1]
    <2>1. Awake(w, 2) /\ Same(u, w)
      <3>1. Asking(u, 3) /\ 3 = 2 + 1
        BY <1>7
      <3> QED
        <4>1. u.posted = <<>> /\ u.handler["sub"] # "none" /\ Failed(u, 502) /\ 2 \in Nat
          BY <1>3, <1>4 DEF Failed
        <4> QED
          BY <1>4, <3>1, <4>1, Wakes
    <2> HIDE DEF w
    <2>2. /\ Req(w) /\ w.count = 2
      BY <2>1 DEF Awake, Only, Sound
    <2>3. /\ f.count = 1
          /\ Req(f) /\ f.posted = w.posted /\ f.cleanup = w.cleanup /\ f.done = w.done
          /\ f.up = w.up /\ f.status = w.status /\ f.error = w.error /\ f.end = w.end
          /\ f.alerts = w.alerts /\ f.late = w.late /\ f.buf = w.buf /\ f.reply = w.reply
          /\ f.body = w.body /\ f.header_sent = w.header_sent /\ f.buffered = w.buffered
          /\ f.data = w.data /\ f.postponed = w.postponed /\ f.handler = w.handler
          /\ f.json = w.json /\ f.ctx = w.ctx /\ f.rc = w.rc /\ f.shown = w.shown
          /\ f.timedout = w.timedout
      BY <2>2 DEF Req, Fields, Two
    <2>4. s' = f
      <3>1. s' = FinalizeConnection(w)
        BY <1>5, <1>9 DEF w
      <3>2. FinalizeConnection(w) = CloseRequest(w)
        BY <2>2 DEF FinalizeConnection
      <3>3. CloseRequest(w) = f
        BY <2>2, <2>3 DEF CloseRequest
      <3> QED
        BY <3>1, <3>2, <3>3
    <2> HIDE DEF f
    <2>5. Sound(f) /\ Only(f, 1)
      BY <2>1, <2>3 DEF Awake, Only, Sound, Passed
    <2>6. Woken(f)
      BY <2>1, <2>3, <2>5 DEF Woken, Awake, Unsent
    <2>7. Same(s, f)
      BY <1>3, <1>4, <2>1, <2>3 DEF Same
    <2> QED
      BY <2>4, <2>6, <2>7 DEF Step, Stages, Seen
  <1> QED
    BY <1>8, <1>9

LEMMA RunTerminateStep ==
    ASSUME Inv, RunTerminate
    PROVE  Step(s, s')
  <1>1. Ending(s)
    BY StageOf DEF RunTerminate
  <1>2. Req(s) /\ s.posted = <<"main">> /\ Passed(s) /\ Cause(s)
    BY <1>1 DEF Ending, Sound
  <1> DEFINE c == Taken
             d == [c EXCEPT !.count = 1]
  <1>3. /\ Req(c) /\ c.posted = <<>>
        /\ c.count = s.count /\ c.cleanup = s.cleanup /\ c.done = s.done
        /\ c.up = s.up /\ c.status = s.status /\ c.error = s.error /\ c.end = s.end
        /\ c.alerts = s.alerts /\ c.late = s.late /\ c.buf = s.buf /\ c.reply = s.reply
        /\ c.body = s.body /\ c.header_sent = s.header_sent /\ c.buffered = s.buffered
        /\ c.data = s.data /\ c.postponed = s.postponed /\ c.handler = s.handler
        /\ c.json = s.json /\ c.ctx = s.ctx /\ c.rc = s.rc /\ c.shown = s.shown
        /\ c.timedout = s.timedout
    BY <1>2, TakenIs
  <1>4. s' = CloseRequest(d)
    BY DEF RunTerminate, TerminateHandler
  <1> HIDE DEF c
  <1>5. /\ d.count = 1
        /\ Req(d) /\ d.posted = c.posted /\ d.cleanup = c.cleanup /\ d.done = c.done
        /\ d.up = c.up /\ d.status = c.status /\ d.error = c.error /\ d.end = c.end
        /\ d.alerts = c.alerts /\ d.late = c.late /\ d.buf = c.buf /\ d.reply = c.reply
        /\ d.body = c.body /\ d.header_sent = c.header_sent /\ d.buffered = c.buffered
        /\ d.data = c.data /\ d.postponed = c.postponed /\ d.handler = c.handler
        /\ d.json = c.json /\ d.ctx = c.ctx /\ d.rc = c.rc /\ d.shown = c.shown
        /\ d.timedout = c.timedout
    BY <1>3 DEF Req, Fields, Two
  <1> HIDE DEF d
  <1>6. Passed(d) /\ Cause(d)
    BY <1>2, <1>3, <1>5 DEF Passed, Cause
  <1>7. d.end = "open" /\ d.alerts = {} /\ ~d.cleanup /\ d.up \in {"none", "closed"}
    BY <1>1, <1>3, <1>5 DEF Ending, Sound
  <1>8. Gone(CloseRequest(d)) /\ Same(d, CloseRequest(d))
    BY <1>3, <1>5, <1>6, <1>7, Closes
  <1>9. Same(s, d)
    BY <1>3, <1>5 DEF Same
  <1> QED
    BY <1>4, <1>8, <1>9 DEF Step, Stages, Seen, Same

(* What the upstream's events start from.                                  *)
LEMMA FetchingIs ==
    ASSUME NEW c, Fetching(c)
    PROVE  /\ Req(c) /\ Sound(c) /\ Unsent(c) /\ Asking(c, 2) /\ c.cleanup
           /\ c.posted = <<>> /\ c.handler["sub"] = "check" /\ c.handler["main"] = "writer"
           /\ c.data = "sub" /\ c.count = 2 /\ c.postponed /\ ~c.done["sub"] /\ c.reply = 0
           /\ c.up \in {"connect", "header", "body"} /\ ((c.status["sub"] = 0) <=> (c.up # "body"))
  BY DEF Fetching, Asking, Sound, Unsent

LEMMA ReadBlankStep ==
    ASSUME Inv, ReadBlank
    PROVE  Step(s, s')
  <1>1. s.up = "connect" /\ Upstream({"connect", "header", "body"})
    BY DEF ReadBlank, Upstream
  <1>2. Fetching(s)
    BY <1>1, StageOf
  <1> DEFINE f == [s EXCEPT !.up = "header", !.buf = "blank"]
  <1>3. s' = f
    BY DEF ReadBlank
  <1>4. /\ f.up = "header" /\ f.buf = "blank"
        /\ Req(f) /\ f.posted = s.posted /\ f.count = s.count /\ f.cleanup = s.cleanup
        /\ f.done = s.done /\ f.status = s.status /\ f.error = s.error /\ f.end = s.end
        /\ f.alerts = s.alerts /\ f.late = s.late /\ f.reply = s.reply /\ f.body = s.body
        /\ f.header_sent = s.header_sent /\ f.buffered = s.buffered /\ f.data = s.data
        /\ f.postponed = s.postponed /\ f.handler = s.handler /\ f.json = s.json
        /\ f.ctx = s.ctx /\ f.rc = s.rc /\ f.shown = s.shown /\ f.timedout = s.timedout
    BY <1>2, FetchingIs DEF Req, Fields, Two
  <1> HIDE DEF f
  <1>5. Sound(f)
    BY <1>1, <1>2, <1>4, FetchingIs DEF Sound, Passed, Unsent
  <1>6. Asking(f, 2)
    BY <1>1, <1>2, <1>4, <1>5, FetchingIs DEF Asking, Unsent
  <1>7. Fetching(f)
    BY <1>2, <1>4, <1>6, FetchingIs DEF Fetching
  <1>8. Same(s, f)
    BY <1>4 DEF Same
  <1> QED
    BY <1>3, <1>7, <1>8 DEF Step, Stages, Seen

LEMMA ReadHeaderStep ==
    ASSUME Inv, ReadHeader
    PROVE  Step(s, s')
  <1>1. Upstream({"connect", "header", "body"})
    BY DEF ReadHeader, Upstream
  <1>2. Fetching(s)
    BY <1>1, StageOf
  <1>3. PICK a \in Answers :
           s' = [s EXCEPT !.up = "body", !.buf = "part", !.status["sub"] = a[1], !.json = a[2]]
    BY DEF ReadHeader
  <1> DEFINE code == a[1]
             json == a[2]
  <1>4. code \in {200, 403, 404} /\ (code = 200 => json \in Playlists \cup {"null"})
    BY DEF Answers, Playlists
  <1> HIDE DEF code, json
  <1> DEFINE f == [s EXCEPT !.up = "body", !.buf = "part", !.status["sub"] = code, !.json = json]
  <1>5. s' = f
    BY <1>3 DEF code, json
  <1>6. /\ f.up = "body" /\ f.buf = "part" /\ f.status["sub"] = code /\ f.json = json
        /\ Req(f) /\ f.posted = s.posted /\ f.count = s.count /\ f.cleanup = s.cleanup
        /\ f.done = s.done /\ f.error = s.error /\ f.end = s.end /\ f.alerts = s.alerts
        /\ f.late = s.late /\ f.reply = s.reply /\ f.body = s.body
        /\ f.header_sent = s.header_sent /\ f.buffered = s.buffered /\ f.data = s.data
        /\ f.postponed = s.postponed /\ f.handler = s.handler /\ f.ctx = s.ctx
        /\ f.rc = s.rc /\ f.shown = s.shown /\ f.timedout = s.timedout
    BY <1>2, FetchingIs DEF Req, Fields, Two
  <1> HIDE DEF f
  <1>7. Sound(f)
    BY <1>2, <1>4, <1>6, FetchingIs DEF Sound, Passed, Unsent
  <1>8. Asking(f, 2)
    BY <1>2, <1>4, <1>6, <1>7, FetchingIs DEF Asking, Unsent
  <1>9. Fetching(f)
    BY <1>2, <1>6, <1>8, FetchingIs DEF Fetching
  <1>10. Same(s, f)
    BY <1>6 DEF Same
  <1> QED
    BY <1>5, <1>9, <1>10 DEF Step, Stages, Seen

(* The upstream of the subrequest ends while the client is there; what has *)
(* come of the answer may grow with it.                                    *)
ButBuf(c, d) ==
    /\ Req(d) /\ d.posted = c.posted /\ d.count = c.count
    /\ d.cleanup = c.cleanup /\ d.done = c.done /\ d.up = c.up
    /\ d.status = c.status /\ d.error = c.error /\ d.end = c.end
    /\ d.alerts = c.alerts /\ d.late = c.late /\ d.json = c.json /\ d.reply = c.reply
    /\ d.body = c.body /\ d.header_sent = c.header_sent
    /\ d.buffered = c.buffered /\ d.data = c.data /\ d.postponed = c.postponed
    /\ d.handler = c.handler

LEMMA UpstreamEnds ==
    ASSUME Fetching(s), NEW c, ButBuf(s, c), NEW rc,
           s.status["sub"] # 0 => c.buf \in {"part", "full"},
           Failed(s, rc)
    PROVE  Step(s, UpstreamFinalize(c, rc))
  <1>2. Sound(c)
    BY FetchingIs DEF Sound, Passed, Unsent, ButBuf
  <1>3. Asking(c, 2) /\ 2 = 1 + 1
    BY <1>2, FetchingIs DEF Asking, Unsent, ButBuf
  <1>4. c.cleanup /\ c.posted = <<>> /\ c.handler["sub"] # "none" /\ 1 \in Nat
    BY FetchingIs DEF ButBuf
  <1>5. Failed(c, rc)
    BY DEF ButBuf, Failed
  <1>6. Awake(UpstreamFinalize(c, rc), 1) /\ Same(c, UpstreamFinalize(c, rc))
    BY <1>3, <1>4, <1>5, Wakes
  <1> QED
    BY <1>6 DEF Step, Stages, Seen, Same, Woken, ButBuf

LEMMA ButBufIs ==
    ASSUME Req(s), NEW buf
    PROVE  LET c == [s EXCEPT !.buf = buf] IN ButBuf(s, c) /\ c.buf = buf
  BY DEF ButBuf, Req, Fields, Two

LEMMA UpstreamSteps ==
    ASSUME Inv, ReadBody \/ PeerClosed \/ BodyError \/ UpstreamTimeout
    PROVE  Step(s, s')
  <1>1. Upstream({"connect", "header", "body"})
    BY DEF ReadBody, PeerClosed, BodyError, UpstreamTimeout, Upstream
  <1>2. Fetching(s)
    BY <1>1, StageOf
  <1>3. /\ Req(s) /\ (s.status["sub"] = 0 <=> s.up # "body")
        /\ s.status["sub"] # 0 => s.buf \in {"part", "full"}
    BY <1>2, FetchingIs DEF Sound
  <1>4. ButBuf(s, s)
    BY <1>3 DEF ButBuf
  <1>5. ASSUME NEW rc, Failed(s, rc)
        PROVE  Step(s, UpstreamFinalize(s, rc))
    BY <1>2, <1>3, <1>4, <1>5, UpstreamEnds
  <1>6. CASE ReadBody
    <2>1. s.up = "body" /\ s' = UpstreamFinalize([s EXCEPT !.buf = "full"], 0)
      BY <1>6 DEF ReadBody, Upstream
    <2>2. ButBuf(s, [s EXCEPT !.buf = "full"]) /\ [s EXCEPT !.buf = "full"].buf = "full"
      BY <1>3, ButBufIs
    <2> QED
      BY <1>2, <1>3, <2>1, <2>2, UpstreamEnds DEF Failed
  <1>7. ASSUME s.up = "connect", NEW buf \in {"null", "blank"},
               s' = UpstreamFinalize([s EXCEPT !.buf = buf], 502)
        PROVE  Step(s, s')
    <2>1. ButBuf(s, [s EXCEPT !.buf = buf]) /\ [s EXCEPT !.buf = buf].buf = buf
      BY <1>3, ButBufIs
    <2> QED
      BY <1>2, <1>3, <1>7, <2>1, UpstreamEnds DEF Failed
  <1>8. CASE PeerClosed
    <2>1. CASE Upstream({"connect"}) /\ \E buf \in {"null", "blank"} :
                  s' = UpstreamFinalize([s EXCEPT !.buf = buf], 502)
      BY <1>7, <2>1 DEF Upstream
    <2>2. CASE Upstream({"header"}) /\ s' = UpstreamFinalize(s, 502)
      BY <1>5, <2>2 DEF Failed
    <2>3. CASE Upstream({"body"}) /\ s' = UpstreamFinalize(s, 0)
      BY <1>3, <1>5, <2>3 DEF Upstream, Failed
    <2> QED
      BY <1>8, <2>1, <2>2, <2>3 DEF PeerClosed
  <1>9. CASE BodyError
    BY <1>3, <1>5, <1>9 DEF BodyError, Upstream, Failed
  <1>10. CASE UpstreamTimeout
    BY <1>5, <1>10 DEF UpstreamTimeout, Failed
  <1> QED
    BY <1>6, <1>8, <1>9, <1>10

(* The parent has been woken and turns the filter's answer into its own.   *)
LEMMA SendsPlaylist ==
    ASSUME NEW c, Ready(c), NEW parsed, NEW sending \in Sendings \cup {"nomem"},
           c.status["sub"] = 200, parsed = c.json \/ (parsed = "stale" /\ c.buf = "part")
    PROVE  Step(c, SendPlaylist(c, parsed, sending))
  <1>1. Req(c) /\ Sound(c) /\ c.reply = 0 /\ c.body = "none"
    BY DEF Ready, Alone, Only, Sound, Unsent, Codes, Refusals
  <1> DEFINE k == [c EXCEPT !.keepalive = FALSE]
             d == [k EXCEPT !.header_sent = TRUE, !.error = TRUE]
  <1>2. Alike(c, k)
    BY <1>1 DEF Alike, Req, Fields, Two
  <1>3. CASE sending = "nomem"
    BY <1>3, EndsNoMemory DEF SendPlaylist
  <1>4. CASE sending # "nomem" /\ parsed = "empty" /\ ~c.header_only
    <2>1. SendPlaylist(c, parsed, sending) = FinalizeMain(d, TRUE)
      BY <1>4 DEF SendPlaylist
    <2> HIDE DEF k
    <2>2. /\ Req(k)
      BY <1>2 DEF Alike
    <2>3. /\ d.error
          /\ Req(d) /\ d.end = k.end /\ d.alerts = k.alerts /\ d.late = k.late
          /\ d.status = k.status /\ d.done = k.done /\ d.handler = k.handler
          /\ d.buf = k.buf /\ d.json = k.json /\ d.reply = k.reply /\ d.body = k.body
          /\ d.data = k.data /\ d.cleanup = k.cleanup /\ d.up = k.up
          /\ d.postponed = k.postponed /\ d.count = k.count
      BY <2>2 DEF Req, Fields, Two
    <2> HIDE DEF d
    <2>4. Sound(d)
      BY <1>1, <1>2, <2>3 DEF Sound, Alike, Passed
    <2>5. Cause(d)
      BY <1>1, <1>2, <2>3 DEF Cause, Alike
    <2>6. /\ ~d.cleanup /\ d.up \in {"none", "closed"}
          /\ d.count = 1 + (IF d.handler["sub"] # "none" /\ ~d.done["sub"] THEN 1 ELSE 0)
      BY <1>2, <2>3 DEF Ready, Alone, Only, Alike
    <2>7. Ending(Terminate(d)) /\ Same(d, Terminate(d))
      BY <2>4, <2>5, <2>6, Terminates
    <2>8. FinalizeMain(d, TRUE) = Terminate(d)
      BY DEF FinalizeMain
    <2>9. Same(c, d)
      BY <1>2, <2>3 DEF Same, Alike
    <2>10. Same(c, Terminate(d))
      BY <2>7, <2>9 DEF Same
    <2>11. Step(c, Terminate(d))
      BY <2>7, <2>10 DEF Step, Stages, Seen
    <2>12. SendPlaylist(c, parsed, sending) = Terminate(d)
      BY <2>1, <2>8
    <2> HIDE DEF Step
    <2> QED
      BY <2>11, <2>12
  <1>5. CASE sending # "nomem" /\ (parsed # "empty" \/ c.header_only)
    <2>1. SendPlaylist(c, parsed, sending) = FinalizeMain(Send(k, 200, parsed, sending), FALSE)
      BY <1>5 DEF SendPlaylist
    <2> HIDE DEF k
    <2>2. Ready(k)
      BY <1>2, AlikeReady
    <2>3. /\ k.status["sub"] = 200 /\ (parsed = k.json \/ (parsed = "stale" /\ k.buf = "part"))
          /\ 200 \in Codes /\ sending \in Sendings
      BY <1>2, <1>5 DEF Alike, Codes
    <2>4. Step(k, FinalizeMain(Send(k, 200, parsed, sending), FALSE))
      <3> DEFINE code == 200
      <3>1. code \in Nat /\ code # 0 /\ code = 200 /\ ~(code > 200) /\ code \in Codes
        BY <2>3
      <3> HIDE DEF code
      <3>2. Step(k, FinalizeMain(Send(k, code, parsed, sending), FALSE))
        BY <2>2, <2>3, <3>1, Answered
      <3> QED
        BY <3>1, <3>2
    <2> DEFINE g == FinalizeMain(Send(k, 200, parsed, sending), FALSE)
    <2>5. Step(k, g)
      BY <2>4
    <2> HIDE DEF g
    <2>6. Step(c, g)
      BY <1>2, <2>5, AlikeStep
    <2> QED
      BY <2>1, <2>6 DEF g
  <1> QED
    BY <1>3, <1>4, <1>5

LEMMA RunPrPostStep ==
    ASSUME Inv, RunPrPost
    PROVE  Step(s, s')
  <1>1. Woken(s)
    BY StageOf DEF RunPrPost
  <1>2. Req(s) /\ s.posted = <<"main">> /\ Only(s, 1) /\ Unsent(s) /\ Sound(s)
    BY <1>1 DEF Woken, Awake, Only, Sound
  <1>3. PICK parsed \in Parsed(s), sending \in Sendings \cup {"nomem"} :
           s' = PrPostHandler(Taken, parsed, sending)
    BY DEF RunPrPost
  <1> DEFINE c == Taken
  <1>4. /\ Req(c) /\ c.posted = <<>>
        /\ c.count = s.count /\ c.cleanup = s.cleanup /\ c.done = s.done /\ c.up = s.up
        /\ c.status = s.status /\ c.error = s.error /\ c.end = s.end
        /\ c.alerts = s.alerts /\ c.late = s.late /\ c.buf = s.buf /\ c.reply = s.reply
        /\ c.body = s.body /\ c.header_sent = s.header_sent /\ c.buffered = s.buffered
        /\ c.data = s.data /\ c.postponed = s.postponed /\ c.handler = s.handler
        /\ c.json = s.json /\ c.ctx = s.ctx /\ c.rc = s.rc /\ c.shown = s.shown
        /\ c.timedout = s.timedout
    BY <1>2, TakenIs
  <1>5. s' = PrPostHandler(c, parsed, sending)
    BY <1>3
  <1> HIDE DEF c
  <1>6. Ready(c)
    BY <1>2, <1>4 DEF Ready, Alone, Only, Unsent, Sound, Passed
  <1>7. Same(s, c)
    BY <1>4 DEF Same
  <1>8. ASSUME NEW g, Step(c, g)
        PROVE  Step(s, g)
    BY <1>7, <1>8 DEF Step, Seen, Same
  <1>9. /\ c.ctx = c.buf /\ c.status["main"] = c.status["sub"] /\ c.done["sub"]
        /\ c.reply = 0 /\ c.body = "none" /\ c.alerts = {} /\ Passed(c)
        /\ c.status["sub"] = 200 => c.json \in Playlists \cup {"null"}
        /\ c.status["sub"] # 0 => c.buf \in {"part", "full"}
    BY <1>1, <1>2, <1>4 DEF Woken, Awake, Unsent, Sound, Passed, Codes, Refusals
  <1>15. /\ c.status["sub"] = 0 => c.rc \in {502, 504}
         /\ c.status["sub"] \in {0, 200, 403, 404}
    BY <1>1, <1>2, <1>4 DEF Woken, Awake, Unsent, Sound, Passed, Codes, Refusals
  <1>10. ASSUME NEW why \in {"null pointer", "assertion"}
         PROVE  Step(c, Crash(c, why))
    <2> DEFINE f == [c EXCEPT !.end = why, !.timer = FALSE, !.posted = <<>>]
    <2>1. /\ f.end = why
          /\ Req(f) /\ f.alerts = c.alerts /\ f.status = c.status /\ f.shown = c.shown
          /\ f.json = c.json /\ f.buf = c.buf /\ f.done = c.done /\ f.reply = c.reply
          /\ f.body = c.body
      BY <1>4 DEF Req, Fields, Two
    <2>2. Crash(c, why) = f
      BY DEF Crash
    <2> HIDE DEF f
    <2>3. Passed(f)
      <3>1. f.reply = 0
        BY <1>9, <2>1
      <3> QED
        BY <3>1, UnsentPassed
    <2>4. Gone(f)
      BY <1>9, <1>10, <2>1, <2>3 DEF Gone
    <2> QED
      BY <2>1, <2>2, <2>4 DEF Step, Stages, Seen, Same
  <1>11. CASE c.ctx = "null"
    BY <1>5, <1>8, <1>10, <1>11 DEF PrPostHandler
  <1>12. CASE c.ctx # "null" /\ c.status["main"] = 0
    <2>1. Cause(c)
      BY <1>9, <1>12, <1>15 DEF Cause
    <2>2. s' = FinalizeMain(c, FALSE)
      BY <1>5, <1>12 DEF PrPostHandler
    <2> QED
      BY <1>6, <1>8, <2>1, <2>2, EndsSilent
  <1>13. CASE c.ctx # "null" /\ c.status["main"] \in {403, 404}
    <2> DEFINE code == c.status["main"]
               how == IF sending = "nomem" THEN "fail" ELSE sending
    <2>1. s' = FinalizeSpecial(c, code, how)
      <3>1. /\ c.ctx # "null" /\ c.status["main"] # 0 /\ c.status["main"] >= 300
            /\ c.status["main"] # 200
        BY <1>13
      <3> QED
        BY <1>5, <3>1 DEF PrPostHandler
    <2>2. code \in Nat /\ code \in Codes /\ code > 200 /\ code = c.status["sub"]
      BY <1>9, <1>13 DEF Codes, Refusals
    <2>3. how \in Sendings
      BY DEF Sendings
    <2> HIDE DEF code, how
    <2> QED
      BY <1>6, <1>8, <2>1, <2>2, <2>3, AnsweredSpecial
  <1>14. CASE c.ctx # "null" /\ c.status["main"] = 200
    <2> DEFINE handled ==
                 CASE parsed = "garbage" -> Crash(c, "assertion")
                   [] parsed = "null" -> Crash(c, "null pointer")
                   [] parsed \in Playlists \cup {"stale"} -> SendPlaylist(c, parsed, sending)
    <2>4. s' = handled
      <3>1. c.ctx # "null" /\ c.status["main"] = 200 /\ ~(c.status["main"] >= 300)
            /\ c.status["main"] # 0
        BY <1>14
      <3> QED
        BY <1>5, <3>1 DEF PrPostHandler
    <2>1. CASE parsed = "garbage"
      <3>1. s' = Crash(c, "assertion")
        BY <2>1, <2>4 DEF Playlists
      <3> QED
        BY <1>8, <1>10, <3>1
    <2>2. CASE parsed = "null"
      <3>1. s' = Crash(c, "null pointer")
        BY <2>2, <2>4 DEF Playlists
      <3> QED
        BY <1>8, <1>10, <3>1
    <2>3. CASE parsed \in Playlists \cup {"stale"}
      <3>1. s' = SendPlaylist(c, parsed, sending)
        BY <2>3, <2>4 DEF Playlists
      <3>2. parsed = c.json \/ (parsed = "stale" /\ c.buf = "part")
        BY <1>3, <1>4, <1>9, <1>14, <2>3 DEF Parsed, Playlists
      <3>3. c.status["sub"] = 200 /\ sending \in Sendings \cup {"nomem"}
        BY <1>3, <1>9, <1>14
      <3>4. Step(c, SendPlaylist(c, parsed, sending))
        BY <1>6, <3>2, <3>3, SendsPlaylist
      <3> QED
        BY <1>8, <3>1, <3>4
    <2>5. parsed \in {"garbage", "null"} \cup Playlists \cup {"stale"}
      BY <1>3, <1>4, <1>9, <1>14 DEF Parsed
    <2> QED
      BY <2>1, <2>2, <2>3, <2>5
  <1> QED
    BY <1>9, <1>11, <1>12, <1>13, <1>14, <1>15

-----------------------------------------------------------------------------
(* The end of a response that is being written.                            *)
LEMMA Stops ==
    ASSUME NEW c, NEW d, Only(d, 1), Cause(d), Same(c, d)
    PROVE  Step(c, FinalizeMain(d, TRUE))
  <1>1. FinalizeMain(d, TRUE) = Terminate(d)
    BY DEF FinalizeMain
  <1>2. /\ Sound(d) /\ ~d.cleanup /\ d.up \in {"none", "closed"}
        /\ d.count = 1 + (IF d.handler["sub"] # "none" /\ ~d.done["sub"] THEN 1 ELSE 0)
    BY DEF Only
  <1>3. Ending(Terminate(d)) /\ Same(d, Terminate(d))
    BY <1>2, Terminates
  <1>4. Same(c, Terminate(d))
    BY <1>3 DEF Same
  <1>5. Step(c, Terminate(d))
    BY <1>3, <1>4 DEF Step, Stages, Seen
  <1> QED
    BY <1>1, <1>5

LEMMA WritingIs ==
    ASSUME NEW c, Writing(c)
    PROVE  /\ Req(c) /\ Sound(c) /\ Only(c, 1) /\ c.handler["main"] = "writer" /\ c.posted = <<>>
           /\ c.header_sent /\ c.body = "cut" /\ ~c.error /\ c.data = "main" /\ c.count = 1
           /\ ~c.cleanup /\ ~c.postponed /\ c.end = "open" /\ c.alerts = {} /\ c.reply # 0
           /\ c.up \in {"none", "closed"} /\ Passed(c)
  BY DEF Writing, Alone, Only, Sound, Codes, Refusals

(* Only is kept by what changes none of its fields.                        *)
Keeps(c, d) ==
    /\ Req(d) /\ d.end = c.end /\ d.alerts = c.alerts /\ d.late = c.late
    /\ d.status = c.status /\ d.done = c.done /\ d.buf = c.buf /\ d.json = c.json
    /\ d.reply = c.reply /\ d.shown = c.shown /\ d.cleanup = c.cleanup /\ d.up = c.up
    /\ d.data = c.data /\ d.postponed = c.postponed /\ d.count = c.count
    /\ d.handler["sub"] = c.handler["sub"]

LEMMA KeepsOnly ==
    ASSUME NEW c, NEW d, Only(c, 1), Keeps(c, d),
           c.body = "cut" /\ d.body \in {"cut", "whole"}
    PROVE  Only(d, 1)
  <1>1. Passed(d)
    BY DEF Only, Sound, Passed, Keeps
  <1>2. Sound(d)
    BY <1>1 DEF Only, Sound, Keeps
  <1> QED
    BY <1>2 DEF Only, Keeps

LEMMA ClientClosesStep ==
    ASSUME Inv, ClientCloses
    PROVE  Step(s, s')
  <1>1. Fetching(s) \/ Writing(s)
    BY StageOf DEF ClientCloses
  <1>2. CASE Fetching(s)
    <2> DEFINE e == [s EXCEPT !.error = TRUE]
    <2>1. s' = UpstreamFinalize(e, 499)
      BY <1>2, FetchingIs DEF ClientCloses
    <2>2. Ending(UpstreamFinalize(e, 499)) /\ Same(s, UpstreamFinalize(e, 499))
      BY <1>2, Abandons
    <2> HIDE DEF e
    <2> QED
      BY <2>1, <2>2 DEF Step, Stages, Seen
  <1>3. CASE Writing(s)
    <2> DEFINE e == [s EXCEPT !.error = TRUE]
    <2>1. s' = FinalizeMain(e, TRUE)
      BY <1>3, WritingIs DEF ClientCloses
    <2>2. Keeps(s, e) /\ e.error /\ e.body = s.body
      BY <1>3, WritingIs DEF Keeps, Req, Fields, Two
    <2> HIDE DEF e
    <2>3. Only(e, 1)
      BY <1>3, <2>2, WritingIs, KeepsOnly
    <2>4. Cause(e) /\ Same(s, e)
      BY <2>2 DEF Cause, Same, Keeps
    <2> QED
      BY <2>1, <2>3, <2>4, Stops
  <1> QED
    BY <1>1, <1>2, <1>3

LEMMA WriteTimeoutStep ==
    ASSUME Inv, WriteTimeout
    PROVE  Step(s, s')
  <1>1. Fetching(s) \/ Writing(s)
    BY StageOf DEF WriteTimeout
  <1> DEFINE e == [s EXCEPT !.timer = FALSE, !.timedout = TRUE]
  <1>2. CASE Fetching(s)
    <2>1. s' = e
      BY <1>2, FetchingIs DEF WriteTimeout
    <2>2. /\ e.timedout
          /\ Req(e) /\ e.posted = s.posted /\ e.count = s.count /\ e.cleanup = s.cleanup
          /\ e.done = s.done /\ e.up = s.up /\ e.status = s.status /\ e.error = s.error
          /\ e.end = s.end /\ e.alerts = s.alerts /\ e.late = s.late /\ e.buf = s.buf
          /\ e.reply = s.reply /\ e.body = s.body /\ e.header_sent = s.header_sent
          /\ e.buffered = s.buffered /\ e.data = s.data /\ e.postponed = s.postponed
          /\ e.handler = s.handler /\ e.json = s.json
      BY <1>2, FetchingIs DEF Req, Fields, Two
    <2> HIDE DEF e
    <2>3. Sound(e)
      BY <1>2, <2>2, FetchingIs DEF Sound, Passed, Unsent
    <2>4. Fetching(e)
      BY <1>2, <2>2, <2>3, FetchingIs DEF Fetching, Asking, Unsent
    <2>5. Same(s, e)
      BY <2>2 DEF Same
    <2> QED
      BY <2>1, <2>4, <2>5 DEF Step, Stages, Seen
  <1>3. CASE Writing(s)
    <2>1. s' = Writer(e, "part")
      BY <1>3, WritingIs DEF WriteTimeout
    <2>2. Keeps(s, e) /\ e.timedout /\ e.body = s.body
      BY <1>3, WritingIs DEF Keeps, Req, Fields, Two
    <2> HIDE DEF e
    <2>3. Only(e, 1)
      BY <1>3, <2>2, WritingIs, KeepsOnly
    <2>4. Cause(e) /\ Same(s, e)
      BY <1>3, <2>2, WritingIs DEF Cause, Same, Keeps
    <2>5. s' = FinalizeMain(e, TRUE)
      BY <2>1, <2>2 DEF Writer
    <2> QED
      BY <2>3, <2>4, <2>5, Stops
  <1> QED
    BY <1>1, <1>2, <1>3

LEMMA WriteReadyStep ==
    ASSUME Inv, WriteReady
    PROVE  Step(s, s')
  <1>1. Writing(s)
    BY StageOf, FetchingIs DEF WriteReady
  <1>2. PICK sending \in Sendings : s' = Writer(s, sending)
    BY DEF WriteReady
  <1>3. CASE s.timedout
    <2>1. s' = FinalizeMain(s, TRUE)
      BY <1>2, <1>3 DEF Writer
    <2>2. Only(s, 1) /\ Cause(s) /\ Same(s, s)
      BY <1>1, <1>3, WritingIs DEF Cause, Same
    <2> QED
      BY <2>1, <2>2, Stops
  <1> DEFINE o == Output(s, sending)
  <1>a. Req(s) /\ ~s.error
    BY <1>1, WritingIs
  <1>b. Keeps(s, o) /\ o.handler = s.handler /\ o.posted = s.posted /\ o.header_sent = s.header_sent
    BY <1>a DEF Output, Keeps, Req, Fields, Two
  <1>c. o.buffered = (sending = "part") /\ o.error = (s.error \/ (sending = "fail"))
    BY <1>a DEF Output, Req, Fields
  <1>d. o.body = (IF sending = "all" THEN "whole" ELSE "cut")
    BY <1>a DEF Output, Req, Fields
  <1>4. /\ Keeps(s, o) /\ (o.buffered <=> sending = "part") /\ (o.error <=> sending = "fail")
        /\ o.body = (IF sending = "all" THEN "whole" ELSE "cut") /\ o.handler = s.handler
        /\ o.posted = s.posted /\ o.header_sent = s.header_sent
    BY <1>a, <1>b, <1>c, <1>d
  <1> HIDE DEF o
  <1>5. Only(o, 1)
    BY <1>1, <1>4, WritingIs, KeepsOnly
  <1>6. CASE ~s.timedout /\ sending = "fail"
    <2>1. s' = FinalizeMain(o, TRUE)
      BY <1>2, <1>6 DEF Writer, o
    <2>2. Cause(o) /\ Same(s, o)
      BY <1>1, <1>4, <1>6, WritingIs DEF Cause, Same, Keeps
    <2> QED
      BY <1>5, <2>1, <2>2, Stops
  <1>7. CASE ~s.timedout /\ sending = "part"
    <2> DEFINE f == [o EXCEPT !.timer = TRUE]
    <2>1. s' = f
      BY <1>2, <1>7 DEF Writer, o
    <2>2. /\ Keeps(o, f) /\ f.body = "cut" /\ f.error = o.error /\ f.handler = o.handler
          /\ f.posted = o.posted /\ f.header_sent = o.header_sent /\ o.body = "cut"
      BY <1>4, <1>7 DEF Keeps, Req, Fields, Two
    <2> HIDE DEF f
    <2>3. Only(f, 1)
      BY <1>5, <2>2, KeepsOnly
    <2>4. Writing(f)
      BY <1>1, <1>4, <1>7, <2>2, <2>3, WritingIs DEF Writing, Alone
    <2>5. Same(s, f)
      BY <1>1, <1>4, <2>2, WritingIs DEF Same, Keeps
    <2> QED
      BY <2>1, <2>4, <2>5 DEF Step, Stages, Seen
  <1>8. CASE ~s.timedout /\ sending = "all"
    <2> DEFINE g == [o EXCEPT !.handler["main"] = "empty"]
               f == [g EXCEPT !.done["main"] = TRUE, !.handler["main"] = "empty",
                              !.timer = FALSE]
    <2>1. s' = FinalizeMain(g, FALSE)
      BY <1>2, <1>8 DEF Writer, o
    <2>2. Req(o)
      BY <1>4 DEF Keeps
    <2>3. /\ Req(g) /\ g.error = o.error /\ g.buffered = o.buffered /\ g.body = o.body
          /\ g.postponed = o.postponed /\ g.data = o.data /\ g.posted = o.posted
          /\ g.cleanup = o.cleanup /\ g.count = o.count /\ g.up = o.up /\ g.end = o.end
          /\ g.alerts = o.alerts /\ g.status = o.status /\ g.done = o.done /\ g.buf = o.buf
          /\ g.json = o.json /\ g.reply = o.reply /\ g.shown = o.shown
      BY <2>2 DEF Req, Fields, Two
    <2> HIDE DEF g
    <2>4. /\ Req(f) /\ f.body = g.body /\ f.posted = g.posted
          /\ f.cleanup = g.cleanup /\ f.count = g.count /\ f.up = g.up /\ f.end = g.end
          /\ f.alerts = g.alerts /\ f.status = g.status /\ f.done["sub"] = g.done["sub"]
          /\ f.buf = g.buf /\ f.json = g.json /\ f.reply = g.reply /\ f.shown = g.shown
      BY <2>3 DEF Req, Fields, Two
    <2>5. FinalizeMain(g, FALSE) = FinalizeConnection(f)
      BY <1>1, <1>4, <1>8, <2>3, WritingIs DEF FinalizeMain, Keeps
    <2> HIDE DEF f
    <2>6. Passed(f)
      BY <1>5, <2>3, <2>4 DEF Only, Sound, Passed
    <2>7. Cause(f) /\ f.body = "whole" /\ f.reply = s.reply
      BY <1>1, <1>4, <1>8, <2>3, <2>4, WritingIs DEF Cause, Keeps
    <2>8. /\ f.end = "open" /\ f.alerts = {} /\ ~f.cleanup /\ f.posted = <<>>
          /\ f.up \in {"none", "closed"} /\ f.count = 1
      BY <1>1, <1>4, <2>3, <2>4, WritingIs DEF Keeps
    <2>9. Gone(FinalizeConnection(f)) /\ Same(f, FinalizeConnection(f))
      BY <2>4, <2>6, <2>7, <2>8, Closes
    <2> DEFINE h == FinalizeConnection(f)
    <2>10. s' = h /\ Gone(h) /\ h.body = "whole" /\ h.reply = s.reply
      BY <2>1, <2>5, <2>7, <2>9 DEF Same
    <2> HIDE DEF h
    <2> QED
      BY <1>1, <2>10, WritingIs DEF Step, Stages, Seen
  <1> QED
    BY <1>3, <1>6, <1>7, <1>8 DEF Sendings

LEMMA CreatedFresh ==
    ASSUME NEW timedout, NEW keepalive, NEW header_only
    PROVE  LET c == Created(timedout, keepalive, header_only)
           IN  Fresh(c) /\ c.reply = 0 /\ c.body = "none" /\ Open(c)
  <1> DEFINE c == Created(timedout, keepalive, header_only)
  <1>1. Req(c)
    BY DEF Created, Req, Fields, Two
  <1>2. /\ c.end = "open" /\ c.alerts = {} /\ ~c.late /\ c.reply = 0 /\ c.body = "none"
        /\ c.status["sub"] = 0 /\ ~c.done["sub"] /\ c.up = "none" /\ c.buf = "null"
    BY DEF Created
  <1>3. /\ ~c.header_sent /\ ~c.buffered /\ ~c.error /\ c.handler["main"] = "phases"
        /\ c.handler["sub"] = "none" /\ c.data = "main" /\ c.posted = <<>> /\ c.count = 1
        /\ ~c.cleanup /\ ~c.postponed
    BY DEF Created
  <1> HIDE DEF c
  <1>4. Fresh(c) /\ c.reply = 0 /\ c.body = "none" /\ Open(c)
    BY <1>1, <1>2, <1>3 DEF Fresh, Sound, Passed, Unsent, Open
  <1> QED
    BY <1>4 DEF c

LEMMA InitInv ==
    ASSUME Init
    PROVE  Inv /\ Exchange!Init
  <1>1. PICK keepalive \in BOOLEAN, header_only \in BOOLEAN :
            s = Created(FALSE, keepalive, header_only)
    BY DEF Init
  <1>2. Fresh(s) /\ s.reply = 0 /\ s.body = "none" /\ Open(s)
    BY <1>1, CreatedFresh
  <1> QED
    BY <1>2 DEF Inv, Stages, Exchange!Init

(* A step of the handlers within a request.                                *)
Works == Next /\ ~NextRequest

LEMMA WorksStep ==
    ASSUME Inv, Works
    PROVE  Step(s, s')
  BY RefuseStep, AskStep, RunSubrequestStep, RunPrPostStep, RunTerminateStep, ReadBlankStep,
     ReadHeaderStep, UpstreamSteps, ClientClosesStep, WriteTimeoutStep, WriteReadyStep
     DEF Works, Next

LEMMA NextRequestStep ==
    ASSUME Inv, NextRequest
    PROVE  Inv' /\ Exchange!Again
  <1>1. PICK keepalive \in BOOLEAN, header_only \in BOOLEAN :
            s' = Created(s.end = "keepalive" /\ s.timedout, keepalive, header_only)
    BY DEF NextRequest
  <1>2. Fresh(s') /\ s'.reply = 0 /\ s'.body = "none" /\ Open(s')
    BY <1>1, CreatedFresh
  <1>3. ~Open(s)
    BY DEF NextRequest
  <1>4. Inv'
    BY <1>2 DEF Inv, Stages
  <1> QED
    BY <1>2, <1>3, <1>4 DEF Exchange!Again, Open

(* The invariant says what HlsSound does.                                  *)
LEMMA InvSound ==
    ASSUME Inv
    PROVE  HlsSound
  <1>0. ~Gone(s) => Sound(s)
    BY DEF Inv, Stages, Fresh, Asked, Fetching, Asking, Woken, Awake, Writing, Alone,
           Only, Ending
  <1>1. CountExact
    BY DEF Inv, Stages, CountExact, Open, Fresh, Asked, Fetching, Asking, Woken, Awake, Writing,
           Alone, Only, Ending, Gone
  <1>2. NoAlert
    BY <1>0 DEF NoAlert, Gone, Sound
  <1>3. WokenWhenDone
    BY DEF Inv, Stages, WokenWhenDone, Open, Fresh, Asked, Fetching, Asking, Woken, Awake,
           Writing, Alone, Only, Ending, Gone, Unsent
  <1>4. NothingDangles
    <2>1. CASE Gone(s)
      BY <2>1 DEF Gone, NothingDangles, Freed
    <2>2. CASE ~Gone(s)
      BY <1>0, <2>2 DEF Sound, NothingDangles, Freed
    <2> QED
      BY <2>1, <2>2
  <1>5. PassedOn
    BY <1>0 DEF PassedOn, Gone, Sound, Passed
  <1>6. Freed => Cause(s)
    <2>1. CASE Gone(s)
      BY <2>1 DEF Gone, Freed
    <2>2. CASE ~Gone(s)
      BY <1>0, <2>2 DEF Sound, Freed
    <2> QED
      BY <2>1, <2>2
  <1>7. CutHasCause /\ SilentHasCause
    BY <1>6 DEF CutHasCause, SilentHasCause, Cause
  <1> QED
    BY <1>1, <1>2, <1>3, <1>4, <1>5, <1>6, <1>7 DEF HlsSound

LEMMA NextInv ==
    ASSUME Inv, [Next]_vars
    PROVE  Inv'
  <1>1. CASE NextRequest
    BY <1>1, NextRequestStep
  <1>2. CASE Works
    BY <1>2, WorksStep DEF Step, Inv
  <1>3. CASE UNCHANGED vars
    BY <1>3 DEF vars, Inv
  <1> QED
    BY <1>1, <1>2, <1>3 DEF Works

(* Through subrequest, upstream, timers and a client that leaves, the      *)
(* reference count of the main request is exact and no alert of the core   *)
(* is logged, the parent wakes when its subrequest is over, nothing points *)
(* to a freed request, the client's status is the filter's, and a response *)
(* is cut short or missing only for a cause: whatever the handlers'        *)
(* callbacks and the core's finalization meet, in every order.             *)
THEOREM HlsKeeps == Spec => []HlsSound
  <1>1. Init => Inv
    BY InitInv
  <1>2. Inv /\ [Next]_vars => Inv'
    BY NextInv
  <1>3. Inv => HlsSound
    BY InvSound
  <1> QED
    BY <1>1, <1>2, <1>3, PTL DEF Spec

(* Every handler but the one that makes the next request has an open one.  *)
LEMMA WorksOpen ==
    ASSUME Works
    PROVE  Open(s)
  BY DEF Works, Next, Refuse, Ask, RunSubrequest, RunPrPost, RunTerminate, Posted, ReadBlank,
         ReadHeader, ReadBody, PeerClosed, BodyError, UpstreamTimeout, ClientCloses,
         WriteTimeout, WriteReady, Upstream, Waiting

LEMMA NextExchange ==
    ASSUME Inv, [Next]_vars
    PROVE  [Exchange!Next]_(Exchange!vars)
  <1>1. CASE NextRequest
    BY <1>1, NextRequestStep DEF Exchange!Next
  <1>2. CASE Works
    <2>1. Open(s) /\ Seen(s, s')
      BY <1>2, WorksStep, WorksOpen DEF Step
    <2>2. CASE Same(s, s')
      <3>1. CASE Open(s')
        BY <2>1, <2>2, <3>1 DEF Same, Exchange!vars, Open
      <3>2. CASE ~Open(s')
        BY <2>1, <2>2, <3>2 DEF Same, Exchange!Next, Exchange!Finish, Open
      <3> QED
        BY <3>1, <3>2
    <2>3. CASE /\ s.reply = 0 /\ s'.reply \in Codes /\ s'.body \in {"cut", "whole"}
               /\ s'.body = "cut" => Open(s')
      BY <2>1, <2>3 DEF Exchange!Next, Exchange!Answer, Codes, Open
    <2>4. CASE s.body = "cut" /\ s'.body = "whole" /\ s'.reply = s.reply
      BY <2>1, <2>4 DEF Exchange!Next, Exchange!Flush, Open
    <2> QED
      BY <2>1, <2>2, <2>3, <2>4 DEF Seen
  <1>3. CASE UNCHANGED vars
    BY <1>3 DEF vars, Exchange!vars, Open
  <1> QED
    BY <1>1, <1>2, <1>3 DEF Works

(* Refinement: to the client the life of a time-shift request is           *)
(* HttpExchange.  One status line, never replaced; a body that only grows; *)
(* and nothing more once the request is over.                              *)
THEOREM HlsAnswersOnce == Spec => OneResponse
  <1>1. Init => Inv /\ Exchange!Init
    BY InitInv
  <1>2. Inv /\ [Next]_vars => Inv'
    BY NextInv
  <1>3. Inv /\ [Next]_vars => [Exchange!Next]_(Exchange!vars)
    BY NextExchange
  <1> QED
    BY <1>1, <1>2, <1>3, PTL DEF Spec, OneResponse, Exchange!Spec

=============================================================================
