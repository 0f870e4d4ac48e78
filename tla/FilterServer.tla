---------------------------- MODULE FilterServer ----------------------------
(***************************************************************************)
(* The HTTP side of the m3u8 filter: one netty channel with the pipeline   *)
(* of httpServer (decoder, encoder, httpServerInboundHandler).  A client   *)
(* may send several requests without waiting.  The event loop thread of    *)
(* the channel handles them one after the other, while the recorder        *)
(* creates and removes the playlist files it looks at.                     *)
(*                                                                         *)
(* A handler call is two steps, because the files are looked at twice:     *)
(* exists() when the request is checked, and later the open.               *)
(***************************************************************************)
EXTENDS Naturals, Sequences, SequencesExt, FiniteSets

CONSTANT MaxRequests    \* bound: requests a client sends on the channel

VARIABLES files,    \* which of the two playlist files exist
          channel,  \* "open", "closing": closes when its output is written, "closed"
          inbox,    \* decoded requests not yet handled
          sent,     \* number of requests the client has sent
          call,     \* the request being handled and the file chosen for it
          out,      \* answers written and not yet flushed to the socket
          got,      \* answers the client has received
          failed    \* requests whose handler was left by an exception

vars == <<files, channel, inbox, sent, call, out, got, failed>>

Files == {"index", "m3u8"}
Modes == {"seek", "review", "none"}
NoCall == [id |-> 0]

(* What the decoder hands over: the method, the arguments that decide the  *)
(* play mode, whether the other parameters are there, and the connection   *)
(* header.  A request that cannot be decoded comes as a GET of HTTP/1.0    *)
(* without arguments.                                                      *)
Requests == [get : BOOLEAN, args : Modes, complete : BOOLEAN, keepalive : BOOLEAN]

Init ==
    /\ files \in SUBSET Files
    /\ channel = "open"
    /\ inbox = <<>> /\ sent = 0
    /\ call = NoCall
    /\ out = <<>> /\ got = <<>>
    /\ failed = {}

-----------------------------------------------------------------------------
(* The client sends one more request, pipelined or not.                    *)
Send ==
    /\ channel # "closed" /\ sent < MaxRequests
    /\ \E r \in Requests :
          inbox' = Append(inbox, [id |-> sent + 1, req |-> r])
    /\ sent' = sent + 1
    /\ UNCHANGED <<files, channel, call, out, got, failed>>

(* The recorder creates or removes a file.                                 *)
Touch ==
    /\ \E f \in Files : files' = (files \ {f}) \cup ({f} \ files)
    /\ UNCHANGED <<channel, inbox, sent, call, out, got, failed>>

-----------------------------------------------------------------------------
(* channel_response: the answer is written and flushed; without keep-alive *)
(* the channel is closed when the write has completed.  What is written to *)
(* a closed channel is lost.                                               *)
RespondFirst(id, req, status, content) ==
    /\ out' = <<[id |-> id, status |-> status, content |-> content,
                 last |-> ~req.keepalive]>> \o out
    /\ channel' = IF channel = "open" /\ ~req.keepalive THEN "closing" ELSE channel

Respond(id, req, status, content) ==
    /\ out' = IF channel = "closed" THEN out
              ELSE Append(out, [id |-> id, status |-> status,
                                content |-> content, last |-> ~req.keepalive])
    /\ channel' = IF channel = "open" /\ ~req.keepalive THEN "closing" ELSE channel

(* get_play_mode *)
PlayMode(req) == IF req.get THEN req.args ELSE "none"

(* file_path of playSeekHandler and playBackHandler: the .index first.     *)
ChooseFile == IF "index" \in files THEN "index" ELSE "m3u8"

ChannelRead ==
    /\ call = NoCall /\ inbox # <<>>
    /\ inbox' = Tail(inbox)
    /\ LET id == Head(inbox).id
           r == Head(inbox).req
       IN  \/ /\ PlayMode(r) = "none" \/ ~r.complete
              /\ Respond(id, r, 403, "error")
              /\ UNCHANGED call
           \/ /\ PlayMode(r) # "none" /\ r.complete /\ files = {}
              /\ Respond(id, r, 404, "error")
              /\ UNCHANGED call
           \/ /\ PlayMode(r) # "none" /\ r.complete /\ files # {}
              /\ call' = [id |-> id, req |-> r, file |-> ChooseFile]
              /\ UNCHANGED <<channel, out>>
    /\ UNCHANGED <<files, sent, got, failed>>

(* new URI(...) does not accept what the decoder accepted.                 *)
UriSyntax ==
    /\ call = NoCall /\ inbox # <<>>
    /\ LET r == Head(inbox).req
       IN  PlayMode(r) # "none" /\ r.complete
    /\ inbox' = Tail(inbox)
    /\ failed' = failed \cup {Head(inbox).id}
    /\ UNCHANGED <<files, channel, sent, call, out, got>>

(* The file is read and the playlist answered.                             *)
Finish ==
    /\ call # NoCall /\ call.file \in files
    /\ Respond(call.id, call.req, 200, PlayMode(call.req))
    /\ call' = NoCall
    /\ UNCHANGED <<files, inbox, sent, got, failed>>

(* An IOException while the file is opened or read.  playSeekHandler       *)
(* catches it and returns ERROR_OK with the playlist still null,           *)
(* playBackHandler does not catch it.                                      *)
IoError ==
    /\ call # NoCall
    /\ call' = NoCall
    /\ \/ /\ PlayMode(call.req) = "seek"
          /\ Respond(call.id, call.req, 200, "null")
          /\ UNCHANGED failed
       \/ /\ PlayMode(call.req) = "review"
          /\ failed' = failed \cup {call.id}
          /\ UNCHANGED <<channel, out>>
    /\ UNCHANGED <<files, inbox, sent, got>>

ExceptionCaught ==
    /\ call # NoCall
    /\ call' = NoCall
    /\ failed' = failed \cup {call.id}
    /\ UNCHANGED <<files, channel, inbox, sent, out, got>>

(* The socket takes the next answer.  The future of the last one closes    *)
(* the channel; what was written behind it is lost.                        *)
Flush ==
    /\ out # <<>> /\ channel # "closed"
    /\ got' = Append(got, Head(out))
    /\ IF Head(out).last
       THEN out' = <<>> /\ channel' = "closed"
       ELSE out' = Tail(out) /\ UNCHANGED channel
    /\ UNCHANGED <<files, inbox, sent, call, failed>>

(* The client goes away.  Requests already decoded are still handled.      *)
ClientCloses ==
    /\ channel # "closed"
    /\ channel' = "closed" /\ out' = <<>>
    /\ UNCHANGED <<files, inbox, sent, call, got, failed>>

Next ==
    \/ Send \/ Touch
    \/ ChannelRead \/ UriSyntax \/ Finish \/ IoError \/ ExceptionCaught
    \/ Flush \/ ClientCloses

Spec == Init /\ [][Next]_vars

(* The event loop handles what has been decoded and writes what has been   *)
(* answered.                                                               *)
Handle == ChannelRead \/ UriSyntax \/ Finish \/ IoError \/ ExceptionCaught

-----------------------------------------------------------------------------
Ids(answers) == [i \in DOMAIN answers |-> answers[i].id]

Unhandled == ToSet(Ids(inbox)) \cup {call.id}

(* channelRead, exceptionCaught: a client matches answers with requests by *)
(* their order alone.  The k-th answer belongs to the k-th request as long *)
(* as no handler was left by an exception; from then on every answer is    *)
(* matched with a request as many places too early as exceptions went      *)
(* before it.                                                              *)
MatchedByOrder ==
    \A i \in 1 .. Len(got \o out) :
        LET id == (got \o out)[i].id
        IN  id = i + Cardinality({f \in failed : f < id})

(* While the client stays and every connection is kept alive, a request is *)
(* waiting, answered or failed, and only one of these.                     *)
NothingForgotten ==
    channel = "open" =>
        LET answered == ToSet(Ids(got)) \cup ToSet(Ids(out))
        IN  /\ (Unhandled \ {0}) \cup answered \cup failed = 1 .. sent
            /\ (Unhandled \cap answered) = {} /\ answered \cap failed = {}

(* Both hold of every run of channelRead, exceptionCaught and the writes.  *)
AnswersMatched == MatchedByOrder /\ NothingForgotten

(* Every request that was decoded is handled, also after the channel has   *)
(* been closed (so a session may move on for a player that is gone).       *)
AllHandled == \A n \in 1 .. MaxRequests : n \in Unhandled ~> n \notin Unhandled
=============================================================================
