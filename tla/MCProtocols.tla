---------------------------- MODULE MCProtocols -----------------------------

(***************************************************************************)
(* The protocols beside HTTP/1: HTTP/2 with its header tables, priorities, *)
(* request bodies and output, the TCP and UDP proxy, the resolver and the  *)
(* mail proxy.                                                             *)
(***************************************************************************)

EXTENDS Integers

CONSTANTS TableSize, Overhead, Grow, NameLens, ValueLens, Sizes, MaxFields,
    MaxUpdates, Sids, MaxClosed, CountMod, Concurrent, Total, Streams,
    Bodies, FrameSize, InitWindow, OutMaxWindow, Updates, InitWindows, Ctxs,
    NoName, Valid, Expire, Resend, MaxRecursion, MaxSrvs, Priorities,
    MaxAddrs, PastLogin, MaxCmds, MaxWaits

VARIABLES part, s, now, srvs, st, count, state, addrs, conf, sent, input,
    fed, m, out

V2A == INSTANCE Http2 WITH
    Weights <- {1}, Modes <- {"unbuffered","memory"}, Preread <- 2,
    BodyBuffers <- {3,5}, BodyMaxWindow <- 12, Paddings <- {0},
    FinAlone <- FALSE, ConnWindow <- 2, Room <- 4, MaxFrames <- 2,
    Trailers <- FALSE

V2B == INSTANCE Http2 WITH
    Weights <- {1}, Modes <- {"sync"}, Preread <- 2, BodyBuffers <- {3},
    BodyMaxWindow <- 8, Paddings <- {0,1,2}, FinAlone <- TRUE,
    ConnWindow <- 3, Room <- 4, MaxFrames <- 1, Trailers <- TRUE

TcpProxy == INSTANCE StreamProxy WITH
    Udp <- FALSE, Resolve <- TRUE, Ssl <- FALSE, Header <- TRUE,
    Preread <- 1, MaxC <- 1, MaxP <- 2, Buf <- 2, Up <- 0, Down <- 0,
    Responses <- 9, Tries <- 2,
    Connects <- {"ok","again","declined","busy","error"}, SendFails <- FALSE,
    MaxTime <- 0

TlsProxy == INSTANCE StreamProxy WITH
    Udp <- FALSE, Resolve <- FALSE, Ssl <- TRUE, Header <- TRUE,
    Preread <- 1, MaxC <- 1, MaxP <- 1, Buf <- 1, Up <- 0, Down <- 0,
    Responses <- 9, Tries <- 2,
    Connects <- {"ok","again","declined","busy","error"}, SendFails <- TRUE,
    MaxTime <- 0

RateProxy == INSTANCE StreamProxy WITH
    Udp <- FALSE, Resolve <- FALSE, Ssl <- FALSE, Header <- FALSE,
    Preread <- 0, MaxC <- 1, MaxP <- 2, Buf <- 2, Up <- 1, Down <- 1,
    Responses <- 9, Tries <- 1, Connects <- {"ok","again"},
    SendFails <- FALSE, MaxTime <- 2

UdpProxy == INSTANCE StreamProxy WITH
    Udp <- TRUE, Resolve <- TRUE, Ssl <- FALSE, Header <- TRUE, Preread <- 0,
    MaxC <- 0, MaxP <- 3, Buf <- 2, Up <- 0, Down <- 0, Responses <- 2,
    Tries <- 3, Connects <- {"ok","again","declined","busy","error"},
    SendFails <- TRUE, MaxTime <- 0

UdpSessions == INSTANCE StreamProxy WITH
    Udp <- TRUE, Resolve <- FALSE, Ssl <- FALSE, Header <- FALSE,
    Preread <- 0, MaxC <- 0, MaxP <- 3, Buf <- 2, Up <- 0, Down <- 1,
    Responses <- 9, Tries <- 2,
    Connects <- {"ok","again","declined","busy","error"}, SendFails <- FALSE,
    MaxTime <- 3

DnsA == INSTANCE Resolver WITH
    Names <- {"a"}, IPv6 <- TRUE, Timeout <- 2, MaxTime <- 5,
    Weights <- {0, 2}

DnsB == INSTANCE Resolver WITH
    Names <- {"a", "b"}, IPv6 <- FALSE, Timeout <- 2, MaxTime <- 4,
    Weights <- {0, 2}

Pop3 == INSTANCE Mail WITH
    SessionProto <- "pop3",
    Cmds <- {"USER","PASS","APOP","AUTHL","AUTHC","line","bad","STARTTLS","HELLO"},
    Starttls <- {"off","only"}, Methods <- {{},{"apop","cram"}},
    Answers <- {"fail","failsleep","wait1","ok","okpass","noserver"},
    Delays <- {FALSE}, Resolvers <- {FALSE}, Verifies <- {FALSE},
    Xclients <- {FALSE}, PassErrors <- {FALSE}, Flushes <- {TRUE},
    Pipelining <- FALSE, ParseProto <- {}, Lines <- {}, MaxLines <- {},
    MaxArgs <- {}, Size <- {}, UntilInvalid <- {}

Imap == INSTANCE Mail WITH
    SessionProto <- "imap",
    Cmds <- {"LOGIN","AUTHLU","AUTHP0","AUTHX","line","CAPA","STARTTLS","HELLO","HELLONC"},
    Starttls <- {"on","only"}, Methods <- {{},{"external"}},
    Answers <- {"fail","failsleep","ok","bad"}, Delays <- {FALSE},
    Resolvers <- {FALSE}, Verifies <- {FALSE,TRUE}, Xclients <- {FALSE},
    PassErrors <- {TRUE}, Flushes <- {TRUE}, Pipelining <- TRUE,
    ParseProto <- {}, Lines <- {}, MaxLines <- {}, MaxArgs <- {}, Size <- {},
    UntilInvalid <- {}

Smtp == INSTANCE Mail WITH
    SessionProto <- "smtp",
    Cmds <- {"EHLO","AUTHP","AUTHL","line","NOOP","QUIT","STARTTLS","HELLO"},
    Starttls <- {"on","only"}, Methods <- {{}},
    Answers <- {"fail","failsleep","ok"}, Delays <- {FALSE},
    Xclients <- {FALSE}, Resolvers <- {FALSE}, Verifies <- {FALSE},
    PassErrors <- {FALSE}, Flushes <- {FALSE,TRUE}, Pipelining <- TRUE,
    ParseProto <- {}, Lines <- {}, MaxLines <- {}, MaxArgs <- {}, Size <- {},
    UntilInvalid <- {}

SmtpWithoutAuth == INSTANCE Mail WITH
    SessionProto <- "smtp", Cmds <- {"EHLO","MAIL","RCPT","RSET","AUTHP"},
    Starttls <- {"off"}, Methods <- {{},{"none"}},
    Answers <- {"failsleep","ok"}, Delays <- {FALSE,TRUE},
    Resolvers <- {TRUE}, Verifies <- {FALSE}, PassErrors <- {FALSE},
    Xclients <- {FALSE,TRUE}, Flushes <- {TRUE}, Pipelining <- TRUE,
    ParseProto <- {}, Lines <- {}, MaxLines <- {}, MaxArgs <- {}, Size <- {},
    UntilInvalid <- {}

servicesVars == <<srvs, st, count, state, addrs>>

NoServices == srvs = 0 /\ st = 0 /\ count = 0 /\ state = 0 /\ addrs = 0

pop3Vars == <<conf, sent>>

NoPop3 == conf = 0 /\ sent = 0

restVars == <<input, fed, m, out>>

NoRest == input = 0 /\ fed = 0 /\ m = 0 /\ out = 0

vars == <<part, s, now, servicesVars, pop3Vars, restVars>>

-----------------------------------------------------------------------------

Init ==
    \/ /\ \/ part = "hpack" /\ V2A!HpackInit
          \/ part = "priorities" /\ V2A!PrioInit
          \/ part = "request body" /\ V2A!BodyInit
          \/ part = "request body in file" /\ V2B!BodyInit
          \/ part = "output" /\ V2A!OutInit
          \/ part = "output with trailers" /\ V2B!OutInit
          \/ part = "tcp" /\ TcpProxy!Init
          \/ part = "tls" /\ TlsProxy!Init
          \/ part = "rate" /\ RateProxy!Init
          \/ part = "udp" /\ UdpProxy!Init
          \/ part = "udp sessions" /\ UdpSessions!Init
       /\ now = 0 /\ NoServices /\ NoPop3 /\ NoRest
    \/ /\ \/ part = "addresses" /\ DnsA!NameInit
          \/ part = "aliases" /\ DnsB!NameInit
       /\ NoServices /\ NoPop3 /\ NoRest
    \/ /\ part = "services" /\ DnsA!SrvInit
       /\ s = 0 /\ now = 0 /\ NoPop3 /\ NoRest
    \/ /\ \/ part = "pop3" /\ Pop3!SessionInit
          \/ part = "imap" /\ Imap!SessionInit
          \/ part = "smtp" /\ Smtp!SessionInit
          \/ part = "smtp without auth" /\ SmtpWithoutAuth!SessionInit
       /\ now = 0 /\ NoServices /\ NoRest

Next ==
    \/ /\ \/ part = "hpack" /\ V2A!HpackNext
          \/ part = "priorities" /\ V2A!PrioNext
          \/ part = "request body" /\ V2A!BodyNext
          \/ part = "request body in file" /\ V2B!BodyNext
          \/ part = "output" /\ V2A!OutNext
          \/ part = "output with trailers" /\ V2B!OutNext
          \/ part = "tcp" /\ TcpProxy!Next
          \/ part = "tls" /\ TlsProxy!Next
          \/ part = "rate" /\ RateProxy!Next
          \/ part = "udp" /\ UdpProxy!Next
          \/ part = "udp sessions" /\ UdpSessions!Next
       /\ UNCHANGED <<part, now, servicesVars, pop3Vars, restVars>>
    \/ /\ \/ part = "addresses" /\ DnsA!NameNext
          \/ part = "aliases" /\ DnsB!NameNext
       /\ UNCHANGED <<part, servicesVars, pop3Vars, restVars>>
    \/ /\ part = "services" /\ DnsA!SrvNext
       /\ UNCHANGED <<part, s, now, pop3Vars, restVars>>
    \/ /\ \/ part = "pop3" /\ Pop3!SessionNext
          \/ part = "imap" /\ Imap!SessionNext
          \/ part = "smtp" /\ Smtp!SessionNext
          \/ part = "smtp without auth" /\ SmtpWithoutAuth!SessionNext
       /\ UNCHANGED <<part, now, servicesVars, restVars>>

Spec == Init /\ [][Next]_vars

-----------------------------------------------------------------------------

(* Every index a client may use means the same field to nginx; the nodes   *)
(* of the priorities are a tree with exact ranks and a bounded, exact      *)
(* queue of closed ones; the body of a request reaches the upstream byte   *)
(* for byte, with a window that always fits where it is kept and opens     *)
(* again. Streams count their queued frames and are not freed before these *)
(* have left; each byte the client granted is in the window, queued or     *)
(* sent, also after streams are reset; frames of a response stay in order  *)
(* with END_STREAM on the last; no response stops for nothing, and the     *)
(* connection ends once, after its streams (ngx_http_v2_table.c,           *)
(* ngx_http_v2.c, ngx_http_v2_filter_module.c).                            *)
Http2Faithful ==
    /\ part = "hpack" => V2A!TablesAgree /\ V2A!RingExact
    /\ part = "priorities" =>
          /\ V2A!RanksExact /\ V2A!ClosedExact /\ V2A!NodesBounded
    /\ part = "request body" =>
          /\ V2A!BodyExact /\ V2A!WindowFits /\ V2A!NotStarved
    /\ part = "request body in file" => V2B!BodyExact
    /\ part = "output" =>
          /\ V2A!QueuedExact /\ V2A!WindowExact /\ V2A!InOrder
          /\ V2A!NotStuck /\ V2A!ConnectionEnds
    /\ part = "output with trailers" => V2B!QueuedExact /\ V2B!InOrder

(* Each server of a TCP or UDP session gets the PROXY header once and      *)
(* first and then the client's bytes in order, the client gets the         *)
(* server's; a close is passed on behind the data; no event is lost        *)
(* between connection, full buffer and rate limits; and servers are given  *)
(* back (ngx_stream_proxy_module.c).                                       *)
StreamFaithful ==
    /\ part = "tcp" =>
          /\ TcpProxy!UpInOrder /\ TcpProxy!DownInOrder
          /\ TcpProxy!EofDelivers /\ TcpProxy!NotStalled
          /\ TcpProxy!TimerSet /\ TcpProxy!Released
    /\ part = "tls" =>
          /\ TlsProxy!UpInOrder /\ TlsProxy!TimerSet /\ TlsProxy!Released
    /\ part = "udp" =>
          /\ UdpProxy!UpInOrder /\ UdpProxy!DownInOrder
          /\ UdpProxy!TimerSet /\ UdpProxy!Released
          /\ UdpProxy!ResponsesKept
    /\ part = "rate" =>
          /\ RateProxy!DownInOrder /\ RateProxy!NotStalled
          /\ RateProxy!TimerSet /\ RateProxy!RateKept
    /\ part = "udp sessions" =>
          /\ UdpSessions!DownInOrder /\ UdpSessions!NotStalled

(* A waiting request is on the list of its node and of no other, has its   *)
(* timer, and its handler is called once even if answer, timeout, expiry   *)
(* and cancel meet; nodes are in one queue, in the order they come due; a  *)
(* query is sent again while it is outstanding; and a service reports      *)
(* every address once, by priority (ngx_resolver.c).                       *)
ResolverSound ==
    /\ part = "addresses" =>
          /\ DnsA!QueuesAreExact /\ DnsA!WaitersAreExact
          /\ DnsA!NodeOutlivesHandlers
    /\ part = "aliases" =>
          /\ DnsB!QueuesAreExact /\ DnsB!WaitersAreExact
          /\ DnsB!EveryWaiterIsTimed /\ DnsB!HandlerOnce
          /\ DnsB!ResendIsArmed
    /\ part = "services" => DnsA!CountIsExact /\ DnsA!EveryAddressOnce

(* Each line is answered once and in order; the login and the password of  *)
(* a request to the authentication server belong to one attempt, by an     *)
(* enabled method, and under "starttls only" never before TLS; no line     *)
(* from before the handshake is executed after it; waits are timed         *)
(* (ngx_mail_*_handler.c, ngx_mail_auth_http_module.c,                     *)
(* ngx_mail_proxy_module.c).                                               *)
MailSound ==
    /\ part = "pop3" =>
          /\ Pop3!Answered /\ Pop3!StarttlsOnly /\ Pop3!OneAttempt
          /\ Pop3!MethodEnabled /\ Pop3!OkProceeds /\ Pop3!TimeoutTrue
          /\ Pop3!TimerSet
    /\ part = "smtp" =>
          /\ Smtp!Answered /\ Smtp!StarttlsOnly /\ Smtp!OneAttempt
          /\ Smtp!TimeoutTrue /\ Smtp!TimerSet /\ Smtp!TlsClean
          /\ Smtp!InOrder
    /\ part = "smtp without auth" =>
          /\ SmtpWithoutAuth!Answered /\ SmtpWithoutAuth!MethodEnabled
          /\ SmtpWithoutAuth!TimerSet
    /\ part = "imap" =>
          /\ Imap!StarttlsOnly /\ Imap!OneAttempt /\ Imap!TimerSet
          /\ Imap!TlsClean

=============================================================================
