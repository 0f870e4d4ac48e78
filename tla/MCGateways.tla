----------------------------- MODULE MCGateways -----------------------------

(***************************************************************************)
(* The gateways to upstream servers: the requests and the responses of     *)
(* FastCGI, the responses of proxy, uwsgi and scgi, the merging of their   *)
(* configurations, and the commands the mail proxy reads.                  *)
(***************************************************************************)

EXTENDS Integers

CONSTANTS PassBody, Split, MaxArgs, UntilInvalid

VARIABLES part, s, stream, want, f, u, input, fed, m, out, conf, sent

FastcgiA == INSTANCE Fastcgi WITH
    KeyLens <- {1,122,127}, ValLens <- {0,127,128,300}, NParams <- 2,
    NHeaders <- 1, Sizes <- {1}, NPieces <- 0, RecMax <- 3, MaxBufs <- 0,
    Unbuffered <- FALSE, PassHeaders <- TRUE, Texts <- {"short","status"},
    RespPads <- {0, 2}, Errs <- {0,2}, Chunks <- {1, 9, 60}, Size <- 120,
    HS <- 0, KeepConn <- TRUE, Mode <- "buffered", Tails <- {0,1},
    PipeSize <- 16, Catch <- 0

FastcgiB == INSTANCE Fastcgi WITH
    KeyLens <- {1}, ValLens <- {0,3}, NParams <- 1, NHeaders <- 1,
    Sizes <- {1,3,4,7,8,9}, NPieces <- 3, RecMax <- 4, MaxBufs <- 0,
    Unbuffered <- FALSE, PassHeaders <- FALSE, Texts <- {"lines","moved"},
    RespPads <- {0,2}, Errs <- {0,2}, Chunks <- {3,9,60}, Size <- 120,
    KeepConn <- FALSE, Mode <- "unbuffered", Tails <- {0,1}, Catch <- 0,
    PipeSize <- 16, HS <- 0

FastcgiC == INSTANCE Fastcgi WITH
    KeyLens <- {1}, ValLens <- {0}, NParams <- 0, NHeaders <- 0,
    Sizes <- {1, 8, 10}, NPieces <- 2, RecMax <- 8, Unbuffered <- TRUE,
    PassHeaders <- TRUE, MaxBufs <- 5, Texts <- {"short"}, RespPads <- {0,2},
    Errs <- {0,2}, Chunks <- {1,9,17,60}, Size <- 120, KeepConn <- FALSE,
    Mode <- "memory", Tails <- {0}, Catch <- 0, PipeSize <- 16, HS <- 0

FastcgiD == INSTANCE Fastcgi WITH
    KeyLens <- {1}, ValLens <- {0}, NParams <- 0, NHeaders <- 0,
    Sizes <- {1, 8, 10}, NPieces <- 2, RecMax <- 8, Unbuffered <- TRUE,
    PassHeaders <- TRUE, MaxBufs <- 5, Texts <- {"lines"}, RespPads <- {0,1},
    Errs <- {0,1,3}, Chunks <- {2, 24, 60}, Size <- 120, KeepConn <- FALSE,
    Mode <- "buffered", Tails <- {0}, Catch <- 1, PipeSize <- 16, HS <- 0

FastcgiE == INSTANCE Fastcgi WITH
    KeyLens <- {1}, ValLens <- {0}, NParams <- 0, NHeaders <- 0,
    Sizes <- {1, 8, 10}, NPieces <- 2, RecMax <- 8, Unbuffered <- TRUE,
    PassHeaders <- TRUE, MaxBufs <- 5, Texts <- {"short"}, RespPads <- {0,3},
    Errs <- {0, 20, 60}, Chunks <- {1, 9, 30}, Size <- 48, KeepConn <- FALSE,
    Mode <- "buffered", Tails <- {0}, Catch <- 0, PipeSize <- 16, HS <- 4

ProxyBuffered == INSTANCE ProxyResponse WITH
    Gateway <- "proxy", Mode <- "buffered", Size <- 16, PipeSize <- 3,
    Chunks <- {1,2,3,16}, Bodies <- {"length","chunked","close","none"},
    Crs <- {FALSE,TRUE}

ProxyUnbuffered == INSTANCE ProxyResponse WITH
    Gateway <- "proxy", Mode <- "unbuffered", Size <- 20, PipeSize <- 3,
    Chunks <- {1,2,3,16}, Bodies <- {"length","chunked","close","none"},
    Crs <- {FALSE,TRUE}

ProxyMemory == INSTANCE ProxyResponse WITH
    Gateway <- "proxy", Mode <- "memory", Size <- 24, PipeSize <- 3,
    Chunks <- {1,2,3,5}, Bodies <- {"length","chunked","close","none"},
    Crs <- {FALSE}

Uwsgi == INSTANCE ProxyResponse WITH
    Gateway <- "uwsgi", Mode <- "buffered", Size <- 30, PipeSize <- 2,
    Chunks <- {1,2,3,16}, Bodies <- {"cgi"}, Crs <- {FALSE,TRUE}

Scgi == INSTANCE ProxyResponse WITH
    Gateway <- "scgi", Mode <- "unbuffered", Size <- 30, PipeSize <- 2,
    Chunks <- {1,2,3,16}, Bodies <- {"cgi"}, Crs <- {FALSE,TRUE}

Store == INSTANCE GatewayConf WITH
    Gateway <- "uwsgi", Shape <- "nested", Facet <- "store", MaxTotal <- 3

Sizes == INSTANCE GatewayConf WITH
    Gateway <- "scgi", Shape <- "nested", Facet <- "bufs", MaxTotal <- 2

Masks == INSTANCE GatewayConf WITH
    Gateway <- "proxy", Shape <- "nested", Facet <- "masks", MaxTotal <- 3

Params == INSTANCE GatewayConf WITH
    Gateway <- "fastcgi", Shape <- "siblings", Facet <- "params",
    MaxTotal <- 3

SetHeaders == INSTANCE GatewayConf WITH
    Gateway <- "proxy", Shape <- "siblings", Facet <- "params",
    MaxTotal <- 3

Hide == INSTANCE GatewayConf WITH
    Gateway <- "proxy", Shape <- "siblings", Facet <- "hide", MaxTotal <- 3

PassInIf == INSTANCE GatewayConf WITH
    Gateway <- "uwsgi", Shape <- "if", Facet <- "pass", MaxTotal <- 3

PassInLimit == INSTANCE GatewayConf WITH
    Gateway <- "proxy", Shape <- "limit", Facet <- "pass", MaxTotal <- 3

Pop3Command == INSTANCE Mail WITH
    ParseProto <- "pop3",
    Lines <- {"noop","noopLF","spaced","user2","wide","many","rest","auth","auth0","auth2","data","word","digit","crx"},
    MaxLines <- 3, Size <- 11, SessionProto <- {}, Cmds <- {},
    Starttls <- {}, Methods <- {}, Answers <- {}, Delays <- {},
    Resolvers <- {}, Verifies <- {}, Xclients <- {}, PassErrors <- {},
    Flushes <- {}, Pipelining <- {}, PastLogin <- {}, MaxCmds <- {},
    MaxWaits <- {}

ImapCommand == INSTANCE Mail WITH
    ParseProto <- "imap",
    Lines <- {"tnoop","tspaces","tlogin","tquoted","tescaped","tempty","tliteral","tnosync","tauth","data","tnone","tword","tbroken"},
    MaxLines <- 2, Size <- 20, SessionProto <- {}, Cmds <- {},
    Starttls <- {}, Methods <- {}, Answers <- {}, Delays <- {},
    Resolvers <- {}, Verifies <- {}, Xclients <- {}, PassErrors <- {},
    Flushes <- {}, Pipelining <- {}, PastLogin <- {}, MaxCmds <- {},
    MaxWaits <- {}

SmtpCommand == INSTANCE Mail WITH
    ParseProto <- "smtp",
    Lines <- {"noopLF","user2","many","auth","auth0","auth2","data","word","digit","crx"},
    MaxLines <- 3, Size <- 40, SessionProto <- {}, Cmds <- {},
    Starttls <- {}, Methods <- {}, Answers <- {}, Delays <- {},
    Resolvers <- {}, Verifies <- {}, Xclients <- {}, PassErrors <- {},
    Flushes <- {}, Pipelining <- {}, PastLogin <- {}, MaxCmds <- {},
    MaxWaits <- {}

sharedVars == <<stream, want, u>>

NoShared == stream = 0 /\ want = 0 /\ u = 0

pop3CommandVars == <<input, fed, m, out>>

NoPop3Command == input = 0 /\ fed = 0 /\ m = 0 /\ out = 0

restVars == <<conf, sent>>

NoRest == conf = 0 /\ sent = 0

vars == <<part, s, sharedVars, f, pop3CommandVars, restVars>>

-----------------------------------------------------------------------------

Init ==
    \/ /\ \/ part = "fastcgi params" /\ FastcgiA!ReqInit
          \/ part = "fastcgi buffered body" /\ FastcgiB!ReqInit
          \/ part = "fastcgi unbuffered body" /\ FastcgiC!ReqInit
          \/ part = "store" /\ Store!Init
          \/ part = "sizes" /\ Sizes!Init
          \/ part = "masks" /\ Masks!Init
          \/ part = "params" /\ Params!Init
          \/ part = "set headers" /\ SetHeaders!Init
          \/ part = "hide" /\ Hide!Init
          \/ part = "pass in if" /\ PassInIf!Init
          \/ part = "pass in limit" /\ PassInLimit!Init
       /\ NoShared /\ f = 0 /\ NoPop3Command /\ NoRest
    \/ /\ \/ part = "fastcgi keep" /\ FastcgiA!RespInit
          \/ part = "fastcgi unbuffered" /\ FastcgiB!RespInit
          \/ part = "fastcgi memory" /\ FastcgiC!RespInit
          \/ part = "fastcgi catch" /\ FastcgiD!RespInit
          \/ part = "fastcgi cache" /\ FastcgiE!RespInit
       /\ s = 0 /\ NoPop3Command /\ NoRest
    \/ /\ \/ part = "proxy buffered" /\ ProxyBuffered!Init
          \/ part = "proxy unbuffered" /\ ProxyUnbuffered!Init
          \/ part = "proxy memory" /\ ProxyMemory!Init
          \/ part = "uwsgi" /\ Uwsgi!Init
          \/ part = "scgi" /\ Scgi!Init
       /\ s = 0 /\ f = 0 /\ NoPop3Command /\ NoRest
    \/ /\ \/ part = "pop3 command" /\ Pop3Command!ParseInit
          \/ part = "imap command" /\ ImapCommand!ParseInit
          \/ part = "smtp command" /\ SmtpCommand!ParseInit
       /\ s = 0 /\ NoShared /\ f = 0 /\ NoRest

Next ==
    \/ /\ \/ part = "fastcgi params" /\ FastcgiA!ReqNext
          \/ part = "fastcgi buffered body" /\ FastcgiB!ReqNext
          \/ part = "fastcgi unbuffered body" /\ FastcgiC!ReqNext
          \/ part = "store" /\ Store!Next
          \/ part = "sizes" /\ Sizes!Next
          \/ part = "masks" /\ Masks!Next
          \/ part = "params" /\ Params!Next
          \/ part = "set headers" /\ SetHeaders!Next
          \/ part = "hide" /\ Hide!Next
          \/ part = "pass in if" /\ PassInIf!Next
          \/ part = "pass in limit" /\ PassInLimit!Next
       /\ UNCHANGED <<part, sharedVars, f, pop3CommandVars, restVars>>
    \/ /\ \/ part = "fastcgi keep" /\ FastcgiA!RespNext
          \/ part = "fastcgi unbuffered" /\ FastcgiB!RespNext
          \/ part = "fastcgi memory" /\ FastcgiC!RespNext
          \/ part = "fastcgi catch" /\ FastcgiD!RespNext
          \/ part = "fastcgi cache" /\ FastcgiE!RespNext
       /\ UNCHANGED <<part, s, pop3CommandVars, restVars>>
    \/ /\ \/ part = "proxy buffered" /\ ProxyBuffered!Next
          \/ part = "proxy unbuffered" /\ ProxyUnbuffered!Next
          \/ part = "proxy memory" /\ ProxyMemory!Next
          \/ part = "uwsgi" /\ Uwsgi!Next
          \/ part = "scgi" /\ Scgi!Next
       /\ UNCHANGED <<part, s, f, pop3CommandVars, restVars>>
    \/ /\ \/ part = "pop3 command" /\ Pop3Command!ParseNext
          \/ part = "imap command" /\ ImapCommand!ParseNext
          \/ part = "smtp command" /\ SmtpCommand!ParseNext
       /\ UNCHANGED <<part, s, sharedVars, f, restVars>>

Spec == Init /\ [][Next]_vars

-----------------------------------------------------------------------------

(* A FastCGI server gets the parameters configured and the body in order,  *)
(* in records of the length they say, and a piece of the body is marked as *)
(* sent only when it has been; what is passed on is the header and the     *)
(* body the server wrote, however records and reads cut them and whatever  *)
(* error output comes between, and a cached one can be parsed again; a     *)
(* connection is kept exactly when the response was read to its last byte  *)
(* and no further (ngx_http_fastcgi_module.c).                             *)
FastcgiFaithful ==
    /\ part = "fastcgi params" => FastcgiA!ParamsExact /\ FastcgiA!RoomKept
    /\ part = "fastcgi buffered body" =>
          /\ FastcgiB!RoomKept /\ FastcgiB!BufferedExact
    /\ part = "fastcgi unbuffered body" =>
          /\ FastcgiC!RecordsExact /\ FastcgiC!MarkedSent
          /\ FastcgiC!NoZeroSize /\ FastcgiC!RoomForHeader
    /\ part = "fastcgi keep" =>
          /\ FastcgiA!HeaderExact /\ FastcgiA!BodyExact
          /\ FastcgiA!KeepExact /\ FastcgiA!ReadsOn
          /\ FastcgiA!InvalidTrue
    /\ part = "fastcgi unbuffered" =>
          /\ FastcgiB!HeaderExact /\ FastcgiB!BodyExact
          /\ FastcgiB!KeepExact
    /\ part = "fastcgi cache" =>
          /\ FastcgiE!HeaderExact /\ FastcgiE!CacheReadable
    /\ part = "fastcgi memory" => FastcgiC!BodyExact /\ FastcgiC!Continuous
    /\ part = "fastcgi catch" => FastcgiD!BodyExact /\ FastcgiD!CatchExact

(* However the response of a proxied, uwsgi or scgi server is cut into     *)
(* reads, its status, length and encoding are those it sent; what is       *)
(* passed on is the body from its start, all of it when the request ends   *)
(* well; the cache keeps a whole body or none; the connection is kept      *)
(* exactly when the response was read to its last byte and the server      *)
(* keeps it; and the pipe never waits for more than the response still     *)
(* has. However the lines of a mail client are cut, the commands handed    *)
(* over are those of the lines (ngx_http_proxy_module.c,                   *)
(* ngx_http_uwsgi_module.c, ngx_http_scgi_module.c, ngx_mail_parse.c).     *)
ProxyFaithful ==
    /\ part = "proxy buffered" =>
          /\ ProxyBuffered!HeaderExact /\ ProxyBuffered!BodyExact
          /\ ProxyBuffered!CacheExact /\ ProxyBuffered!KeepExact
          /\ ProxyBuffered!Minimal
    /\ part = "proxy unbuffered" =>
          /\ ProxyUnbuffered!HeaderExact /\ ProxyUnbuffered!BodyExact
          /\ ProxyUnbuffered!KeepExact
    /\ part = "uwsgi" =>
          /\ Uwsgi!HeaderExact /\ Uwsgi!BodyExact /\ Uwsgi!CacheExact
    /\ part = "scgi" => Scgi!HeaderExact /\ Scgi!BodyExact
    /\ part = "proxy memory" =>
          /\ ProxyMemory!BodyExact /\ ProxyMemory!KeepExact
          /\ ProxyMemory!Continuous
    /\ part = "pop3 command" =>
          /\ Pop3Command!AsWritten /\ Pop3Command!AllHandedOver
          /\ Pop3Command!TooLongTrue
    /\ part = "imap command" =>
          /\ ImapCommand!AsWritten /\ ImapCommand!AllHandedOver
    /\ part = "smtp command" =>
          /\ SmtpCommand!AsWritten /\ SmtpCommand!AllHandedOver

(* At every level of the configuration the gateways do what the nearest    *)
(* level says that has a word in it: store or cache but never both,        *)
(* buffers that fit together or a refusal, next_upstream and use_stale,    *)
(* parameters and headers with their defaults, hidden headers, and the     *)
(* address of nameless blocks; code shared between http{} and its servers  *)
(* hands no server the lines of another (the merge_loc_conf functions).    *)
ConfMerged ==
    /\ part = "store" => Store!StoreOrCache
    /\ part = "sizes" => Sizes!SizesExact
    /\ part = "masks" => Masks!MasksExact
    /\ part = "params" => Params!ParamsExact
    /\ part = "set headers" => SetHeaders!ParamsExact
    /\ part = "hide" => Hide!HideExact
    /\ part = "pass in if" => PassInIf!PassExact
    /\ part = "pass in limit" => PassInLimit!PassExact

=============================================================================
