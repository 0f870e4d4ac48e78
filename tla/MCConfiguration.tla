-------------------------- MODULE MCConfiguration ---------------------------

(***************************************************************************)
(* What the configuration is compiled into and what it then does:          *)
(* listening addresses, server names and locations, log formats and logs,  *)
(* script values, rewrite rules, variables and maps, and geo blocks.       *)
(***************************************************************************)

EXTENDS Integers, Sequences, SequencesExt

CONSTANTS MaxValue, FormatChars, MaxReopen, StackSize, ArgsOf, Depth,
    RangeValues, EditWhileRead, Preallocated, CidrValues, CidrMaxConf,
    MaxDeletes, Wild, Addresses, MaxListen, MaxServers, Workers, MaxNames,
    MaxSize, BucketSize

VARIABLES part, text, json, value, fmt, directives, lconf, lg, zero, prefix,
    sc, vreq, program, rewriteCodes, rreq, varLines, varConf, answers, vq,
    varSteps, broken, s, listenConf, ls, conn, phase, said, ha, nameConf,
    found, locConf

(* Server names of the labels "a" and "a-", one of which begins with the   *)
(* other: exact, with a leading wildcard, with both, with a trailing one.  *)
Labels == {<<97>>, <<97, 45>>}

DomainsOf(n) == UNION {[1..k -> Labels] : k \in 1..n}

Joined(d) == FlattenSeq([i \in DOMAIN d |-> IF i = 1 THEN d[i] ELSE <<46>> \o d[i]])

Written(f) == CASE f.form = "exact" -> Joined(f.dom)
                [] f.form = "head" -> <<42, 46>> \o Joined(f.dom)
                [] f.form = "both" -> <<46>> \o Joined(f.dom)
                [] OTHER -> Joined(f.dom) \o <<46, 42>>

Forms == LET all == [form: {"exact", "head"}, dom: DomainsOf(2)]
                        \cup [form: {"both", "tail"}, dom: DomainsOf(1)]
         IN [t \in {Written(f) : f \in all} |-> CHOOSE f \in all : Written(f) = t]

(* A host is written with or without a dot at the end, with or without a   *)
(* port, in lower case or with a capital.                                  *)
Asked(d) == LET t == Joined(d)
            IN {t, t \o <<46>>, [t EXCEPT ![1] = @ - 32] \o <<58, 56>>}

Domains == [t \in UNION {Asked(d) : d \in DomainsOf(3)} |->
              CHOOSE d \in DomainsOf(3) : t \in Asked(d)]

(* And hosts that are none: two dots in a row, a dot or a port alone.      *)
Malformed == {<<97, 46, 46, 97>>, <<46>>, <<58, 56>>}

OneLabel == {{Joined(d) : d \in DomainsOf(1)}}

(* Locations of '/' (47), '-' (45, below '/') and 'a' (97), and the URIs   *)
(* over them.                                                              *)
Flat == {<<47>>, <<47, 97>>, <<47, 97, 47>>, <<47, 97, 45>>, <<47, 45>>}
Few == {<<47>>, <<47, 97>>, <<47, 97, 47>>}
AllUris == {<<47>> \o t : t \in UNION {[1..n -> {45, 47, 97}] : n \in 0..2}}
               \cup {t \o <<97>> : t \in Flat}
SomeUris == {<<47>> \o t : t \in UNION {[1..n -> {47, 97}] : n \in 0..3}}

(* Variables: one of a module that changes, one that may be replaced, and  *)
(* a prefix; and four map blocks, two of them for the same variable and    *)
(* two of them in a cycle.                                                 *)
VarCore == <<[name |-> <<"c">>, flags |-> {"nocacheable"}],
             [name |-> <<"k">>, flags |-> {"changeable"}],
             [name |-> <<"arg">>, flags |-> {"prefix"}]>>

VarTexts == {<<"a">>, <<"b", "a">>, <<"b", "a", "">>}

VarUsed == {<<"c">>, <<"n">>, <<"m">>, <<"arg", "x">>, <<"u">>}

VarWritten == {<<"c">>, <<"k">>, <<"m">>, <<"arg", "x">>}

Plain(t) == [kind |-> "text", text |-> t]
OfVar(n) == [kind |-> "var", name |-> n]

MapLine(kind, t, v) == [kind |-> kind, text |-> t, value |-> v, capture |-> <<>>, matches |-> {}]
MapWord(kind) == MapLine(kind, <<>>, Plain(<<>>))
MapRegex(ts, name, v) == [MapLine("regex", <<>>, v) EXCEPT !.capture = name, !.matches = ts]

VarMaps ==
    { [name |-> <<"m">>, src |-> <<"c">>,
       lines |-> <<MapWord("volatile"), MapLine("default", <<>>, Plain(<<"b", "a">>)),
                   MapLine("exact", <<"a">>, OfVar(<<"n">>))>>],
      [name |-> <<"n">>, src |-> <<"c">>,
       lines |-> <<MapRegex({<<"a">>, <<"b", "a">>}, <<"p">>, OfVar(<<"p">>)),
                   MapRegex({<<"a">>}, <<>>, Plain(<<"x">>)), MapWord("hostnames"),
                   MapLine("head", <<"a">>, Plain(<<"h">>)), MapWord("volatile")>>],
      [name |-> <<"n">>, src |-> <<"m">>,
       lines |-> <<MapLine("head", <<"a">>, Plain(<<"h">>)), MapWord("volatile"),
                   MapLine("exact", <<>>, Plain(<<"b", "a">>)), MapLine("tail", <<"b">>, Plain(<<"a">>)),
                   MapLine("default", <<>>, OfVar(<<"k">>))>>],
      [name |-> <<"k">>, src |-> <<"arg", "x">>,
       lines |-> <<MapWord("hostnames"), MapLine("head", <<"a">>, Plain(<<"h">>)),
                   MapLine("tail", <<"b">>, Plain(<<"t">>)), MapLine("exact", <<"b", "a">>, OfVar(<<"m">>))>>] }

LogA == INSTANCE AccessLog WITH
    FormatModule <- "http", MaxFormat <- 5,
    ValueChars <- {34,92,10,31,120,200}, ConfModule <- "http",
    ConfFiles <- {"a","b"}, Formats <- {"combined","x"}, Cases <- {0},
    Buffers <- {0,1}, Flushes <- {0}, Gzips <- {0}, Caches <- {},
    MaxDirectives <- 3, LogModule <- "http", Kind <- "one", Sizes <- {1,2,4},
    Spare <- {0,1}, BufferSize <- 3, FlushTime <- 2, Minute <- 3,
    Disks <- {"ok"}, MaxRequests <- 4, MaxTime <- 7, MaxDisk <- 0

LogB == INSTANCE AccessLog WITH
    FormatModule <- "stream", MaxFormat <- 4,
    ValueChars <- {34,92,10,31,120,127}, ConfModule <- "http",
    ConfFiles <- {"a","b","$v"}, Formats <- {"combined"}, Cases <- {0},
    Buffers <- {0,1,2}, Flushes <- {0,1}, Gzips <- {0,1}, Caches <- {0,1},
    MaxDirectives <- 2, LogModule <- "http", Kind <- "shared",
    Sizes <- {1,2}, Spare <- {0}, BufferSize <- 3, FlushTime <- 0,
    Minute <- 2, Disks <- {"ok","full","short","error"}, MaxRequests <- 3,
    MaxTime <- 4, MaxDisk <- 1

LogC == INSTANCE AccessLog WITH
    FormatModule <- "stream", MaxFormat <- 4,
    ValueChars <- {34,92,10,31,120,127}, ConfModule <- "stream",
    ConfFiles <- {"a"}, Formats <- {"x"}, Cases <- {0}, Buffers <- {0},
    Flushes <- {0}, Gzips <- {0}, Caches <- {0,1,9}, MaxDirectives <- 4,
    LogModule <- "http", Kind <- "script", Sizes <- {1,2}, Spare <- {0},
    BufferSize <- 2, FlushTime <- 1, Minute <- 2,
    Disks <- {"ok","full","short","error"}, MaxRequests <- 3, MaxTime <- 5,
    MaxDisk <- 2

LogD == INSTANCE AccessLog WITH
    FormatModule <- "stream", MaxFormat <- 4,
    ValueChars <- {34,92,10,31,120,127}, ConfModule <- "stream",
    ConfFiles <- {"a","syslog"}, Formats <- {"x","y"}, Cases <- {0,1},
    Buffers <- {0,1,2}, Flushes <- {0}, Gzips <- {0}, Caches <- {},
    MaxDirectives <- 3, LogModule <- "stream", Kind <- "shared",
    Sizes <- {1,2,3}, Spare <- {0}, BufferSize <- 2, FlushTime <- 1,
    Minute <- 3, Disks <- {"ok","full"}, MaxRequests <- 3, MaxTime <- 4,
    MaxDisk <- 2

LogE == INSTANCE AccessLog WITH
    FormatModule <- "stream", MaxFormat <- 4,
    ValueChars <- {34,92,10,31,120,127}, ConfModule <- "stream",
    ConfFiles <- {"a","syslog"}, Formats <- {"x","y"}, Cases <- {0,1},
    Buffers <- {0,1,2}, Flushes <- {0}, Gzips <- {0}, Caches <- {},
    MaxDirectives <- 3, LogModule <- "stream", Kind <- "syslog",
    Sizes <- {1,2}, Spare <- {0}, BufferSize <- 0, FlushTime <- 0,
    Minute <- 1, Disks <- {"ok"}, MaxRequests <- 5, MaxTime <- 3,
    MaxDisk <- 5

ScriptA == INSTANCE Script WITH
    ValueModule <- "http", CompileArgs <- FALSE,
    Chars <- {36,123,125,97,49,47}, MaxText <- 4, Zeros <- {FALSE,TRUE},
    FileNames <- {FALSE,TRUE}, Rewrites <- {1,2,3,5}, RewriteSets <- {1,2,6},
    Ends <- {1}, Conds <- {1,3,4,5}, MaxItems <- 2, MaxBody <- 1,
    Level <- "location", Uris <- {1,2}, VarModule <- "http", Core <- VarCore,
    Used <- VarUsed, Assigned <- VarWritten, Maps <- VarMaps,
    Texts <- VarTexts, MaxDirectives <- 2, MaxSteps <- 3

ScriptB == INSTANCE Script WITH
    ValueModule <- "http", CompileArgs <- TRUE,
    Chars <- {36,123,125,97,49,63}, MaxText <- 5, Zeros <- {FALSE},
    FileNames <- {FALSE}, Rewrites <- {4,6,7,8}, RewriteSets <- {1,3,4,5},
    Ends <- {2,3,4}, Conds <- {2,6,7}, MaxItems <- 2, MaxBody <- 1,
    Level <- "server", Uris <- {1,3}, VarModule <- "stream", Core <- VarCore,
    Used <- VarUsed, Assigned <- VarWritten, Maps <- VarMaps,
    Texts <- VarTexts, MaxDirectives <- 3, MaxSteps <- 1

ScriptC == INSTANCE Script WITH
    ValueModule <- "stream", CompileArgs <- FALSE,
    Chars <- {36,123,125,97,49,47}, MaxText <- 4, Zeros <- {FALSE,TRUE},
    FileNames <- {FALSE,TRUE}, Rewrites <- {1}, RewriteSets <- {2},
    Ends <- {1}, Conds <- {1}, MaxItems <- 3, MaxBody <- 2,
    Level <- "location", Uris <- {1,3}, VarModule <- "stream",
    Core <- VarCore, Used <- VarUsed, Assigned <- VarWritten,
    Maps <- VarMaps, Texts <- VarTexts, MaxDirectives <- 3, MaxSteps <- 1

GeoA == INSTANCE Geo WITH
    Block <- 4, Blocks <- 2, Spots <- {0, 1, 3, 4, 5},
    Kinds <- {"add","delete","default"}, RangeMaxConf <- 3, MaxLoads <- 1,
    MaxTime <- 0, Texts <- {0}, Many <- 2, RangeStream <- FALSE, Width <- 3,
    CidrStream <- FALSE, Families <- {4}

GeoB == INSTANCE Geo WITH
    Block <- 3, Blocks <- 2, Spots <- {0,2,3},
    Kinds <- {"add","default","include"}, RangeMaxConf <- 2, MaxLoads <- 3,
    MaxTime <- 2, Many <- 1, RangeStream <- TRUE, Texts <- {1,2}, Width <- 2,
    CidrStream <- TRUE, Families <- {4,6}

ServersA == INSTANCE Servers WITH
    ListenKinds <- {"http"}, Ports <- {80}, FormOf <- Forms,
    DomainOf <- Domains, NoHosts <- Malformed, NameRegexes <- OneLabel,
    LocNames <- Flat, LocKinds <- {"", "=", "auto"}, LocRegexes <- {},
    Parents <- FALSE, MaxLoc <- 4, Uris <- AllUris

ServersB == INSTANCE Servers WITH
    ListenKinds <- {"stream", "mail"}, Ports <- {1}, FormOf <- Forms,
    DomainOf <- Domains, NoHosts <- Malformed, NameRegexes <- OneLabel,
    LocNames <- Few, LocKinds <- {"", "=", "^~", "~", "auto", "@", "noname"},
    LocRegexes <- {47, 97}, Parents <- TRUE, MaxLoc <- 3, Uris <- SomeUris

formatVars == <<json, value, fmt>>

NoFormat == json = 0 /\ value = 0 /\ fmt = 0

logConfVars == <<directives, lconf>>

NoLogConf == directives = 0 /\ lconf = 0

valueVars == <<zero, prefix, sc, vreq>>

NoValue == zero = 0 /\ prefix = 0 /\ sc = 0 /\ vreq = 0

rewriteInLocationVars == <<program, rewriteCodes, rreq>>

NoRewriteInLocation == program = 0 /\ rewriteCodes = 0 /\ rreq = 0

variablesVars == <<varLines, varConf, answers, vq, varSteps, broken>>

NoVariables == varLines = 0 /\ varConf = 0 /\ answers = 0 /\ vq = 0
               /\ varSteps = 0 /\ broken = 0

listenVars == <<listenConf, ls, conn>>

NoListen == listenConf = 0 /\ ls = 0 /\ conn = 0

namesVars == <<phase, said, ha, nameConf, found>>

NoNames == phase = 0 /\ said = 0 /\ ha = 0 /\ nameConf = 0 /\ found = 0

vars == <<part, text, formatVars, logConfVars, lg, valueVars, rewriteInLocationVars,
          variablesVars, s, listenVars, namesVars, locConf>>

-----------------------------------------------------------------------------

Init ==
    \/ /\ \/ part = "format" /\ LogA!FormatInit
          \/ part = "stream format" /\ LogB!FormatInit
       /\ NoLogConf /\ lg = 0 /\ NoValue /\ NoRewriteInLocation /\ NoVariables
       /\ s = 0 /\ NoListen /\ NoNames /\ locConf = 0
    \/ /\ \/ part = "log conf" /\ LogA!ConfInit
          \/ part = "log buffers" /\ LogB!ConfInit
          \/ part = "log cache" /\ LogC!ConfInit
          \/ part = "stream log conf" /\ LogD!ConfInit
       /\ text = 0 /\ NoFormat /\ lg = 0 /\ NoValue /\ NoRewriteInLocation
       /\ NoVariables /\ s = 0 /\ NoListen /\ NoNames /\ locConf = 0
    \/ /\ \/ part = "log" /\ LogA!LogInit
          \/ part = "failing log" /\ LogB!LogInit
          \/ part = "log by variable" /\ LogC!LogInit
          \/ part = "stream log" /\ LogD!LogInit
          \/ part = "syslog" /\ LogE!LogInit
       /\ text = 0 /\ NoFormat /\ NoLogConf /\ NoValue /\ NoRewriteInLocation
       /\ NoVariables /\ s = 0 /\ NoListen /\ NoNames /\ locConf = 0
    \/ /\ \/ part = "value" /\ ScriptA!ValueInit
          \/ part = "value with args" /\ ScriptB!ValueInit
          \/ part = "stream value" /\ ScriptC!ValueInit
       /\ NoFormat /\ NoLogConf /\ lg = 0 /\ NoRewriteInLocation /\ NoVariables
       /\ s = 0 /\ NoListen /\ NoNames /\ locConf = 0
    \/ /\ \/ part = "rewrite in location" /\ ScriptA!RewriteInit
          \/ part = "rewrite in server" /\ ScriptB!RewriteInit
          \/ part = "long rewrite" /\ ScriptC!RewriteInit
       /\ text = 0 /\ NoFormat /\ NoLogConf /\ lg = 0 /\ NoValue /\ NoVariables
       /\ s = 0 /\ NoListen /\ NoNames /\ locConf = 0
    \/ /\ \/ part = "variables" /\ ScriptA!VarInit
          \/ part = "stream variables" /\ ScriptB!VarInit
       /\ text = 0 /\ NoFormat /\ NoLogConf /\ lg = 0 /\ NoValue
       /\ NoRewriteInLocation /\ s = 0 /\ NoListen /\ NoNames /\ locConf = 0
    \/ /\ \/ part = "geo ranges" /\ GeoA!RangeInit
          \/ part = "geo base" /\ GeoB!RangeInit
          \/ part = "geo networks" /\ GeoA!CidrInit
          \/ part = "stream geo networks" /\ GeoB!CidrInit
       /\ text = 0 /\ NoFormat /\ NoLogConf /\ lg = 0 /\ NoValue
       /\ NoRewriteInLocation /\ NoVariables /\ NoListen /\ NoNames
       /\ locConf = 0
    \/ /\ \/ part = "listen" /\ ServersA!ListenInit
          \/ part = "stream listen" /\ ServersB!ListenInit
       /\ text = 0 /\ NoFormat /\ NoLogConf /\ lg = 0 /\ NoValue
       /\ NoRewriteInLocation /\ NoVariables /\ s = 0 /\ NoNames
       /\ locConf = 0
    \/ /\ part = "names" /\ ServersA!NameInit
       /\ text = 0 /\ NoFormat /\ NoLogConf /\ lg = 0 /\ NoValue
       /\ NoRewriteInLocation /\ NoVariables /\ s = 0 /\ NoListen
       /\ locConf = 0
    \/ /\ \/ part = "locations" /\ ServersA!LocInit
          \/ part = "nested locations" /\ ServersB!LocInit
       /\ text = 0 /\ NoFormat /\ NoLogConf /\ lg = 0 /\ NoValue
       /\ NoRewriteInLocation /\ NoVariables /\ s = 0 /\ NoListen /\ NoNames

Next ==
    \/ /\ \/ part = "format" /\ LogA!FormatNext
          \/ part = "stream format" /\ LogB!FormatNext
       /\ UNCHANGED <<part, logConfVars, lg, valueVars, rewriteInLocationVars, variablesVars, s,
                     listenVars, namesVars, locConf>>
    \/ /\ \/ part = "log conf" /\ LogA!ConfNext
          \/ part = "log buffers" /\ LogB!ConfNext
          \/ part = "log cache" /\ LogC!ConfNext
          \/ part = "stream log conf" /\ LogD!ConfNext
       /\ UNCHANGED <<part, text, formatVars, lg, valueVars, rewriteInLocationVars, variablesVars,
                     s, listenVars, namesVars, locConf>>
    \/ /\ \/ part = "log" /\ LogA!LogNext
          \/ part = "failing log" /\ LogB!LogNext
          \/ part = "log by variable" /\ LogC!LogNext
          \/ part = "stream log" /\ LogD!LogNext
          \/ part = "syslog" /\ LogE!LogNext
       /\ UNCHANGED <<part, text, formatVars, logConfVars, valueVars, rewriteInLocationVars,
                     variablesVars, s, listenVars, namesVars, locConf>>
    \/ /\ \/ part = "value" /\ ScriptA!ValueNext
          \/ part = "value with args" /\ ScriptB!ValueNext
          \/ part = "stream value" /\ ScriptC!ValueNext
       /\ UNCHANGED <<part, formatVars, logConfVars, lg, rewriteInLocationVars, variablesVars, s,
                     listenVars, namesVars, locConf>>
    \/ /\ \/ part = "rewrite in location" /\ ScriptA!RewriteNext
          \/ part = "rewrite in server" /\ ScriptB!RewriteNext
          \/ part = "long rewrite" /\ ScriptC!RewriteNext
       /\ UNCHANGED <<part, text, formatVars, logConfVars, lg, valueVars, variablesVars, s,
                     listenVars, namesVars, locConf>>
    \/ /\ \/ part = "variables" /\ ScriptA!VarNext
          \/ part = "stream variables" /\ ScriptB!VarNext
       /\ UNCHANGED <<part, text, formatVars, logConfVars, lg, valueVars, rewriteInLocationVars,
                     s, listenVars, namesVars, locConf>>
    \/ /\ \/ part = "geo ranges" /\ GeoA!RangeNext
          \/ part = "geo base" /\ GeoB!RangeNext
          \/ part = "geo networks" /\ GeoA!CidrNext
          \/ part = "stream geo networks" /\ GeoB!CidrNext
       /\ UNCHANGED <<part, text, formatVars, logConfVars, lg, valueVars, rewriteInLocationVars,
                     variablesVars, listenVars, namesVars, locConf>>
    \/ /\ \/ part = "listen" /\ ServersA!ListenNext
          \/ part = "stream listen" /\ ServersB!ListenNext
       /\ UNCHANGED <<part, text, formatVars, logConfVars, lg, valueVars, rewriteInLocationVars,
                     variablesVars, s, namesVars, locConf>>
    \/ /\ part = "names" /\ ServersA!NameNext
       /\ UNCHANGED <<part, text, formatVars, logConfVars, lg, valueVars, rewriteInLocationVars,
                     variablesVars, s, listenVars, locConf>>
    \/ /\ \/ part = "locations" /\ ServersA!LocNext
          \/ part = "nested locations" /\ ServersB!LocNext
       /\ UNCHANGED <<part, text, formatVars, logConfVars, lg, valueVars, rewriteInLocationVars,
                     variablesVars, s, listenVars, namesVars>>

Spec == Init /\ [][Next]_vars

-----------------------------------------------------------------------------

(* A log format compiles to operations that write its text again, in the   *)
(* room measured for them and with no quote or control character of a      *)
(* value; the logs of a location are those its directives or the level     *)
(* around it say; and the files and buffers hold the line of each request  *)
(* in order and once, through failing writes, timers, rotation and exit    *)
(* (ngx_http_log_module.c, ngx_stream_log_module.c).                       *)
LogsFaithful ==
    /\ part = "format" =>
          /\ LogA!Compiled /\ LogA!Refused /\ LogA!RoomEnough
          /\ LogA!Readable
    /\ part = "stream format" =>
          /\ LogB!Compiled /\ LogB!Refused /\ LogB!RoomEnough
          /\ LogB!Readable
    /\ part = "log conf" =>
          /\ LogA!LogsExact /\ LogA!FormatsExact /\ LogA!LinesNotEmpty
    /\ part = "log cache" => LogC!LogsExact /\ LogC!CacheExact
    /\ part = "stream log conf" =>
          /\ LogD!LogsExact /\ LogD!FormatsExact /\ LogD!BuffersExact
    /\ part = "log buffers" => LogB!BuffersExact
    /\ part = "log" =>
          /\ LogA!LinesExact /\ LogA!Rotated /\ LogA!Timely
          /\ LogA!ExitFlushed
    /\ part = "failing log" =>
          /\ LogB!LinesExact /\ LogB!Rotated /\ LogB!Reported
    /\ part = "log by variable" =>
          /\ LogC!LinesExact /\ LogC!Timely /\ LogC!Reported
    /\ part = "stream log" =>
          /\ LogD!LinesExact /\ LogD!Rotated /\ LogD!Timely
          /\ LogD!ExitFlushed
    /\ part = "syslog" => LogE!SyslogRecovers

(* A complex value compiles to code that says its text and writes what it  *)
(* measured; run as one array of codes with jumps the rewrite directives   *)
(* do what they say one after the other, each skipped block and nothing    *)
(* else is skipped, and the stack is balanced. A variable is what was last *)
(* said of it wherever it is used, the same by its name and by its index,  *)
(* is kept until it is set unless it is volatile, a map answers with the   *)
(* line that fits best, and a cycle of variables ends (ngx_http_script.c,  *)
(* ngx_http_rewrite_module.c, ngx_http_variables.c, ngx_http_map_module.c  *)
(* and their twins in stream).                                             *)
ScriptFaithful ==
    /\ part = "value" =>
          /\ ScriptA!Compiled /\ ScriptA!RoomExact /\ ScriptA!Fresh
          /\ ScriptA!Absolute
    /\ part = "value with args" =>
          /\ ScriptB!Compiled /\ ScriptB!RoomExact /\ ScriptB!ArgsOnce
    /\ part = "stream value" =>
          /\ ScriptC!Compiled /\ ScriptC!RoomExact /\ ScriptC!Fresh
          /\ ScriptC!Absolute
    /\ part = "rewrite in location" =>
          /\ ScriptA!AsWritten /\ ScriptA!StackBalanced
          /\ ScriptA!FitsRoom
    /\ part = "rewrite in server" =>
          /\ ScriptB!AsWritten /\ ScriptB!StackBalanced
          /\ ScriptB!FitsRoom
    /\ part = "long rewrite" =>
          /\ ScriptC!AsWritten /\ ScriptC!StackBalanced
          /\ ScriptC!FitsRoom
    /\ part = "variables" =>
          /\ ScriptA!LastWord /\ ScriptA!SameByName
          /\ ScriptA!DepthRestored /\ ScriptA!MapsExact
          /\ ScriptA!Current /\ ScriptA!Kept
    /\ part = "stream variables" =>
          /\ ScriptB!LastWord /\ ScriptB!SameByName
          /\ ScriptB!DepthRestored /\ ScriptB!MapsExact
          /\ ScriptB!Current /\ ScriptB!Kept

(* An accepted geo block gives each address the value of the last range    *)
(* over it, from the file or from its binary base, which has the size that *)
(* was summed up for it and is accepted again; and in the radix tree the   *)
(* value of the longest network, whatever was replaced and deleted before  *)
(* (ngx_http_geo_module.c, ngx_radix_tree.c).                              *)
GeoFaithful ==
    /\ part = "geo ranges" => GeoA!AsWritten /\ GeoA!SortedRanges
    /\ part = "geo base" =>
          /\ GeoB!AsWritten /\ GeoB!BaseSizeExact /\ GeoB!AcceptedAgain
    /\ part = "geo networks" =>
          /\ GeoA!LongestNetwork /\ GeoA!NoDeadBranch
          /\ GeoA!NeverInvalid
    /\ part = "stream geo networks" =>
          /\ GeoB!LongestNetwork /\ GeoB!NeverInvalid

(* A connection reaches the default server of the most specific address    *)
(* configured for it, a host the server of its best name through the       *)
(* wildcard hashes, and a URI the location documented for it through the   *)
(* tree of prefixes; a configuration is refused exactly for what the       *)
(* messages say (ngx_http.c, ngx_hash.c, ngx_http_core_find_location).     *)
ServerFound ==
    /\ part = "listen" =>
          /\ ServersA!RightServer /\ ServersA!SslIsKept
          /\ ServersA!SocketsAsAsked /\ ServersA!RefusedExactly
    /\ part = "stream listen" =>
          /\ ServersB!RightServer /\ ServersB!SocketsAsAsked
          /\ ServersB!RefusedExactly
    /\ part = "names" => ServersA!BestNameWins /\ ServersA!IgnoredForAClash
    /\ part = "locations" =>
          /\ ServersA!TreeFindsLongest /\ ServersA!DuplicatesAreFound
    /\ part = "nested locations" => ServersB!FindsAsReference

=============================================================================
