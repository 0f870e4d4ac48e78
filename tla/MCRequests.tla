----------------------------- MODULE MCRequests -----------------------------

(***************************************************************************)
(* A request in a worker: its line, header and body are read, the phases   *)
(* handle it, limits and caches are asked, and filters cut and frame the   *)
(* response.  Each is a part of the state space of its own; the caches and *)
(* the limits are shared by several requests and workers.                  *)
(***************************************************************************)

EXTENDS Integers, Sequences

CONSTANTS MaxLen, Large, Num, Lens, MaxReq, MaxHdr, MaxBlank, Modes,
    Framings, Pre, Room, BufSize, MaxBody, Uris, MaxUriChanges, Width, Pages,
    Satisfy, PostActions, Subs, MaxBreaks, Sizes, MaxLinks, ChunkedMaxCalls,
    Sock, Page, Iovs, Tps, OutputMaxCalls, MaxUniq, Reqs, Fds, MaxFiles,
    Valid, MaxTime, MaxInode, Workers, ReqRoom, MaxLag, ConnKeys, ConnNZones,
    ConnRoom

VARIABLES part, in, line, u, cplx, m, conf, s, doc, q, ver, step, who, resp,
    sctx, rctx, hdr, out, buffered, asked, breaks, creq, chdr, taken, over,
    calls, wire, o, given, now, c, disk, gone, req, alive

Bytes(kind, a, b) == [kind |-> kind, a |-> a, b |-> b]

(* Range headers: none, another unit, each single specifier up to and past *)
(* the end, and lists that overlap, are too long or have one that cannot   *)
(* be satisfied or read.                                                   *)
RangeHeaders ==
    LET one == {Bytes("span", a, b) : a \in {0, 1, 3, 4}, b \in {1, 3, 4, 7}}
                   \cup {Bytes("open", a, 0) : a \in {0, 3, 5}}
                   \cup {Bytes("suffix", a, 0) : a \in {0, 2, 7}} \cup {Bytes("bad", 3, 0)}
        more == {Bytes("span", 3, 3), Bytes("span", 0, 4), Bytes("open", 9, 0), Bytes("suffix", 1, 0),
                 Bytes("bad", 0, 0)}
    IN {<<"none", <<>> >>, <<"items", <<Bytes("span", 0, 1)>> >>}
       \cup {<<"bytes", <<x>> >> : x \in one} \cup {<<"bytes", <<Bytes("span", 1, 2), x>> >> : x \in more}
       \cup {<<"bytes", <<Bytes("span", 1, 1), Bytes("span", 3, 3), Bytes("open", 4, 0)>> >>}

Ranged(range, ifRange) ==
    [range |-> range, ifRange |-> ifRange, ius |-> 0, ims |-> 0, im |-> <<"none", {}>>, inm |-> <<"none", {}>>]

Tags == {<<"none", {}>>, <<"any", {}>>, <<"list", {<<FALSE, 1>>, <<TRUE, 2>>}>>, <<"list", {<<FALSE, 2>>}>>}

(* Ranges, some of them with If-Range, and every combination of conditions. *)
RangeRequests ==
    {Ranged(x, <<"none", 0>>) : x \in RangeHeaders}
      \cup {Ranged(<<"bytes", <<x>> >>, i) : x \in {Bytes("open", 0, 0), Bytes("span", 4, 4), Bytes("suffix", 2, 0)},
                                            i \in {<<"etag", 1>>, <<"etag", 2>>, <<"date", 1>>}}
      \cup {[range |-> <<"none", <<>> >>, ifRange |-> <<"none", 0>>, ius |-> a, ims |-> b, im |-> x, inm |-> y] :
               a, b \in {0, 1, 2}, x, y \in Tags}

RangeDoc(source, tag, limit) ==
    [source |-> source, length |-> <<5, 4>>, tag |-> tag, dated |-> tag # "none", max_ranges |-> limit,
     ims |-> IF tag = "weak" THEN "before" ELSE "exact", disable_not_modified |-> source = "forced"]

(* A document of five bytes that may change into one of four, or of five. *)
RangeDocs ==
    {RangeDoc(source, tag, 2) : source \in {"file", "forced", "slices"}, tag \in {"none", "strong", "weak"}}
      \cup {RangeDoc(source, "none", 0) : source \in {"file", "slices"}}
      \cup {[RangeDoc("slices", "strong", 2) EXCEPT !.length = <<5, 5>>],
            [RangeDoc("file", "weak", 2) EXCEPT !.ims = "off", !.dated = FALSE]}

Link(where, size, flush) ==
    [mem |-> where \in {"mem", "temp", "both"}, file |-> where \in {"file", "both", "direct"}, temp |-> where = "temp",
     direct |-> where = "direct", size |-> size, flush |-> flush]

(* Buffers in memory, in a file, in one read directly and in both.        *)
OutputChains ==
    {<<Link("mem", 1, FALSE)>>, <<Link("file", 3, FALSE)>>, <<Link("direct", 5, FALSE)>>, <<Link("none", 0, TRUE)>>,
     <<Link("both", 2, TRUE), Link("file", 1, FALSE)>>, <<Link("temp", 1, FALSE), Link("direct", 1, TRUE)>>}

OutputSetting(sendfile, need, num, postpone, rate, chunk, threads, file) ==
    [sendfile |-> sendfile, need_in_memory |-> need, need_in_temp |-> need, num |-> num, size |-> 2,
     postpone_output |-> postpone, limit_rate |-> rate, limit_rate_after |-> IF rate = 0 THEN 0 ELSE 1,
     sendfile_max_chunk |-> chunk, threads |-> threads, file |-> file]

(* With and without sendfile; a limited rate, chunks, a filter that needs  *)
(* the bytes in memory, reads by threads and a truncated file.             *)
OutputSettings ==
    {OutputSetting(sf, FALSE, 1, 3, rate, 0, FALSE, 99) : sf \in BOOLEAN, rate \in {0, 2}}
      \cup {OutputSetting(TRUE, FALSE, 1, 0, rate, 2, FALSE, 99) : rate \in {0, 3}}
      \cup {OutputSetting(sf, TRUE, 2, 3, 0, 0, FALSE, 99) : sf \in BOOLEAN}
      \cup {OutputSetting(FALSE, FALSE, num, 3, 0, 0, TRUE, 99) : num \in 1 .. 2}
      \cup {OutputSetting(sf, FALSE, 2, 0, 0, 0, FALSE, 2) : sf \in BOOLEAN}

ReadA == INSTANCE HttpRequest WITH
    Symbols <- {"/", ".", "a", "q/", "q.", "lit", "bad", "?"},
    MergeSlashes <- TRUE, Small <- 3, Data <- 4

ReadB == INSTANCE HttpRequest WITH
    Symbols <- {"/", ".", "a", " ", "+", "q.", "?", "#"},
    MergeSlashes <- FALSE, Small <- 3, Data <- 4

Http == INSTANCE HttpPhases

Filters == INSTANCE HttpFilters WITH
    Docs <- RangeDocs, Requests <- RangeRequests, Size <- 2,
    Chains <- OutputChains, Settings <- OutputSettings, MaxNow <- 6

CacheLock == INSTANCE FileCache WITH
    Requests <- {"r1", "r2"}, Keys <- {1}, Heads <- {1}, MaxNodes <- 1,
    MaxStarts <- 3, MaxClock <- 2, MinUses <- 1, MaxSize <- 1, Inactive <- 1,
    Lock <- TRUE, UseStale <- FALSE, Background <- FALSE, Bypass <- {FALSE},
    Errors <- FALSE, Cold <- FALSE, Crashes <- FALSE

CacheStale == INSTANCE FileCache WITH
    Requests <- {"r1", "r2", "r3"}, Keys <- {1}, Heads <- {1}, MaxNodes <- 1,
    MaxStarts <- 3, MaxClock <- 2, MinUses <- 1, MaxSize <- 9, Inactive <- 9,
    Lock <- FALSE, UseStale <- TRUE, Background <- TRUE, Bypass <- {FALSE},
    Errors <- FALSE, Cold <- FALSE, Crashes <- FALSE

CacheVary == INSTANCE FileCache WITH
    Requests <- {"r1", "r2"}, Keys <- {1}, Heads <- {1, 2}, MaxNodes <- 3,
    MaxStarts <- 3, MaxClock <- 1, MinUses <- 1, MaxSize <- 9, Inactive <- 9,
    Lock <- TRUE, UseStale <- FALSE, Background <- FALSE, Bypass <- {FALSE},
    Errors <- FALSE, Cold <- FALSE, Crashes <- FALSE

CacheCold == INSTANCE FileCache WITH
    Requests <- {"r1", "r2"}, Keys <- {1, 2}, Heads <- {1}, MaxNodes <- 1,
    MaxStarts <- 2, MaxClock <- 0, MinUses <- 1, MaxSize <- 9, Inactive <- 9,
    Lock <- FALSE, UseStale <- FALSE, Background <- FALSE, Bypass <- {FALSE},
    Errors <- FALSE, Cold <- TRUE, Crashes <- FALSE

CacheCrash == INSTANCE FileCache WITH
    Requests <- {"r1", "r2"}, Keys <- {1}, Heads <- {1}, MaxNodes <- 1,
    MaxStarts <- 2, MaxClock <- 2, MinUses <- 2, MaxSize <- 1, Inactive <- 1,
    Lock <- TRUE, UseStale <- FALSE, Background <- FALSE,
    Bypass <- {FALSE, TRUE}, Errors <- TRUE, Cold <- FALSE, Crashes <- TRUE

OpenFiles == INSTANCE OpenFileCache WITH
    Paths <- {"p1", "p2"}, Dirs <- {3}, Special <- {}, Inactive <- 0,
    MinUses <- 1, Errors <- TRUE

Segments == INSTANCE OpenFileCache WITH
    Paths <- {"p1"}, Dirs <- {2}, Special <- {}, Inactive <- 0, MinUses <- 1,
    Errors <- FALSE

LimitsA == INSTANCE Limits WITH
    ReqKeys <- {1}, ReqNZones <- 2, RateValue <- 30, Minutes <- TRUE,
    BurstValue <- 1, NoDelay <- TRUE, InServer <- FALSE,
    Ticks <- {400, 1600}, MaxNow <- 2400, MaxRequests <- 3,
    Requests <- {"r1", "r2"}, Conn <- 1, Stream <- FALSE, MaxStarts <- 3

LimitsB == INSTANCE Limits WITH
    ReqKeys <- {1, 2}, ReqNZones <- 2, RateValue <- 30, Minutes <- TRUE,
    BurstValue <- 1, NoDelay <- TRUE, InServer <- FALSE, Ticks <- {60000},
    MaxNow <- 60000, MaxRequests <- 3, Requests <- {"r1", "r2"}, Conn <- 2,
    Stream <- TRUE, MaxStarts <- 3

LimitsC == INSTANCE Limits WITH
    ReqKeys <- {1, 2}, ReqNZones <- 1, RateValue <- 3, Minutes <- FALSE,
    BurstValue <- 2, NoDelay <- FALSE, InServer <- TRUE, Ticks <- {100, 170},
    MaxNow <- 500, MaxRequests <- 4, Requests <- {"r1", "r2"}, Conn <- 2,
    Stream <- TRUE, MaxStarts <- 3

uriVars == <<in, line, u, cplx>>

NoUri == in = 0 /\ line = 0 /\ u = 0 /\ cplx = 0

rangesVars == <<doc, q, ver, step, who, sctx, rctx, hdr, out, buffered, asked, breaks>>

NoRanges == doc = 0 /\ q = 0 /\ ver = 0 /\ step = 0 /\ who = 0 /\ sctx = 0
            /\ rctx = 0 /\ hdr = 0 /\ out = 0 /\ buffered = 0 /\ asked = 0
            /\ breaks = 0

chunksVars == <<creq, chdr, taken, over, calls, wire>>

NoChunks == creq = 0 /\ chdr = 0 /\ taken = 0 /\ over = 0 /\ calls = 0
            /\ wire = 0

outputVars == <<o, given>>

NoOutput == o = 0 /\ given = 0

sharedVars == <<c, disk, gone, req, alive>>

NoShared == c = 0 /\ disk = 0 /\ gone = 0 /\ req = 0 /\ alive = 0

vars == <<part, uriVars, m, conf, s, rangesVars, resp, chunksVars, outputVars, now,
          sharedVars>>

-----------------------------------------------------------------------------

Init ==
    \/ /\ \/ part = "uri" /\ ReadA!UriInit
          \/ part = "uri without complex" /\ ReadB!UriInit
       /\ m = 0 /\ conf = 0 /\ s = 0 /\ NoRanges /\ resp = 0 /\ NoChunks
       /\ NoOutput /\ now = 0 /\ NoShared
    \/ /\ \/ part = "header" /\ ReadA!HeadInit
          \/ part = "body" /\ ReadA!BodyInit
       /\ NoUri /\ conf = 0 /\ s = 0 /\ NoRanges /\ resp = 0 /\ NoChunks
       /\ NoOutput /\ now = 0 /\ NoShared
    \/ /\ part = "phases" /\ Http!Init
       /\ NoUri /\ m = 0 /\ NoRanges /\ resp = 0 /\ NoChunks /\ NoOutput
       /\ now = 0 /\ NoShared
    \/ /\ part = "ranges" /\ Filters!Init
       /\ NoUri /\ m = 0 /\ conf = 0 /\ s = 0 /\ NoChunks /\ NoOutput
       /\ now = 0 /\ NoShared
    \/ /\ part = "chunks" /\ Filters!ChunkedInit
       /\ NoUri /\ m = 0 /\ conf = 0 /\ s = 0 /\ NoRanges /\ resp = 0
       /\ NoOutput /\ now = 0 /\ NoShared
    \/ /\ part = "output" /\ Filters!OutputInit
       /\ NoUri /\ m = 0 /\ s = 0 /\ NoRanges /\ resp = 0 /\ NoChunks
       /\ NoShared
    \/ /\ \/ part = "cache lock" /\ CacheLock!Init
          \/ part = "cache stale" /\ CacheStale!Init
          \/ part = "cache vary" /\ CacheVary!Init
          \/ part = "cache cold" /\ CacheCold!Init
          \/ part = "cache crash" /\ CacheCrash!Init
          \/ part = "requests" /\ LimitsA!ReqInit
          \/ part = "requests full" /\ LimitsB!ReqInit
          \/ part = "requests delayed" /\ LimitsC!ReqInit
          \/ part = "connections" /\ LimitsA!ConnInit
          \/ part = "stream connections" /\ LimitsB!ConnInit
       /\ NoUri /\ m = 0 /\ conf = 0 /\ NoRanges /\ resp = 0 /\ NoChunks
       /\ NoOutput /\ now = 0 /\ NoShared
    \/ /\ part = "open files" /\ OpenFiles!Init
       /\ NoUri /\ m = 0 /\ conf = 0 /\ s = 0 /\ NoRanges /\ resp = 0
       /\ NoChunks /\ NoOutput
    \/ /\ part = "segments" /\ Segments!TsInit
       /\ NoUri /\ m = 0 /\ conf = 0 /\ s = 0 /\ NoRanges /\ NoChunks
       /\ NoOutput

Next ==
    \/ /\ \/ part = "uri" /\ ReadA!UriNext
          \/ part = "uri without complex" /\ ReadB!UriNext
       /\ UNCHANGED <<part, m, conf, s, rangesVars, resp, chunksVars, outputVars, now, sharedVars>>
    \/ /\ \/ part = "header" /\ ReadA!HeadNext
          \/ part = "body" /\ ReadA!BodyNext
       /\ UNCHANGED <<part, uriVars, conf, s, rangesVars, resp, chunksVars, outputVars, now,
                     sharedVars>>
    \/ /\ part = "phases" /\ Http!Next
       /\ UNCHANGED <<part, uriVars, m, rangesVars, resp, chunksVars, outputVars, now, sharedVars>>
    \/ /\ part = "ranges" /\ Filters!Next
       /\ UNCHANGED <<part, uriVars, m, conf, s, chunksVars, outputVars, now, sharedVars>>
    \/ /\ part = "chunks" /\ Filters!ChunkedNext
       /\ UNCHANGED <<part, uriVars, m, conf, s, rangesVars, resp, outputVars, now, sharedVars>>
    \/ /\ part = "output" /\ Filters!OutputNext
       /\ UNCHANGED <<part, uriVars, m, s, rangesVars, resp, chunksVars, sharedVars>>
    \/ /\ \/ part = "cache lock" /\ CacheLock!Next
          \/ part = "cache stale" /\ CacheStale!Next
          \/ part = "cache vary" /\ CacheVary!Next
          \/ part = "cache cold" /\ CacheCold!Next
          \/ part = "cache crash" /\ CacheCrash!Next
          \/ part = "requests" /\ LimitsA!ReqNext
          \/ part = "requests full" /\ LimitsB!ReqNext
          \/ part = "requests delayed" /\ LimitsC!ReqNext
          \/ part = "connections" /\ LimitsA!ConnNext
          \/ part = "stream connections" /\ LimitsB!ConnNext
       /\ UNCHANGED <<part, uriVars, m, conf, rangesVars, resp, chunksVars, outputVars, now,
                     sharedVars>>
    \/ /\ part = "open files" /\ OpenFiles!Next
       /\ UNCHANGED <<part, uriVars, m, conf, s, rangesVars, resp, chunksVars, outputVars>>
    \/ /\ part = "segments" /\ Segments!TsNext
       /\ UNCHANGED <<part, uriVars, m, conf, s, rangesVars, chunksVars, outputVars>>

Spec == Init /\ [][Next]_vars

-----------------------------------------------------------------------------

(* The nodes of the file cache are shared by requests, the loader, the     *)
(* manager and the deleters of other workers: a node somebody points to is *)
(* not freed and counts exactly those who hold it, also after workers die; *)
(* while a node is marked "updating" some request holds it to update it    *)
(* and leaves no update unfinished; with proxy_cache_lock one request at a *)
(* time populates a new element until the lock has aged; and a request is  *)
(* only served a file that was made for its header                         *)
(* (ngx_http_file_cache.c).                                                *)
CacheSound ==
    /\ part = "cache lock" =>
          /\ CacheLock!NodesLive /\ CacheLock!CountExact
          /\ CacheLock!UpdatingHeld /\ CacheLock!NotStalled
          /\ CacheLock!OnePopulates
    /\ part = "cache stale" =>
          /\ CacheStale!NodesLive /\ CacheStale!CountExact
          /\ CacheStale!UpdatingHeld /\ CacheStale!NotStalled
    /\ part = "cache vary" =>
          /\ CacheVary!NodesLive /\ CacheVary!CountExact
          /\ CacheVary!UpdatingHeld /\ CacheVary!NotStalled
          /\ CacheVary!ServedRight
    /\ part = "cache cold" => CacheCold!NodesLive /\ CacheCold!CountExact
    /\ part = "cache crash" =>
          /\ CacheCrash!NodesLive /\ CacheCrash!CountExact
          /\ CacheCrash!UpdatingHeld /\ CacheCrash!NotStalled

(* A descriptor a request was given stays open, and the same file, until   *)
(* its pool is destroyed, whatever expires or is revalidated under it;     *)
(* every descriptor belongs to one object of the cache, none is closed     *)
(* twice or leaks; tree and queue agree and keep to max; an answer is no   *)
(* older than open_file_cache_valid; and a segment is sent from the very   *)
(* file its header describes (ngx_open_cached_file,                        *)
(* ngx_http_hlsts_handler).                                                *)
OpenFilesSound ==
    /\ part = "open files" =>
          /\ OpenFiles!HeldStaysOpen /\ OpenFiles!NoDescriptorLost
          /\ OpenFiles!CacheBounded /\ OpenFiles!AnswerIsRecent
    /\ part = "segments" => Segments!SegmentIsOneFile

(* limit_req is a leaky bucket: in no interval do more requests of a key   *)
(* pass than the burst and what leaks out, but for one of each other       *)
(* worker; delayed requests are as far apart as the rate says; nodes are   *)
(* not reused under a worker that is to charge them. A connection count of *)
(* limit_conn is the number of requests that will take themselves from it  *)
(* and never passes its limit. A rejected request is charged nowhere.      *)
LimitsSound ==
    /\ part = "requests" =>
          /\ LimitsA!RejectedIsFree /\ LimitsA!LeakyBucket
          /\ LimitsA!ExcessBounded
    /\ part = "requests full" =>
          /\ LimitsB!RejectedIsFree /\ LimitsB!LeakyBucket
          /\ LimitsB!HeldExact
    /\ part = "requests delayed" =>
          /\ LimitsC!LeakyBucket /\ LimitsC!ExcessBounded
          /\ LimitsC!Smooth
    /\ part = "connections" =>
          /\ LimitsA!ConnExact /\ LimitsA!WithinLimit
          /\ LimitsA!RejectedHoldsNothing
    /\ part = "stream connections" =>
          /\ LimitsB!ConnExact /\ LimitsB!WithinLimit
          /\ LimitsB!RejectedHoldsNothing

(* Every parsed line still is what the client sent where the pointers to   *)
(* it say, whatever large buffers were taken and reused; the body a        *)
(* handler gets is the one that was sent, and nothing behind it is read    *)
(* for its sake; a body is refused exactly if it is malformed or too       *)
(* large; and the URI is the path with slashes merged and dot segments     *)
(* resolved, the same one for HTTP/1 and HTTP/2                            *)
(* (ngx_http_alloc_large_header_buffer, ngx_http_request_body.c,           *)
(* ngx_http_parse_complex_uri).                                            *)
RequestRead ==
    /\ part = "header" =>
          /\ ReadA!LinesIntact /\ ReadA!ParsedInOrder
          /\ ReadA!BuffersAreExact
    /\ part = "body" =>
          /\ ReadA!BodyIsExact /\ ReadA!NothingOverread
          /\ ReadA!NeverRefused /\ ReadA!TooLargeOnly
    /\ part = "uri" =>
          /\ ReadA!NormalisedAsReference /\ ReadA!ExtenAsReference
    /\ part = "uri without complex" =>
          /\ ReadB!ShortCutIsSafe /\ ReadB!BothLookAlike /\ ReadB!OutFits
          /\ ReadB!NoDotSegments

(* Whatever redirects, rewrites, error pages and waits came before, a      *)
(* location's content is served only after its access handlers agreed; the *)
(* request is freed once, when the last call that uses it has returned,    *)
(* and the client has got one response (ngx_http_core_module.c,            *)
(* ngx_http_request.c).                                                    *)
PhasesSound ==
    part = "phases" => Http!Authorized /\ Http!CountExact

(* A client gets exactly the byte ranges it asked for, in order and from   *)
(* one version of the document, whatever buffers and slices they come in,  *)
(* or the whole, or 416 when none can be satisfied; each part of a         *)
(* multipart answer is what its header says; conditions hold of the        *)
(* version it is sent or told about; slices are fetched once, aligned and  *)
(* only as needed; and chunks are read back as what was written, so that   *)
(* the end of every body can be told (ngx_http_range_filter_module.c,      *)
(* ngx_http_slice_filter_module.c, ngx_http_not_modified_filter_module.c,  *)
(* ngx_http_chunked_filter_module.c).                                      *)
ResponseFramed ==
    /\ part = "ranges" =>
          /\ Filters!AskedBytes /\ Filters!PartsWhole
          /\ Filters!AnswerChosen /\ Filters!ConditionsHold
          /\ Filters!SlicesNeeded
    /\ part = "chunks" => Filters!ReadBack /\ Filters!EndVisible

(* A client gets the bytes of a response in order and each one once,       *)
(* however they were copied, held back, limited or sent in part; what a    *)
(* filter says is not held has been sent up to the last flush point, and   *)
(* what is held has a full socket, a timer or a thread to wake it          *)
(* (ngx_output_chain.c, ngx_http_write_filter_module.c,                    *)
(* ngx_linux_sendfile_chain.c).                                            *)
OutputSent ==
    part = "output" =>
          /\ Filters!WireExact /\ Filters!FlushSent /\ Filters!HeldWakes
          /\ Filters!RateKept /\ Filters!BuffersSafe /\ Filters!AsNeeded

=============================================================================
