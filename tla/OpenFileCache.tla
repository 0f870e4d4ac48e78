--------------------------- MODULE OpenFileCache ----------------------------
(***************************************************************************)
(* The cache of open files, and the segments that are served through it.   *)
(***************************************************************************)
EXTENDS Integers, Sequences, FiniteSets, SequencesExt, FiniteSetsExt, TLC

(***************************************************************************)
(* core/ngx_open_file_cache.c: the cache of open descriptors that one      *)
(* worker's requests share.  A handler runs to its end, so each call is    *)
(* one action; the interleaving is that of requests that hold a file while *)
(* other requests revalidate, replace or expire it and the files on disk   *)
(* change.  Vnode events exist with kqueue only and are left out.          *)
(*                                                                         *)
(*   c.file     the ngx_cached_open_file_t objects on the heap             *)
(*   c.tree     those that are in cache->rbtree                            *)
(*   c.queue    cache->expire_queue, the least recently used one last      *)
(*   c.current  cache->current                                             *)
(*   c.fd       the process' descriptors: the inode behind each, 0 closed  *)
(*   disk       what each path names: an inode, 0 when there is none       *)
(*   gone       when each inode lost its path (history)                    *)
(*   req        what a request's pool holds: its descriptor and its file   *)
(***************************************************************************)

CONSTANTS
    Paths, Reqs,
    Dirs,           \* the inodes that are directories
    Special,        \* the inodes that are neither regular files nor directories
    Fds,            \* how many descriptors the process may open
    MaxFiles,       \* open_file_cache max=
    Inactive,       \* open_file_cache inactive=
    Valid,          \* open_file_cache_valid
    MinUses,        \* open_file_cache_min_uses
    Errors,         \* open_file_cache_errors
    MaxTime, MaxInode   \* bounds of the model

VARIABLES c, disk, gone, now, req, alive

vars == <<c, disk, gone, now, req, alive>>

NoFd == 0

Nil  == [name |-> "none"]

Inodes == 1 .. MaxInode

Ids    == 1 .. (MaxFiles + Cardinality(Reqs) + 1)

IsDir(i)  == i \in Dirs

IsFile(i) == i # 0 /\ i \notin Dirs \cup Special

FreeId(k) == Min({i \in Ids : k.file[i] = Nil})

FreeFds(k) == {f \in 1 .. Fds : k.fd[f] = 0}

(* close(2): closing what is not open is logged as an alert.               *)
CloseFile(k, f) ==
    IF f # NoFd /\ k.fd[f] # 0 THEN [k EXCEPT !.fd[f] = 0]
    ELSE [k EXCEPT !.alert = TRUE]

(* ngx_open_and_stat_file: every outcome, for the descriptor and the inode *)
(* the cache knows.  An inode that is still there is not opened again; no  *)
(* free descriptor or a failing fstat() is an error, the latter without an *)
(* error code.                                                             *)
Failed(err) == [ok |-> FALSE, err |-> err, fd |-> NoFd, uniq |-> 0]

OpenAndStat(k, n, fd, uniq, test_dir) ==
    IF disk[n] = 0 THEN {[of |-> Failed("ENOENT"), k |-> k]}
    ELSE IF (fd # NoFd /\ uniq = disk[n]) \/ (fd = NoFd /\ test_dir /\ IsDir(disk[n]))
    THEN {[of |-> [ok |-> TRUE, err |-> "", fd |-> fd, uniq |-> disk[n]], k |-> k]}
    ELSE IF FreeFds(k) = {} THEN {[of |-> Failed("EMFILE"), k |-> k]}
    ELSE {[of |-> Failed(""), k |-> k]}
         \cup {IF IsDir(disk[n])
               THEN [of |-> [ok |-> TRUE, err |-> "", fd |-> NoFd, uniq |-> disk[n]], k |-> k]
               ELSE LET f == Min(FreeFds(k))
                    IN  [of |-> [ok |-> TRUE, err |-> "", fd |-> f, uniq |-> disk[n]],
                         k |-> [k EXCEPT !.fd[f] = disk[n]]]}

-----------------------------------------------------------------------------

(* ngx_close_cached_file *)
CloseCachedFileInUse(k, i, min_uses) ==
    LET f == k.file[i]
        t == IF f.close THEN k
             ELSE [k EXCEPT !.file[i].accessed = now,
                            !.queue = <<i>> \o SelectSeq(@, LAMBDA j : j # i)]
    IN  IF ~f.close /\ f.uses >= min_uses THEN t
        ELSE LET x == IF f.fd = NoFd THEN t
                      ELSE [CloseFile(t, f.fd) EXCEPT !.file[i].fd = NoFd]
             IN  IF f.close THEN [x EXCEPT !.file[i] = Nil] ELSE x

CloseCachedFile(k, i, min_uses) ==
    LET f == k.file[i]
        t == IF f.close THEN k
             ELSE [k EXCEPT !.file[i].accessed = now,
                            !.queue = <<i>> \o SelectSeq(@, LAMBDA j : j # i)]
    IN  IF f.count > 0 \/ (~f.close /\ f.uses >= min_uses) THEN t
        ELSE LET x == IF f.fd = NoFd THEN t
                      ELSE [CloseFile(t, f.fd) EXCEPT !.file[i].fd = NoFd]
             IN  IF f.close THEN [x EXCEPT !.file[i] = Nil] ELSE x

(* The least recently used entry leaves the cache; a file some request     *)
(* still holds is closed when that request ends.                           *)
DropLast(k) ==
    LET i == Last(k.queue)
        d == [k EXCEPT !.queue = Front(@), !.tree = @ \ {i}, !.current = @ - 1]
    IN  IF k.file[i].err = "" /\ ~k.file[i].is_dir
        THEN CloseCachedFile([d EXCEPT !.file[i].close = TRUE], i, 0)
        ELSE [d EXCEPT !.file[i] = Nil]

(* ngx_expire_old_cached_files: one by force when the cache is full, then  *)
(* one or two inactive ones.                                               *)
DropInactive(k) ==
    IF k.queue # <<>> /\ now - k.file[Last(k.queue)].accessed > Inactive
    THEN DropLast(k) ELSE k

ExpireOldCachedFiles(k, force) ==
    DropInactive(DropInactive(IF force /\ k.queue # <<>> THEN DropLast(k) ELSE k))

(* "update:" and "found:" in ngx_open_cached_file *)
Found(k, i) ==
    [k EXCEPT !.file[i].accessed = now, !.queue = <<i>> \o @]

Update(k, i, of) ==
    LET u == [k EXCEPT !.file[i].fd = of.fd, !.file[i].err = of.err,
                       !.file[i].created = now]
    IN  Found(IF of.err # "" THEN u
              ELSE [u EXCEPT !.file[i].uniq = of.uniq, !.file[i].close = FALSE,
                             !.file[i].is_dir = IsDir(of.uniq),
                             !.file[i].count = IF IsDir(of.uniq) THEN @ ELSE @ + 1],
              i)

(* "create:" *)
CreateOverfull(k, n, of) ==
    LET i == FreeId(k)
    IN  [k |-> Update([k EXCEPT !.tree = @ \cup {i}, !.current = @ + 1,
                                !.file[i] = [name |-> n, fd |-> NoFd, err |-> "",
                                             uniq |-> 0, is_dir |-> FALSE, close |-> FALSE,
                                             count |-> 0, uses |-> 1,
                                             created |-> now, accessed |-> now]], i, of),
         of |-> of, i |-> i]

Create(k, n, of) ==
    CreateOverfull(IF k.current >= MaxFiles THEN ExpireOldCachedFiles(k, TRUE) ELSE k, n, of)

(* "failed:" for a file that was in the cache *)
FailedFile(k, i) ==
    LET d == [k EXCEPT !.tree = @ \ {i}, !.current = @ - 1]
    IN  IF k.file[i].count > 0 THEN [d EXCEPT !.file[i].close = TRUE]
        ELSE [IF k.file[i].fd = NoFd THEN d ELSE CloseFile(d, k.file[i].fd)
              EXCEPT !.file[i] = Nil]

(* An entry the disk no longer agrees with: a file that became something   *)
(* else is given up to the requests that hold it, or reused at once.       *)
Revalidate(k, i, of) ==
    LET f == k.file[i]
    IN  IF f.is_dir \/ f.err # "" \/ (of.err = "" /\ of.uniq = f.uniq)
        THEN [k |-> Update(k, i, of), of |-> of, i |-> i]
        ELSE IF f.count = 0
        THEN [k |-> Update(CloseFile(k, f.fd), i, of), of |-> of, i |-> i]
        ELSE Create([k EXCEPT !.tree = @ \ {i}, !.current = @ - 1,
                              !.file[i].close = TRUE], f.name, of)

Cached(of) == of.ok \/ (of.err # "" /\ Errors)

Fresh(f) == now - f.created < Valid

(* ngx_open_cached_file: what it may do and return, for the path n.        *)
OpenCachedFile(n) ==
    LET hit == {i \in c.tree : c.file[i].name = n}
    IN  IF hit = {}
        THEN {IF Cached(o.of) THEN Create(o.k, n, o.of)
              ELSE [k |-> o.k, of |-> o.of, i |-> 0] :
                 o \in OpenAndStat(c, n, NoFd, 0, FALSE)}
        ELSE LET i == Min(hit)
                 f == c.file[i]
                 k == [c EXCEPT !.file[i].uses = Min({@ + 1, MinUses}),
                                !.queue = SelectSeq(@, LAMBDA j : j # i)]
                 unused == f.fd = NoFd /\ f.err = "" /\ ~f.is_dir
                 hold == [k EXCEPT !.file[i].count =
                                       IF f.err = "" /\ ~f.is_dir THEN @ + 1 ELSE @]
             IN  IF ~unused /\ Fresh(f)
                 THEN {[k |-> Found(hold, i), i |-> i,
                        of |-> [ok |-> f.err = "", err |-> f.err, fd |-> f.fd, uniq |-> f.uniq]]}
                 ELSE {IF ~Cached(o.of) THEN [k |-> FailedFile(o.k, i), of |-> o.of, i |-> 0]
                       ELSE IF unused THEN [k |-> Update(o.k, i, o.of), of |-> o.of, i |-> i]
                       ELSE Revalidate(o.k, i, o.of) :
                          o \in IF unused THEN OpenAndStat(k, n, NoFd, 0, FALSE)
                                ELSE OpenAndStat(k, n, f.fd, f.uniq, f.is_dir)}

-----------------------------------------------------------------------------

Idle == [file |-> 0, fd |-> NoFd, uniq |-> 0, at |-> 0]

Init ==
    /\ c = [file |-> [i \in Ids |-> Nil], tree |-> {}, queue |-> <<>>, current |-> 0,
            fd |-> [f \in 1 .. Fds |-> 0], alert |-> FALSE]
    /\ disk = [n \in Paths |-> 0]
    /\ gone = [i \in Inodes |-> MaxTime + 1]
    /\ now = 0
    /\ req = [r \in Reqs |-> Idle]
    /\ alive = TRUE

(* A request opens a path.  A directory is not held.                       *)
Open(r) ==
    /\ alive /\ req[r] = Idle
    /\ \E n \in Paths : \E o \in OpenCachedFile(n) :
          /\ c' = o.k
          /\ req' = [req EXCEPT ![r] = IF o.of.ok /\ ~IsDir(o.of.uniq)
                                       THEN [file |-> o.i, fd |-> o.of.fd,
                                             uniq |-> o.of.uniq, at |-> now]
                                       ELSE Idle]
    /\ UNCHANGED <<disk, gone, now, alive>>

Cleanup(k, i) ==
    ExpireOldCachedFiles(CloseCachedFile([k EXCEPT !.file[i].count = @ - 1], i, MinUses), FALSE)

OpenFileCleanup(r) ==
    /\ alive /\ req[r] # Idle
    /\ c' = Cleanup(c, req[r].file)
    /\ req' = [req EXCEPT ![r] = Idle]
    /\ UNCHANGED <<disk, gone, now, alive>>

(* ngx_open_file_cache_cleanup, when the worker exits without requests.    *)
CacheCleanup ==
    /\ alive /\ \A r \in Reqs : req[r] = Idle
    /\ alive' = FALSE
    /\ c' = FoldFunction(LAMBDA i, k : DropLast(k), c, [j \in 1 .. Len(c.queue) |-> 0])
    /\ UNCHANGED <<disk, gone, now, req>>

(* A path is created, replaced by another inode, or removed; time passes.  *)
Change(n) ==
    /\ alive
    /\ \E i \in {0} \cup {j \in Inodes : gone[j] > MaxTime /\ \A m \in Paths : disk[m] # j} :
          i # disk[n] /\ disk' = [disk EXCEPT ![n] = i]
    /\ gone' = IF disk[n] = 0 THEN gone ELSE [gone EXCEPT ![disk[n]] = now]
    /\ UNCHANGED <<c, now, req, alive>>

Tick ==
    /\ alive /\ now < MaxTime
    /\ now' = now + 1
    /\ UNCHANGED <<c, disk, gone, req, alive>>

Next ==
    \/ \E r \in Reqs : Open(r) \/ OpenFileCleanup(r)
    \/ CacheCleanup
    \/ \E n \in Paths : Change(n)
    \/ Tick

Spec == Init /\ [][Next]_vars

-----------------------------------------------------------------------------

(* A descriptor a request was given stays open, and stays the file that    *)
(* was opened, until the request's pool is destroyed: neither an expiry    *)
(* nor another request's revalidation closes it, so its number cannot be   *)
(* reused for another file under the request.                              *)
HeldStaysOpen == \A r \in Reqs : req[r] # Idle => c.fd[req[r].fd] = req[r].uniq

(* Every open descriptor belongs to exactly one object of the cache, which *)
(* is in the cache or is held by a request; an object counts its requests. *)
(* Nothing is closed twice and nothing leaks, to the worker's exit.        *)
NoDescriptorLost ==
    LET live == {i \in Ids : c.file[i] # Nil}
        users(i) == {r \in Reqs : req[r] # Idle /\ req[r].file = i}
    IN  /\ ~c.alert
        /\ \A r \in Reqs : req[r] # Idle => req[r].file \in live
        /\ \A i \in live : /\ c.file[i].count = Cardinality(users(i))
                           /\ i \in c.tree \/ c.file[i].count > 0
        /\ \A f \in 1 .. Fds : c.fd[f] # 0 =>
              Cardinality({i \in live : c.file[i].fd = f}) = 1
        /\ ~alive => live = {} /\ \A f \in 1 .. Fds : c.fd[f] = 0

(* The tree and the queue hold the same entries, one for each path, and no *)
(* more of them than max allows.                                           *)
CacheBounded ==
    /\ c.tree = Range(c.queue) /\ Len(c.queue) = Cardinality(c.tree)
    /\ c.current = Cardinality(c.tree) /\ c.current <= MaxFiles
    /\ \A i, j \in c.tree : c.file[i].name = c.file[j].name => i = j

(* open_file_cache_valid bounds how old an answer may be: what a request   *)
(* opens was still at its path less than that time before.                 *)
AnswerIsRecent ==
    \A r \in Reqs : req[r] # Idle => gone[req[r].uniq] > req[r].at - Valid

-----------------------------------------------------------------------------

(***************************************************************************)
(* The hlsts module: requests for .ts segments served from files through   *)
(* the open file cache.  The handler opens the path, sends the header and, *)
(* whatever ngx_http_send_header returned, passes the file to the output   *)
(* filter; the pool's cleanup gives the descriptor back when the request   *)
(* ends.  resp is what the client of each request was sent: the status of  *)
(* the header, whether a header was sent, and the inode of the body.       *)
(***************************************************************************)

VARIABLE resp

tsvars == <<vars, resp>>

(* What a client may ask: a method, and the condition or the range of a    *)
(* GET that the header filters act upon.                                   *)
Asks == {"GET", "HEAD", "POST", "fresh", "changed", "beyond"}

NoResponse == [ask |-> "none", status |-> 0, header |-> FALSE, body |-> 0]

(* The error codes of ngx_open_cached_file *)
StatusOf(err) ==
    CASE err = "ENOENT" -> 404 [] err = "EMFILE" -> 500 [] err = "" -> 500

(* ngx_http_send_header as the not modified and the range filter leave it: *)
(* a range that is not in the file is not sent here, its code is returned  *)
(* for ngx_http_finalize_request; a failed precondition is answered by the *)
(* page of 412 at once.                                                    *)
SendHeader(ask) ==
    CASE ask \in {"GET", "HEAD"} -> [status |-> 200, header |-> TRUE]
      [] ask = "fresh"   -> [status |-> 304, header |-> TRUE]
      [] ask = "changed" -> [status |-> 412, header |-> TRUE]
      [] ask = "beyond"  -> [status |-> 416, header |-> FALSE]

Handler(r, n, ask, o) ==
    LET h == SendHeader(ask)
        refused(code) == [ask |-> ask, status |-> code, header |-> TRUE, body |-> 0]
    IN  /\ c' = IF o.of.ok /\ ~IsFile(o.of.uniq) THEN CloseFile(o.k, o.of.fd) ELSE o.k
        /\ resp' = [resp EXCEPT ![r] =
              IF ~o.of.ok THEN refused(StatusOf(o.of.err))
              ELSE IF ~IsFile(o.of.uniq) THEN refused(IF IsDir(o.of.uniq) THEN 301 ELSE 404)
              ELSE [ask |-> ask, status |-> h.status, header |-> h.header, body |-> o.of.uniq]]

TsOpen(r) ==
    /\ alive /\ req[r] = Idle /\ resp[r] = NoResponse
    /\ \E n \in Paths, ask \in Asks \ {"POST"} : \E o \in OpenCachedFile(n) :
          /\ Handler(r, n, ask, o)
          /\ req' = [req EXCEPT ![r] = IF o.of.ok /\ ~IsDir(o.of.uniq)
                                       THEN [file |-> o.i, fd |-> o.of.fd,
                                             uniq |-> o.of.uniq, at |-> now]
                                       ELSE Idle]
    /\ UNCHANGED <<disk, gone, now, alive>>

(* Not GET or HEAD, or a request body that cannot be discarded.            *)
TsRefuse(r) ==
    /\ alive /\ req[r] = Idle /\ resp[r] = NoResponse
    /\ \E code \in {405, 400} :
          resp' = [resp EXCEPT ![r] = [ask |-> "POST", status |-> code, header |-> TRUE, body |-> 0]]
    /\ UNCHANGED vars

(* The request ends, and its connection may carry another one.             *)
TsEnd(r) ==
    /\ alive /\ resp[r] # NoResponse
    /\ IF req[r] = Idle THEN UNCHANGED <<c, req>>
       ELSE c' = Cleanup(c, req[r].file) /\ req' = [req EXCEPT ![r] = Idle]
    /\ resp' = [resp EXCEPT ![r] = NoResponse]
    /\ UNCHANGED <<disk, gone, now, alive>>

TsInit == Init /\ resp = [r \in Reqs |-> NoResponse]

TsNext ==
    \/ \E r \in Reqs : TsOpen(r) \/ TsRefuse(r) \/ TsEnd(r)
    \/ \E n \in Paths : Change(n) /\ UNCHANGED resp
    \/ Tick /\ UNCHANGED resp

TsSpec == TsInit /\ [][TsNext]_tsvars

-----------------------------------------------------------------------------

(* While a segment is being sent its descriptor is the inode whose size    *)
(* and time went into the header, whatever other requests and the disk do. *)
SegmentIsOneFile ==
    \A r \in Reqs : resp[r].body # 0 =>
        req[r] # Idle /\ req[r].uniq = resp[r].body /\ c.fd[req[r].fd] = resp[r].body

(* "in the 304 response the body was transferred" is listed as a bug that  *)
(* was fixed: a response of 304 has no body.                               *)
NoBodyIn304 == \A r \in Reqs : resp[r].status = 304 => resp[r].body = 0
=============================================================================
