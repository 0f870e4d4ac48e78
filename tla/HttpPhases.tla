----------------------------- MODULE HttpPhases -----------------------------
(* The phases of a request (http/ngx_http_core_module.c,                   *)
(* ngx_http_special_response.c): server and location rewrites, the search  *)
(* of a location, access checks, try_files, content, and what leads from   *)
(* one location to another: rewrites, index files, error pages, named      *)
(* locations, X-Accel-Redirect and post_action.                            *)
(*                                                                         *)
(* nginx calls a redirect from inside the phase that asks for it and then  *)
(* finalizes with NGX_DONE: frames counts those calls, which return after  *)
(* the redirected request has ended or waits.  What a handler of a module  *)
(* answers is chosen each time it is called; the configuration is chosen   *)
(* once.  The output is sent at once (HlsM3u8 has the other case).         *)
EXTENDS Integers, Sequences, FiniteSets, SequencesExt

CONSTANTS Uris,          (* each with a location of its own *)
          MaxUriChanges, (* 10 *)
          Width,         (* values of uri_changes, 4 bits: 16 *)
          Pages,         (* targets of error_page: URIs, "@n", "url" *)
          Satisfy,       (* "all", "any" *)
          PostActions,   (* targets of post_action, "" for none *)
          Subs           (* whether the request is a subrequest *)

VARIABLES conf, s
vars == <<conf, s>>

Named == "@n"
SRV == "server"
DONE == "done"
DECLINED == "declined"
OK == "ok"
AGAIN == "again"
ERROR == "error"
Codes == {"301", "401", "403", "404", "405", "500"}

-----------------------------------------------------------------------------
(* The handlers of all phases in one array.  next is the first handler     *)
(* after the phase.                                                        *)
Handlers == [post_read |-> <<"realip">>, server_rewrite |-> <<"rewrite">>, rewrite |-> <<"rewrite">>,
             preaccess |-> <<"limit">>, access |-> <<"access", "auth">>, content |-> <<"index", "static">>]
Checked(checker, hs, n) == [i \in DOMAIN hs |-> [checker |-> checker, handler |-> hs[i], next |-> n + Len(hs) + 1]]
ngx_http_init_phase_handlers ==
    LET one(c, next) == <<[checker |-> c, handler |-> "", next |-> next]>>
        a == Checked("generic", Handlers.post_read, 0)
        b == a \o Checked("rewrite", Handlers.server_rewrite, Len(a))
        find == Len(b) + 1
        c == b \o one("find_config", 0)
        d == c \o Checked("rewrite", Handlers.rewrite, Len(c))
        e == d \o one("post_rewrite", find)
        f == e \o Checked("generic", Handlers.preaccess, Len(e))
        g == f \o Checked("access", Handlers.access, Len(f) + 1) \o one("post_access", 0) \o one("try_files", 0)
    IN g \o Checked("content", Handlers.content, Len(g))
ph == ngx_http_init_phase_handlers
server_rewrite_index == Len(Handlers.post_read) + 1
location_rewrite_index == server_rewrite_index + Len(Handlers.server_rewrite) + 1

-----------------------------------------------------------------------------
(* What the modules answer.  An index or a file is "found", "dir" (in      *)
(* place of a file), or has the error its name says; "other" stands for    *)
(* the remaining errors, "none" for a failure before the call.             *)
Files == {"found", "dir", "none", "enoent", "enotdir", "eacces", "eloop", "other"}
ngx_http_index_error(err) == IF err = "eacces" THEN "403" ELSE "404"
ngx_http_index_test_dir(dir) ==
    CASE dir = "eloop" -> "403"
      [] dir = "enoent" -> ngx_http_index_error(dir)
      [] dir \in {"eacces", "dir"} -> OK
      [] OTHER -> "500"
RECURSIVE ngx_http_index_handler(_, _, _, _)
ngx_http_index_handler(files, uri, dir, dir_tested) ==
    LET err == Head(files)
        rc == ngx_http_index_test_dir(dir)
    IN CASE files = <<>> -> DECLINED
         [] files # <<>> /\ err \in {"found", "dir"} -> uri
         [] files # <<>> /\ err = "none" -> "500"
         [] files # <<>> /\ err = "eloop" -> "403"
         [] files # <<>> /\ err \in {"enotdir", "eacces"} -> ngx_http_index_error(err)
         [] files # <<>> /\ err \in {"enoent", "other"} /\ ~dir_tested /\ rc # OK -> rc
         [] files # <<>> /\ err = "other" /\ (dir_tested \/ rc = OK) -> "500"
         [] OTHER -> ngx_http_index_handler(Tail(files), uri, dir, TRUE)
(* What is open: a file that is not a regular one, or one to send.         *)
StaticFile(file, method) ==
    CASE file = "special" -> "404"
      [] file # "special" /\ method = "POST" -> "405"
      [] OTHER -> "served"

ngx_http_static_handler(file, method) ==
    CASE method = "other" -> "405"
      [] method # "other" /\ file \in {"none", "other"} -> "500"
      [] method # "other" /\ file \in {"enoent", "enotdir"} -> "404"
      [] method # "other" /\ file \in {"eacces", "eloop"} -> "403"
      [] method # "other" /\ file = "dir" -> "301"
      [] OTHER -> StaticFile(file, method)
IndexAnswers ==
    {DECLINED} \cup {ngx_http_index_handler(files, u, dir, FALSE) :
                        files \in {<<a, b>> : a, b \in Files}, u \in Uris, dir \in Files}
StaticAnswers == {DECLINED} \cup {ngx_http_static_handler(f, m) : f \in Files \cup {"special"}, m \in {"GET", "POST", "other"}}
HandlerAnswers == {"served", DECLINED, DONE, "404", ERROR}

ngx_http_access_handler == {DECLINED, OK, "403"}
(* The status of the subrequest that authorizes, when it has ended.        *)
ngx_http_auth_request_done == {"200", "401", "403", "502"}
ngx_http_auth_request_handler(status) ==
    CASE status \in {"401", "403"} -> status
      [] status = "200" -> OK
      [] OTHER -> "500"

-----------------------------------------------------------------------------
(* The location of a request, with its content handler.  visit is what its *)
(* access handlers said, since the request came to it.                     *)
ngx_http_update_location_config(r, loc) == [r EXCEPT !.loc = loc, !.handler = @ \/ conf.handler[loc], !.visit = <<>>, !.auth = ""]

Changed(r) == [r EXCEPT !.uri_changes = (@ - 1) % Width]
Count(r) == [r EXCEPT !.count = @ + 1]

(* The end of a reference, and of the request with the last.               *)
ngx_http_close_request(r) ==
    [r EXCEPT !.count = @ - 1, !.alert = @ \/ r.count = 0, !.freed = @ \/ r.count = 1]

(* A response, or the first part of one.                                   *)
ngx_http_send_header(r, status) ==
    IF r.post_action THEN r
    ELSE [r EXCEPT !.alert = @ \/ r.sent # "", !.sent = IF r.err_status # "" THEN "error" ELSE status]

Restart(r) ==
    [r EXCEPT !.phase = IF r.internal THEN server_rewrite_index ELSE 1, !.pc = "run"]

(* The two ways to another location, and the loop that is cut.  again: the *)
(* caller finalizes with NGX_DONE when they return.                        *)
Cycle(r) == [Count(r) EXCEPT !.todo = "500"]
ngx_http_internal_redirect(r, uri, again) ==
    LET c == [Changed(r) EXCEPT !.frames = @ + again]
    IN IF c.uri_changes = 0 THEN Cycle(c)
       ELSE Restart(Count(ngx_http_update_location_config([c EXCEPT !.uri = uri, !.internal = TRUE], SRV)))

ngx_http_named_location(r, again) ==
    LET c == [Changed(r) EXCEPT !.frames = @ + again]
        d == [c EXCEPT !.handler = FALSE, !.uri_changed = FALSE, !.internal = TRUE]
    IN IF c.uri_changes = 0 THEN Cycle(c)
       ELSE Count([ngx_http_update_location_config(d, Named) EXCEPT !.phase = location_rewrite_index, !.pc = "run"])

Redirect(r, to, again) ==
    IF to = Named THEN ngx_http_named_location(r, again) ELSE ngx_http_internal_redirect(r, to, again)

PostAction(r) == conf.post_action # "" /\ ~(r.post_action /\ r.uri_changes = 0)

ngx_http_post_action(r) ==
    Redirect([r EXCEPT !.count = @ - 1, !.post_action = TRUE], conf.post_action, 0)

-----------------------------------------------------------------------------
(* An error: a page of the location, unless it is an error in an error     *)
(* page, or the text that is built in.                                     *)
ngx_http_send_error_page(r, page) ==
    LET c == [r EXCEPT !.err_status = IF page.overwrite # "keep" THEN page.overwrite ELSE @]
    IN IF page.to # "url" THEN Redirect(c, page.to, 1)
       ELSE [ngx_http_send_header([c EXCEPT !.err_status = "302"], "302") EXCEPT !.todo = OK]

ngx_http_special_response_handler(r, error) ==
    LET c == [r EXCEPT !.err_status = error]
        pages == conf.pages[r.loc]
        d == IF ~r.error_page /\ pages # {} /\ r.uri_changes # 0
             THEN [c EXCEPT !.error_page = @ \/ ~conf.recursive] ELSE c
        fit == {p \in pages : p.status = error}
    IN IF ~r.error_page /\ r.uri_changes # 0 /\ fit # {}
       THEN ngx_http_send_error_page(d, CHOOSE p \in fit : TRUE)
       ELSE [ngx_http_send_header(d, error) EXCEPT !.todo = OK]

(* ngx_http_terminate_request() posts the end of the request.              *)
ngx_http_terminate_request(r) == [r EXCEPT !.todo = "", !.pc = "ret", !.terminated = TRUE]

(* todo is the code a request is being finalized with: one call each.      *)
FinalizeError(r) ==
    IF PostAction(r) THEN ngx_http_post_action(r) ELSE ngx_http_terminate_request(r)
FinalizeMain(r) ==
    IF PostAction(r) THEN ngx_http_post_action(r)
    ELSE ngx_http_close_request([r EXCEPT !.todo = "", !.pc = "ret", !.done = TRUE])
FinalizeSub(r) == [r EXCEPT !.todo = "", !.pc = "ret", !.count = @ - 1, !.done = TRUE]
ngx_http_finalize_request(r) ==
    LET c == [r EXCEPT !.todo = "", !.from = "", !.contents = <<>>, !.rule = <<"403">>] IN
    CASE r.todo = DONE -> ngx_http_close_request([c EXCEPT !.pc = "ret"])
      [] r.todo = DECLINED -> [c EXCEPT !.handler = FALSE, !.pc = "run"]
      [] r.todo = ERROR \/ r.terminated -> FinalizeError(c)
      [] r.todo \in Codes -> ngx_http_special_response_handler(c, r.todo)
      [] OTHER -> IF conf.sub THEN FinalizeSub(c) ELSE FinalizeMain(c)

-----------------------------------------------------------------------------
(* The checkers of the phases.  Each takes what the handler answered and   *)
(* goes on, waits, or finalizes.                                           *)
Finalize(r, rc) == [r EXCEPT !.todo = rc]
Wait(r) == [r EXCEPT !.pc = "ret", !.wait = "phase"]
Following(r) == [r EXCEPT !.phase = @ + 1]

ngx_http_core_generic_phase(r, rc) ==
    CASE rc = OK -> [r EXCEPT !.phase = ph[r.phase].next]
      [] rc = DECLINED -> Following(r)
      [] rc \in {AGAIN, DONE} -> Wait(r)
      [] OTHER -> Finalize(r, rc)

ngx_http_core_rewrite_phase(r, rc) == IF rc = DECLINED THEN Following(r) ELSE Finalize(r, rc)

ngx_http_core_find_config_phase(r) ==
    LET c == [r EXCEPT !.handler = FALSE, !.uri_changed = FALSE, !.loc = r.uri]
    IN IF ~r.internal /\ conf.internal[r.uri] THEN Finalize([c EXCEPT !.visit = <<>>], "404")
       ELSE Following(ngx_http_update_location_config(c, r.uri))

ngx_http_core_post_rewrite_phase(r) ==
    IF ~r.uri_changed THEN Following(r)
    ELSE LET c == Changed(r)
         IN IF c.uri_changes = 0 THEN Finalize(c, "500")
            ELSE [c EXCEPT !.phase = ph[r.phase].next, !.loc = SRV]

AccessAllNext(r, rc) ==
    LET c == [r EXCEPT !.visit = Append(@, rc)] IN
    CASE rc = DECLINED -> Following(c)
      [] rc = AGAIN -> Wait(r)
      [] rc = OK -> [c EXCEPT !.phase = ph[r.phase].next, !.access_code = ""]
      [] OTHER -> Finalize(c, rc)
ngx_http_core_access_phase(r, rc) ==
    LET c == [r EXCEPT !.visit = Append(@, rc)]
        any == conf.satisfy[r.loc] = "any"
    IN CASE conf.sub -> [r EXCEPT !.phase = ph[r.phase].next]
         [] ~conf.sub /\ rc = DECLINED -> Following(c)
         [] ~conf.sub /\ rc = AGAIN -> Wait(r)
         [] ~conf.sub /\ rc = OK /\ ~any -> Following(c)
         [] ~conf.sub /\ rc = OK /\ any -> [c EXCEPT !.access_code = "", !.phase = ph[r.phase].next]
         [] ~conf.sub /\ rc \in {"401", "403"} /\ any ->
                Following([c EXCEPT !.access_code = IF @ # "401" THEN rc ELSE @])
         [] OTHER -> Finalize(c, rc)

ngx_http_core_post_access_phase(r) ==
    IF r.access_code = "" THEN Following(r)
    ELSE Finalize([r EXCEPT !.access_code = "", !.rule = r.visit], r.access_code)

(* The URI is that of the file found.                                      *)
TriedFile(r) == Following(r)

(* got: the file found, the code or the target of the fallback, or "" for  *)
(* a location without try_files.                                           *)
ngx_http_core_try_files_phase(r, got) ==
    CASE got \in {"", "found"} -> TriedFile(r)
      [] got \in Codes -> Finalize(r, got)
      [] OTHER -> Redirect(r, got, 1)

(* rc: a code, NGX_DECLINED, "served", NGX_DONE after the handler took a   *)
(* reference and waits for a body or an upstream, or the URI of an index.  *)
ngx_http_core_content_phase(r, rc) ==
    LET c == [r EXCEPT !.contents = r.visit, !.from = r.loc] IN
    CASE rc = "served" -> Finalize(ngx_http_send_header(c, "200"), OK)
      [] rc = DONE -> [Count(c) EXCEPT !.wait = "content", !.todo = DONE]
      [] rc \in Uris -> ngx_http_internal_redirect(r, rc, 1)
      [] rc = DECLINED /\ r.handler -> Finalize(r, DECLINED)
      [] rc = DECLINED /\ ~r.handler -> IF r.phase < Len(ph) THEN Following(r) ELSE Finalize(r, "404")
      [] OTHER -> Finalize(r, rc)

-----------------------------------------------------------------------------
Locs == Uris \cup {Named, SRV}
PageSets == {{}} \cup {{[status |-> c, overwrite |-> o, to |-> t]} : c \in {"403", "500"}, o \in {"keep", ""}, t \in Pages}
Init ==
    /\ \E satisfy \in [Uris -> Satisfy], pages \in PageSets, handler \in BOOLEAN,
          internal \in {{}} \cup {{l} : l \in Uris} :
        conf \in [satisfy : {[l \in Locs |-> IF l \in Uris THEN satisfy[l] ELSE "all"]},
                 pages : {[l \in Locs |-> IF l \in Uris THEN pages ELSE {}]},
                 recursive : BOOLEAN, sub : Subs, post_action : PostActions,
                 internal : {[l \in Locs |-> l \in internal]},
                 handler : {[l \in Locs |-> l # SRV /\ handler]}]
    /\ \E u \in Uris :
        s = [phase |-> IF conf.sub THEN server_rewrite_index ELSE 1, loc |-> SRV, uri |-> u, internal |-> conf.sub,
             handler |-> FALSE, uri_changes |-> MaxUriChanges + 1, uri_changed |-> FALSE, access_code |-> "",
             error_page |-> FALSE, err_status |-> "", post_action |-> FALSE,
             count |-> IF conf.sub THEN 2 ELSE 1, frames |-> 0, todo |-> "", pc |-> "run", wait |-> "",
             terminated |-> FALSE, done |-> FALSE, freed |-> FALSE, sent |-> "", alert |-> FALSE,
             visit |-> <<>>, contents |-> <<>>, from |-> "", auth |-> "", rule |-> <<"403">>]

Running(checker) == s.pc = "run" /\ s.todo = "" /\ ph[s.phase].checker = checker

(* A handler that waited is called again, and waits no more.               *)
Waiting == IF s.wait = "woken" THEN {} ELSE {AGAIN}
Woken == [s EXCEPT !.wait = ""]

Generic ==
    Running("generic") /\ \E rc \in {DECLINED, OK, "500"} \cup Waiting : s' = ngx_http_core_generic_phase(Woken, rc)

(* The rewrite module: the scripts of the server and of the location.      *)
Rewrite ==
    /\ Running("rewrite")
    /\ \/ s' = ngx_http_core_rewrite_phase(s, DECLINED)
       \/ s' = ngx_http_core_rewrite_phase(s, IF s.err_status = "" THEN "403" ELSE s.err_status)
       \/ \E u \in Uris, last \in BOOLEAN :
              s' = ngx_http_core_rewrite_phase([s EXCEPT !.uri = u, !.internal = TRUE, !.uri_changed = last], DECLINED)

FindConfig == Running("find_config") /\ s' = ngx_http_core_find_config_phase(s)
PostRewrite == Running("post_rewrite") /\ s' = ngx_http_core_post_rewrite_phase(s)
Access ==
    /\ Running("access")
    /\ \/ /\ ph[s.phase].handler = "access"
          /\ \E rc \in ngx_http_access_handler : s' = ngx_http_core_access_phase(s, rc)
       \/ /\ ph[s.phase].handler = "auth" /\ s.auth = ""
          /\ \/ s' = ngx_http_core_access_phase(s, DECLINED)
             \/ ~conf.sub /\ s' = ngx_http_core_access_phase([s EXCEPT !.auth = "sub", !.count = @ + 1], AGAIN)
       \/ /\ ph[s.phase].handler = "auth" /\ s.auth # ""
          /\ s' = ngx_http_core_access_phase([s EXCEPT !.wait = ""], ngx_http_auth_request_handler(s.auth))
PostAccess == Running("post_access") /\ s' = ngx_http_core_post_access_phase(s)
TryFiles ==
    Running("try_files") /\ \E got \in {"", "found", "404"} \cup Uris \cup {Named} : s' = ngx_http_core_try_files_phase(s, got)
Content ==
    /\ Running("content")
    /\ \E rc \in (IF s.handler THEN HandlerAnswers
                  ELSE IF ph[s.phase].handler = "index" THEN IndexAnswers ELSE StaticAnswers) :
           s' = ngx_http_core_content_phase(s, rc)

Finalizing == s.todo # "" /\ s' = ngx_http_finalize_request(s)

(* A call that redirected the request returns, with NGX_DONE.              *)
Unwind ==
    /\ s.pc = "ret" /\ s.todo = "" /\ s.frames > 0
    /\ s' = [ngx_http_close_request(s) EXCEPT !.frames = @ - 1]

Idle == s.pc = "ret" /\ s.todo = "" /\ s.frames = 0

(* What was waited for happens: the phase goes on, or the content handler  *)
(* ends, or redirects.                                                     *)
Event ==
    /\ Idle /\ ~s.terminated /\ s.wait # ""
    /\ \/ s.wait = "phase" /\ s.auth # "sub" /\ s' = [s EXCEPT !.pc = "run", !.wait = "woken"]
       \/ /\ s.wait = "phase" /\ s.auth = "sub"
          /\ \E status \in ngx_http_auth_request_done :
                 s' = [s EXCEPT !.auth = status, !.count = @ - 1, !.pc = "run", !.wait = ""]
       \/ /\ s.wait = "content"
          /\ \/ s' = Finalize(ngx_http_send_header([s EXCEPT !.wait = ""], "200"), OK)
             \/ \E rc \in {ERROR, "404"} : s' = Finalize([s EXCEPT !.wait = ""], rc)
             \/ \E to \in Uris \cup {Named} : s' = Redirect([s EXCEPT !.wait = ""], to, 1)

ngx_http_terminate_handler ==
    /\ Idle /\ s.terminated /\ ~s.freed
    /\ s' = ngx_http_close_request([s EXCEPT !.count = 1])

Next ==
    /\ UNCHANGED conf
    /\ \/ Generic \/ Rewrite \/ FindConfig \/ PostRewrite \/ Access \/ PostAccess \/ TryFiles \/ Content
       \/ Finalizing \/ Unwind \/ Event \/ ngx_http_terminate_handler

(* The events of a request come, or their timers do.                       *)
Spec == Init /\ [][Next]_vars

-----------------------------------------------------------------------------
All == Len(Handlers.access)
Satisfied(loc, visit) ==
    \/ Len(visit) = All /\ ToSet(visit) \subseteq {DECLINED}
    \/ conf.satisfy[loc] = "all" /\ Len(visit) = All /\ ToSet(visit) \subseteq {DECLINED, OK}
    \/ conf.satisfy[loc] = "any" /\ OK \in ToSet(visit)

(* Whatever redirects, rewrites, error pages and waiting came before, the  *)
(* content of a location is served only after the access handlers agreed   *)
(* for that location, in the way its satisfy directive says                *)
(* (ngx_http_core_access_phase, ngx_http_core_post_access_phase).          *)
Authorized == s.from # "" /\ ~conf.sub => Satisfied(s.from, s.contents)

(* The request is freed once, when the last call on the stack that uses it *)
(* has returned, and the client has got one response (the alerts "http     *)
(* request count is zero" and "header already sent").                      *)
CountExact ==
    /\ ~s.alert
    /\ s.freed => s.frames = 0 /\ s.count = 0
    /\ ~s.freed /\ s.todo # DONE => s.count = s.frames + (IF s.done THEN 0 ELSE 1) + (IF conf.sub THEN 1 ELSE 0) + (IF s.auth = "sub" THEN 1 ELSE 0)

=============================================================================
