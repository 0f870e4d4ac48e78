----------------------------- MODULE AccessLog ------------------------------
(***************************************************************************)
(* Access logs: the format, the directives, and the log while it is        *)
(* written.                                                                *)
(***************************************************************************)
EXTENDS Integers, Sequences, SequencesExt, FiniteSets

(***************************************************************************)
(* The lines of an access log: log_format is compiled into operations, and *)
(* every line is made in two passes over them, one that adds up how much   *)
(* room the line needs and one that writes it there.  The http and the     *)
(* stream module hold the same code twice.                                 *)
(*                                                                         *)
(* Texts are sequences of characters, and characters are their codes.      *)
(* Variables are told apart by the length of their name: one character is  *)
(* a variable of the log module itself (its field has a fixed room), two   *)
(* are a variable of the request, more are one that is not found.          *)
(***************************************************************************)

CONSTANTS FormatModule,     \* "http" or "stream"
          MaxFormat,  \* the longest format
          MaxValue,   \* the longest value of a variable
          FormatChars, ValueChars

VARIABLES text,       \* the format
          json,       \* escape=json
          value,      \* the value of the variable
          fmt           \* what was compiled, and the line

formatVars == <<text, json, value, fmt>>

Dollar == 36

Open == 123

Close == 125

Backslash == 92

Quote == 34

NameChar(c) == c \in (65 .. 90) \cup (97 .. 122) \cup (48 .. 57) \cup {95}

Lit(t) == [kind |-> "literal", text |-> t, len |-> Len(t)]

Var(n) == [kind |-> "variable", text |-> n, len |-> IF FormatModule = "http" /\ Len(n) = 1 THEN 3 ELSE 0]

-----------------------------------------------------------------------------

(* ngx_http_log_compile_format() *)

RECURSIVE NameEnd(_, _)

NameEnd(t, i) == IF i <= Len(t) /\ NameChar(t[i]) THEN NameEnd(t, i + 1) ELSE i

RECURSIVE LiteralEnd(_, _)

LiteralEnd(t, i) == IF i <= Len(t) /\ t[i] # Dollar THEN LiteralEnd(t, i + 1) ELSE i

\* A variable, behind its dollar
Variable(t, i) ==
    IF i > Len(t) THEN [rc |-> "invalid"]
    ELSE LET b == t[i] = Open
             from == IF b THEN i + 1 ELSE i
             to == NameEnd(t, from)
         IN IF from > Len(t) THEN [rc |-> "invalid"]
            ELSE IF b /\ (to > Len(t) \/ t[to] # Close) THEN [rc |-> "bracket"]
            ELSE IF to = from THEN [rc |-> "invalid"]
            ELSE [rc |-> "ok", op |-> Var(SubSeq(t, from, to - 1)), next |-> IF b THEN to + 1 ELSE to]

Literal(t, i) == [rc |-> "ok", op |-> Lit(SubSeq(t, i, LiteralEnd(t, i + 1) - 1)), next |-> LiteralEnd(t, i + 1)]

RECURSIVE CompileFrom(_, _, _)

CompileNext(t, ops, r) == IF r.rc # "ok" THEN [rc |-> r.rc, ops |-> <<>>]
                          ELSE CompileFrom(t, r.next, Append(ops, r.op))

CompileFrom(t, i, ops) ==
    IF i > Len(t) THEN [rc |-> "ok", ops |-> ops]
    ELSE CompileNext(t, ops, IF t[i] = Dollar THEN Variable(t, i + 1) ELSE Literal(t, i))

ngx_http_log_compile_format(t) == CompileFrom(t, 1, <<>>)

ngx_stream_log_compile_format(t) == CompileFrom(t, 1, <<>>)

-----------------------------------------------------------------------------

(* The escapes *)

\* The bits of escape[]
Escaped(c) == c < 32 \/ c \in {Quote, Backslash} \/ c >= 127

Hex(n) == IF n < 10 THEN 48 + n ELSE 55 + n

Escape(c) == IF Escaped(c) THEN <<Backslash, 120, Hex(c \div 16), Hex(c % 16)>> ELSE <<c>>

ngx_http_log_escape_count(v) == Len(SelectSeq(v, Escaped))

ngx_http_log_escape(v) == FlattenSeq([i \in DOMAIN v |-> Escape(v[i])])

\* \n \r \t \b \f
Short(c) == CASE c = 10 -> 110 [] c = 13 -> 114 [] c = 9 -> 116 [] c = 8 -> 98 [] c = 12 -> 102 [] OTHER -> 0

JsonMore(c) == IF c \in {Quote, Backslash} \/ (c < 32 /\ Short(c) # 0) THEN 1 ELSE IF c < 32 THEN 5 ELSE 0

JsonChar(c) ==
    IF c >= 32 THEN IF c \in {Quote, Backslash} THEN <<Backslash, c>> ELSE <<c>>
    ELSE IF Short(c) # 0 THEN <<Backslash, Short(c)>>
    ELSE <<Backslash, 117, 48, 48, 48 + (c \div 16), Hex(c % 16)>>

ngx_escape_json_count(v) == FoldLeft(LAMBDA n, c : n + JsonMore(c), 0, v)

ngx_escape_json(v) == FlattenSeq([i \in DOMAIN v |-> JsonChar(v[i])])

-----------------------------------------------------------------------------

(* The two passes.  The first one leaves in the value whether there is      *)
(* anything to escape, for the second one.                                  *)

Found(op) == Len(op.text) = 2 \/ (FormatModule = "stream" /\ Len(op.text) = 1)

ngx_http_log_variable_getlen(v) == Len(v) + ngx_http_log_escape_count(v) * 3

ngx_stream_log_variable_getlen(v) == ngx_http_log_variable_getlen(v)

ngx_http_log_json_variable_getlen(v) == Len(v) + ngx_escape_json_count(v)

ngx_stream_log_json_variable_getlen(v) == ngx_http_log_json_variable_getlen(v)

Getlen(op) ==
    IF ~Found(op) THEN IF json THEN 0 ELSE 1
    ELSE CASE FormatModule = "http" /\ ~json -> ngx_http_log_variable_getlen(value)
           [] FormatModule = "http" /\ json -> ngx_http_log_json_variable_getlen(value)
           [] FormatModule = "stream" /\ ~json -> ngx_stream_log_variable_getlen(value)
           [] OTHER -> ngx_stream_log_json_variable_getlen(value)

\* The escape flag is left from the first pass
ngx_http_log_variable(v) == IF ngx_http_log_escape_count(v) = 0 THEN v ELSE ngx_http_log_escape(v)

ngx_stream_log_variable(v) == ngx_http_log_variable(v)

ngx_http_log_json_variable(v) == IF ngx_escape_json_count(v) = 0 THEN v ELSE ngx_escape_json(v)

ngx_stream_log_json_variable(v) == ngx_http_log_json_variable(v)

\* A number of the request: up to the room of the field
Field(n) == [i \in 1 .. n |-> 48]

RunOp(op, n) ==
    IF op.kind = "literal" THEN op.text
    ELSE IF op.len > 0 THEN Field(n)
    ELSE IF ~Found(op) THEN IF json THEN <<>> ELSE <<45>>
    ELSE CASE FormatModule = "http" /\ ~json -> ngx_http_log_variable(value)
           [] FormatModule = "http" /\ json -> ngx_http_log_json_variable(value)
           [] FormatModule = "stream" /\ ~json -> ngx_stream_log_variable(value)
           [] OTHER -> ngx_stream_log_json_variable(value)

Room(ops) == FoldLeft(LAMBDA n, op : n + (IF op.len = 0 THEN Getlen(op) ELSE op.len), 0, ops)

LineOf(ops, n) == FlattenSeq([i \in DOMAIN ops |-> RunOp(ops[i], n)])

-----------------------------------------------------------------------------

FormatInit == /\ text \in UNION {[1 .. n -> FormatChars] : n \in 0 .. MaxFormat}
              /\ json \in BOOLEAN /\ value = <<>>
              /\ fmt = [rc |-> "", ops |-> <<>>, room |-> 0, line |-> <<>>, logged |-> FALSE]

\* log_format of the configuration
Compile ==
    /\ fmt.rc = ""
    /\ \E r \in {IF FormatModule = "http" THEN ngx_http_log_compile_format(text) ELSE ngx_stream_log_compile_format(text)} :
         fmt' = [fmt EXCEPT !.rc = r.rc, !.ops = r.ops]
    /\ UNCHANGED <<text, json, value>>

\* The line of a request with some value of the variable
GiveValue == /\ fmt.rc = "ok" /\ ~fmt.logged /\ value = <<>>
             /\ \E k \in DOMAIN fmt.ops : fmt.ops[k].kind = "variable" /\ Found(fmt.ops[k])
             /\ value' \in UNION {[1 .. n -> ValueChars] : n \in 1 .. MaxValue}
             /\ UNCHANGED <<text, json, fmt>>

LogLine(n) ==
    /\ fmt.rc = "ok" /\ ~fmt.logged
    /\ fmt' = [fmt EXCEPT !.room = Room(fmt.ops), !.line = LineOf(fmt.ops, n), !.logged = TRUE]
    /\ UNCHANGED <<text, json, value>>

FormatNext == Compile \/ GiveValue \/ \E n \in {1, 3} : LogLine(n)

FormatSpec == FormatInit /\ [][FormatNext]_formatVars

-----------------------------------------------------------------------------

\* Where the text has a variable: a dollar and a longest name, perhaps in brackets
Source(op) == IF op.kind = "literal" THEN {op.text}
              ELSE {<<Dollar>> \o op.text, <<Dollar, Open>> \o op.text \o <<Close>>}

RECURSIVE Spelled(_, _)

Spelled(ops, t) ==
    IF ops = <<>> THEN t = <<>>
    ELSE \E src \in Source(Head(ops)) : Len(src) <= Len(t) /\ SubSeq(t, 1, Len(src)) = src
                                        /\ Spelled(Tail(ops), SubSeq(t, Len(src) + 1, Len(t)))

\* Compiling loses nothing of the format: the operations, written out, are the
\* text again; a literal holds no dollar, two literals never follow each other, a
\* name is one of names' characters and goes as far as it can.
Compiled ==
    fmt.rc = "ok" =>
        /\ Spelled(fmt.ops, text)
        /\ \A k \in DOMAIN fmt.ops :
             IF fmt.ops[k].kind = "literal"
             THEN /\ Dollar \notin Range(fmt.ops[k].text)
                  /\ k < Len(fmt.ops) => fmt.ops[k + 1].kind = "variable"
             ELSE fmt.ops[k].text # <<>> /\ \A c \in Range(fmt.ops[k].text) : NameChar(c)

\* A format is refused exactly when some dollar has no name behind it, in brackets
\* or not.
DollarAt(i) == text[i] = Dollar

Named(i) == \/ i < Len(text) /\ NameChar(text[i + 1])
            \/ /\ i < Len(text) /\ text[i + 1] = Open
               /\ \E j \in (i + 3) .. Len(text) : text[j] = Close /\ \A k \in (i + 2) .. (j - 1) : NameChar(text[k])

Refused == fmt.rc # "" => ((fmt.rc = "ok") <=> \A i \in DOMAIN text : DollarAt(i) => Named(i))

\* The line fits into the room the first pass found for it, and if no field of fixed
\* room is shorter than its room, it fills it.
RoomEnough ==
    fmt.logged => /\ Len(fmt.line) <= fmt.room
                  /\ (\A k \in DOMAIN fmt.ops : fmt.ops[k].kind = "literal" \/ fmt.ops[k].len = 0) => Len(fmt.line) = fmt.room

\* How a reader of the log takes a value out of it again
UnHex(c) == IF c < 58 THEN c - 48 ELSE c - 55

RECURSIVE UnEscape(_)

UnEscape(t) ==
    IF t = <<>> THEN <<>>
    ELSE IF t[1] # Backslash THEN <<t[1]>> \o UnEscape(Tail(t))
    ELSE IF Len(t) >= 4 /\ t[2] = 120 THEN <<16 * UnHex(t[3]) + UnHex(t[4])>> \o UnEscape(SubSeq(t, 5, Len(t)))
    ELSE IF Len(t) >= 6 /\ t[2] = 117 THEN <<16 * UnHex(t[5]) + UnHex(t[6])>> \o UnEscape(SubSeq(t, 7, Len(t)))
    ELSE IF Len(t) >= 2 /\ t[2] \in {Quote, Backslash} THEN <<t[2]>> \o UnEscape(SubSeq(t, 3, Len(t)))
    ELSE IF Len(t) >= 2 /\ \E c \in 8 .. 13 : Short(c) = t[2]
    THEN <<CHOOSE c \in 8 .. 13 : Short(c) = t[2]>> \o UnEscape(SubSeq(t, 3, Len(t)))
    ELSE <<>>

\* A value of a request, whatever its characters, puts no quote of its own and no
\* control character into the line, and can be read back out of it.
Readable ==
    fmt.logged /\ fmt.ops # <<>> /\ Len(fmt.ops) = 1 /\ fmt.ops[1].kind = "variable" /\ Found(fmt.ops[1]) /\ fmt.ops[1].len = 0
        => /\ UnEscape(fmt.line) = value
           /\ \A i \in DOMAIN fmt.line : fmt.line[i] >= 32 /\ (fmt.line[i] = Quote => i > 1 /\ fmt.line[i - 1] = Backslash)

-----------------------------------------------------------------------------

(***************************************************************************)
(* The directives of the access logs: log_format, access_log and           *)
(* open_log_file_cache of two levels (the inner one inherits), with what   *)
(* is left of them for the log phase.  The http module has a format of its *)
(* own, "combined", and a log where none is given; the stream module has   *)
(* neither.  The name of a format is <<word, case>>: the spellings of one  *)
(* word differ in case.                                                    *)
(***************************************************************************)

CONSTANTS ConfModule,         \* "http" or "stream"
          ConfFiles,          \* what logs are written to: "a", "b", "syslog", "$v"
          Formats,        \* words for formats
          Cases,          \* spellings, 0 is lower case
          Buffers,        \* buffer= values, 0 for none
          Flushes,        \* flush= values, 0 for none
          Gzips,          \* gzip= levels, 0 for none
          Caches,         \* open_log_file_cache: max= values, 0 for none, 9 for off
          MaxDirectives

VARIABLES directives,   \* the directives so far
          lconf        \* the configuration

confVars == <<directives, lconf>>

Levels == {"outer", "inner"}

Default == 64

Off == 9

AccessLog == [d : {"access_log"}, at : Levels, file : ConfFiles, format : {<<>>} \cup (Formats \X Cases),
              buffer : Buffers, flush : Flushes, gzip : Gzips]

Directives ==
    {x \in AccessLog : (x.flush # 0 \/ x.gzip # 0 \/ x.buffer # 0) => x.format # <<>>}
    \cup [d : {"off"}, at : Levels]
    \cup [d : {"log_format"}, name : Formats \X Cases]
    \cup {[d |-> "cache", at |-> l, max |-> m] : l \in Levels, m \in Caches}

None == [size |-> 0, flush |-> 0, gzip |-> 0]

Combined == <<"combined", 0>>

UnsetCache == -2

-----------------------------------------------------------------------------

ngx_http_log_create_main_conf == <<[name |-> Combined, ops |-> FALSE]>>

ngx_stream_log_create_main_conf == <<>>

ngx_http_log_create_loc_conf == [logs |-> <<>>, off |-> FALSE, cache |-> UnsetCache]

ngx_stream_log_create_srv_conf == ngx_http_log_create_loc_conf

Error(v) == [v EXCEPT !.rc = "error"]

ngx_http_log_set_format(v, x) ==
    IF \E i \in DOMAIN v.formats : v.formats[i].name = x.name THEN Error(v)
    ELSE [v EXCEPT !.formats = Append(@, [name |-> x.name, ops |-> TRUE])]

ngx_stream_log_set_format(v, x) == ngx_http_log_set_format(v, x)

\* Names of formats are looked up whatever their case: the first one
Format(v, name) == LET S == {i \in DOMAIN v.formats : v.formats[i].name[1] = name[1]}
                   IN IF S = {} THEN 0 ELSE CHOOSE i \in S : \A j \in S : i <= j

\* The buffer belongs to the file: directives of one file must agree
BufferOf(v, x, size) ==
    LET b == v.files[x.file]
        n == [size |-> size, flush |-> x.flush, gzip |-> x.gzip]
    IN IF b = None THEN [v EXCEPT !.files[x.file] = n] ELSE IF b = n THEN v ELSE Error(v)

SizeOf(x) == IF x.gzip # 0 /\ x.buffer = 0 THEN Default ELSE x.buffer

Params(v, x, size) ==
    IF x.flush # 0 /\ size = 0 THEN Error(v)
    ELSE IF size = 0 THEN v
    ELSE IF x.file \in {"$v", "syslog"} THEN Error(v)
    ELSE BufferOf(v, x, size)

Logged(v, x, i) ==
    IF i = 0 THEN Error(v)
    ELSE Params([v EXCEPT !.at[x.at].logs = Append(@, [file |-> x.file, format |-> i])], x, SizeOf(x))

ngx_http_log_set_log(v, x) ==
    IF x.format = <<>> THEN Logged([v EXCEPT !.combined_used = TRUE], x, Format(v, Combined))
    ELSE Logged([v EXCEPT !.combined_used = @ \/ x.format = Combined], x, Format(v, x.format))

ngx_stream_log_set_log(v, x) == IF x.format = <<>> THEN Error(v) ELSE Logged(v, x, Format(v, x.format))

ngx_http_log_open_file_cache(v, x) ==
    IF v.at[x.at].cache # UnsetCache \/ x.max = 0 THEN Error(v) ELSE [v EXCEPT !.at[x.at].cache = x.max]

ngx_stream_log_open_file_cache(v, x) == ngx_http_log_open_file_cache(v, x)

MergeCache(prev, conf) == IF conf.cache # UnsetCache THEN conf.cache
                          ELSE IF prev.cache = UnsetCache THEN Off ELSE prev.cache

MergeLogs(v, prev, conf) ==
    IF conf.logs # <<>> \/ conf.off THEN conf
    ELSE [conf EXCEPT !.logs = prev.logs, !.off = prev.off]

UsesDefault(conf) == conf.logs = <<>> /\ ~conf.off

ngx_http_log_merge_loc_conf(v, prev, conf) ==
    LET m == MergeLogs(v, prev, [conf EXCEPT !.cache = MergeCache(prev, conf)])
    IN IF UsesDefault(m) THEN [m EXCEPT !.logs = <<[file |-> "default", format |-> 1]>>] ELSE m

ngx_stream_log_merge_srv_conf(v, prev, conf) ==
    MergeLogs(v, prev, [conf EXCEPT !.cache = MergeCache(prev, conf)])

\* The http module compiles its own format if some log uses it
ngx_http_log_init(v) == [v EXCEPT !.formats = [i \in DOMAIN @ |-> [@[i] EXCEPT !.ops = @ \/ (i = 1 /\ v.combined_used)]]]

ngx_stream_log_init(v) == v

-----------------------------------------------------------------------------

\* A directive of the configuration
Directive(x) ==
    /\ lconf.rc = "" /\ Len(directives) < MaxDirectives
    /\ directives' = Append(directives, x)
    /\ lconf' = CASE x.d = "off" -> [lconf EXCEPT !.at[x.at].off = TRUE]
                  [] x.d = "access_log" -> IF ConfModule = "http" THEN ngx_http_log_set_log(lconf, x) ELSE ngx_stream_log_set_log(lconf, x)
                  [] x.d = "log_format" -> IF ConfModule = "http" THEN ngx_http_log_set_format(lconf, x)
                                           ELSE ngx_stream_log_set_format(lconf, x)
                  [] x.d = "cache" -> IF ConfModule = "http" THEN ngx_http_log_open_file_cache(lconf, x)
                                      ELSE ngx_stream_log_open_file_cache(lconf, x)

\* The end of the configuration: the outer level is merged into the inner one
Merged(v) ==
    IF ConfModule = "http"
    THEN ngx_http_log_init([v EXCEPT !.at["inner"] = ngx_http_log_merge_loc_conf(v, v.at["outer"], @),
                                     !.combined_used = @ \/ UsesDefault(MergeLogs(v, v.at["outer"], v.at["inner"]))])
    ELSE ngx_stream_log_init([v EXCEPT !.at["inner"] = ngx_stream_log_merge_srv_conf(v, v.at["outer"], @)])

Finish == lconf.rc = "" /\ lconf' = [Merged(lconf) EXCEPT !.rc = "ok"] /\ UNCHANGED directives

ConfInit == /\ directives = <<>>
            /\ lconf = [rc |-> "", combined_used |-> FALSE, files |-> [f \in ConfFiles |-> None],
                        formats |-> IF ConfModule = "http" THEN ngx_http_log_create_main_conf ELSE ngx_stream_log_create_main_conf,
                        at |-> [l \in Levels |-> IF ConfModule = "http" THEN ngx_http_log_create_loc_conf
                                                 ELSE ngx_stream_log_create_srv_conf]]

ConfNext == Finish \/ \E x \in Directives : Directive(x)

ConfSpec == ConfInit /\ [][ConfNext]_confVars

-----------------------------------------------------------------------------

At(l, ds) == SelectSeq(directives, LAMBDA x : x.d \in ds /\ x.at = l)

FileSeq(s) == [i \in DOMAIN s |-> s[i].file]

Has(l, ds) == At(l, ds) # <<>>

\* The logs of a location are those of its own directives, or of the level around it,
\* or the default one of http; off of the level that counts turns off all of them
\* ("the access_log off directive did not always turn off the logging", CHANGES).
LogsExact ==
    lconf.rc = "ok" =>
          LET l == IF Has("inner", {"off", "access_log"}) THEN "inner" ELSE "outer"
              conf == lconf.at["inner"]
          IN /\ conf.off = Has(l, {"off"})
             /\ ~conf.off => FileSeq(conf.logs) = IF Has(l, {"access_log"}) THEN FileSeq(At(l, {"access_log"}))
                                                  ELSE IF ConfModule = "http" THEN <<"default">> ELSE <<>>

\* A file has one buffer, with the parameters of every directive that gives some; a
\* file no directive gives a buffer has none.
BuffersExact ==
    lconf.rc = "ok" => \A f \in ConfFiles :
          LET S == {x \in {directives[i] : i \in DOMAIN directives} : x.d = "access_log" /\ x.file = f /\ (x.buffer # 0 \/ x.gzip # 0)}
          IN IF S = {} THEN lconf.files[f] = None
             ELSE \A x \in S : lconf.files[f] = [size |-> IF x.buffer = 0 THEN Default ELSE x.buffer,
                                                 flush |-> x.flush, gzip |-> x.gzip]

\* The cache of open logs is that of the nearest level that says anything of it.
CacheExact ==
    lconf.rc = "ok" => lconf.at["inner"].cache =
          IF Has("inner", {"cache"}) THEN At("inner", {"cache"})[1].max
          ELSE IF Has("outer", {"cache"}) THEN At("outer", {"cache"})[1].max ELSE Off

\* A log that counts is written in a format of the name its directive gives (in some
\* case), defined before it.
Wanted(l) == [i \in DOMAIN At(l, {"access_log"}) |->
                IF At(l, {"access_log"})[i].format = <<>> THEN "combined" ELSE At(l, {"access_log"})[i].format[1]]

FormatsExact ==
    lconf.rc = "ok" => LET l == IF Has("inner", {"off", "access_log"}) THEN "inner" ELSE "outer"
                       IN Has(l, {"access_log"}) =>
                            [i \in DOMAIN lconf.at["inner"].logs |-> lconf.formats[lconf.at["inner"].logs[i].format].name[1]] = Wanted(l)

\* No log is made of empty lines: its format is compiled ("if the combined format was
\* explicitly specified in the access_log directive, then the empty lines was written
\* to the log", CHANGES, a bug that was fixed).
LinesNotEmpty == lconf.rc = "ok" => \A i \in DOMAIN lconf.at["inner"].logs : lconf.formats[lconf.at["inner"].logs[i].format].ops

-----------------------------------------------------------------------------

(***************************************************************************)
(* Writing the access logs of a worker: the log phase of a request puts a  *)
(* line into the buffer of the file or writes it at once; buffers are      *)
(* written when they are full, when their timer expires, when the files    *)
(* are reopened and when the worker exits.  Around it the time passes, the *)
(* disk fills up and empties, logs are rotated, syslog is restarted.       *)
(*                                                                         *)
(* A line is [id, size]: the request it is about and its length; room may  *)
(* be more than that.  A file is a sequence of [id, cut].                  *)
(***************************************************************************)

CONSTANTS LogModule,       \* "http" or "stream"
          Kind,         \* which logs there are, see Logs
          Sizes,        \* sizes of lines
          Spare,        \* how much less a line may take than its room
          BufferSize,
          FlushTime,    \* flush=, 0 for none
          Minute,       \* a message a minute: the 60 of the code
          Disks,        \* what may happen to writes: "ok", "full", "short", "error"
          MaxRequests, MaxTime, MaxDisk, MaxReopen

VARIABLES lg

logVars == <<lg>>

\* A log: the file it goes to ("" for syslog), whether it has an if= that drops every
\* second request, whether its name has variables
Log(file, cond, script) == [file |-> file, cond |-> cond, script |-> script, syslog |-> file = ""]

Logs == CASE Kind = "one" -> <<Log("a", FALSE, FALSE)>>
          [] Kind = "shared" -> <<Log("a", TRUE, FALSE), Log("a", FALSE, FALSE)>>
          [] Kind = "script" -> <<Log("b", FALSE, TRUE), Log("a", TRUE, FALSE)>>
          [] Kind = "syslog" -> <<Log("", FALSE, FALSE)>>

LogFiles == {"a", "b"}

HasBuffer(f) == f = "a" /\ BufferSize > 0

Used(lines) == FoldLeft(LAMBDA n, l : n + l.size, 0, lines)

-----------------------------------------------------------------------------

(* The disk *)

\* An inode per period between two reopenings
Put(v, f, lines) == [v EXCEPT !.disk[f][v.fd[f]] = @ \o lines]

Whole(lines) == [i \in DOMAIN lines |-> [id |-> lines[i].id, cut |-> FALSE]]

\* All but the last byte
CutShort(lines) ==
    IF lines[Len(lines)].size = 1 THEN Whole(SubSeq(lines, 1, Len(lines) - 1))
    ELSE [Whole(lines) EXCEPT ![Len(lines)].cut = TRUE]

\* write(): what is there afterwards, and the result
Written(v, f, lines) ==
    CASE v.disk_state = "ok" \/ lines = <<>> -> [v |-> Put(v, f, Whole(lines)), n |-> "all"]
      [] v.disk_state = "short" /\ lines # <<>> -> [v |-> Put(v, f, CutShort(lines)), n |-> "short"]
      [] OTHER -> [v |-> v, n |-> v.disk_state]

\* ngx_http_log_gzip(): a member of its own for all the lines, or none that could be read
ngx_http_log_gzip(v, f, lines) ==
    CASE v.disk_state = "ok" -> [v |-> Put(v, f, Whole(lines)), n |-> "all"]
      [] v.disk_state = "short" -> [v |-> v, n |-> "error"]
      [] OTHER -> [v |-> v, n |-> v.disk_state]

ngx_stream_log_gzip(v, f, lines) == ngx_http_log_gzip(v, f, lines)

Write(v, f, lines) ==
    IF Kind # "shared" \/ ~HasBuffer(f) THEN Written(v, f, lines)
    ELSE IF LogModule = "http" THEN ngx_http_log_gzip(v, f, lines) ELSE ngx_stream_log_gzip(v, f, lines)

\* A message in the error log, about a file
Alert(v, f) == [v EXCEPT !.alerts[f] = Append(@, v.now)]

\* ngx_http_log_script_write(): the file is opened by its name; if it cannot be, or if
\* the root of the request does not exist, the line is given up in silence
ngx_http_log_script_write(v, f, lines) ==
    IF ~v.root THEN [v |-> v, n |-> "all"] ELSE Written(v, f, lines)

ngx_stream_log_script_write(v, f, lines) == Written(v, f, lines)

ScriptWrite(v, f, lines) ==
    IF LogModule = "http" THEN ngx_http_log_script_write(v, f, lines) ELSE ngx_stream_log_script_write(v, f, lines)

WriteResult(r, k, f) ==
    CASE r.n = "all" -> r.v
      [] OTHER -> LET w == IF r.n = "full" THEN [r.v EXCEPT !.full[k] = r.v.now] ELSE r.v
                  IN IF w.now - w.error[k] > Minute - 1
                     THEN [Alert(w, f) EXCEPT !.error[k] = w.now, !.failed[f] = w.now]
                     ELSE [w EXCEPT !.failed[f] = w.now]

ngx_http_log_write(v, k, lines) ==
    WriteResult(IF Logs[k].script THEN ScriptWrite(v, Logs[k].file, lines) ELSE Write(v, Logs[k].file, lines),
                k, Logs[k].file)

ngx_stream_log_write(v, k, lines) == ngx_http_log_write(v, k, lines)

LogWrite(v, k, lines) == IF LogModule = "http" THEN ngx_http_log_write(v, k, lines) ELSE ngx_stream_log_write(v, k, lines)

-----------------------------------------------------------------------------

(* syslog: the socket of the peer remembers which daemon it is connected to *)

ngx_syslog_init_peer(v) == IF v.daemon.up THEN [v EXCEPT !.conn = v.daemon.run] ELSE v

\* A unix socket is closed when a message cannot be sent
SyslogResult(v, line) ==
    IF v.conn = v.daemon.run /\ v.daemon.up THEN [v EXCEPT !.syslog = Append(@, line.id)]
    ELSE [v EXCEPT !.conn = 0]

ngx_syslog_send(v, line) ==
    LET w == IF v.conn = 0 THEN ngx_syslog_init_peer(v) ELSE v
    IN IF w.conn = 0 THEN w ELSE SyslogResult(w, line)

-----------------------------------------------------------------------------

(* The log phase *)

\* Mutant of Buffered: a line that does not fit goes to the file at once
BufferedAhead(v, k, f, line, room) ==
    IF room <= BufferSize - Used(v.buf[f])
    THEN [v EXCEPT !.buf[f] = Append(@, line),
                   !.timer[f] = IF FlushTime > 0 /\ v.buf[f] = <<>> THEN v.now + FlushTime ELSE @]
    ELSE LogWrite(v, k, <<line>>)

\* A line of a log with a buffer: the buffer is written if the line does not fit
Buffered(v, k, f, line, room) ==
    LET w == IF room > BufferSize - Used(v.buf[f]) THEN [LogWrite(v, k, v.buf[f]) EXCEPT !.buf[f] = <<>>] ELSE v
    IN IF room <= BufferSize - Used(w.buf[f])
       THEN [w EXCEPT !.buf[f] = Append(@, line),
                      !.timer[f] = IF FlushTime > 0 /\ w.buf[f] = <<>> THEN v.now + FlushTime ELSE @]
       ELSE LogWrite([w EXCEPT !.timer[f] = 0], k, <<line>>)

\* if= drops the line of every second request
Dropped(k, line) == Logs[k].cond /\ line.id % 2 = 0

LogTo(v, k, line, room) ==
    IF Dropped(k, line) \/ v.now = v.full[k] THEN v
    ELSE IF Logs[k].syslog THEN ngx_syslog_send(v, line)
    ELSE IF HasBuffer(Logs[k].file) /\ ~Logs[k].script THEN Buffered(v, k, Logs[k].file, line, room)
    ELSE LogWrite(v, k, <<line>>)

RECURSIVE LogAll(_, _, _, _)

LogAll(v, k, line, room) == IF k > Len(Logs) THEN v ELSE LogAll(LogTo(v, k, line, room), k + 1, line, room)

ngx_http_log_handler(v, line, room) == LogAll(v, 1, line, room)

ngx_stream_log_handler(v, line, room) == LogAll(v, 1, line, room)

\* What each log is asked for, apart from the seconds it is given up after a full disk
Asked(v, line) ==
    [f \in LogFiles |-> SelectSeq([k \in DOMAIN Logs |-> [id |-> line.id, k |-> k]],
                                  LAMBDA x : Logs[x.k].file = f /\ ~Dropped(x.k, line) /\ (Logs[x.k].script => v.root))]

Request(size, spare) ==
    /\ lg.phase = "run" /\ lg.id < MaxRequests /\ spare <= size - 1
    /\ \E line \in {[id |-> lg.id + 1, size |-> size - spare]} :
         LET v == [lg EXCEPT !.id = @ + 1,
                             !.sent[line.id] = IF lg.daemon.up THEN lg.daemon.run ELSE 0,
                             !.given = [f \in LogFiles |-> @[f] \o [i \in DOMAIN Asked(lg, line)[f] |-> line.id]],
                             !.period = [f \in LogFiles |-> [@[f] EXCEPT ![line.id] = lg.fd[f]]],
                             !.born[line.id] = lg.now]
         IN lg' = IF LogModule = "http" THEN ngx_http_log_handler(v, line, size)
                  ELSE ngx_stream_log_handler(v, line, size)

-----------------------------------------------------------------------------

(* The timer, reopening, the exit *)

ngx_http_log_flush(v, f) ==
    IF v.buf[f] = <<>> THEN v
    ELSE LET r == Write(v, f, v.buf[f])
             w == IF r.n = "all" THEN r.v ELSE [Alert(r.v, f) EXCEPT !.failed[f] = v.now]
         IN [w EXCEPT !.buf[f] = <<>>, !.timer[f] = 0]

ngx_stream_log_flush(v, f) == ngx_http_log_flush(v, f)

Flush(v, f) == IF LogModule = "http" THEN ngx_http_log_flush(v, f) ELSE ngx_stream_log_flush(v, f)

ngx_http_log_flush_handler(f) ==
    /\ lg.phase = "run" /\ lg.timer[f] # 0 /\ lg.timer[f] <= lg.now
    /\ lg' = Flush([lg EXCEPT !.timer[f] = 0], f)

\* logrotate: the file gets another name
Rename(f) ==
    /\ lg.phase = "run" /\ f \in {Logs[k].file : k \in DOMAIN Logs} /\ Kind # "script"
    /\ lg.name[f] = Len(lg.disk[f]) /\ Len(lg.disk[f]) <= MaxReopen
    /\ lg' = [lg EXCEPT !.name[f] = @ + 1, !.disk[f] = Append(@, <<>>)]

\* The buffer goes to the old file; the file is opened again, if it can be
ngx_reopen_files(v, f, ok) ==
    LET w == IF HasBuffer(f) THEN Flush(v, f) ELSE v
    IN IF ok THEN [w EXCEPT !.fd[f] = v.name[f]] ELSE w

Reopen(ok) ==
    /\ lg.phase = "run" /\ Kind # "syslog"
    /\ \E f \in LogFiles : lg.name[f] # lg.fd[f] /\ lg' = ngx_reopen_files(lg, f, ok)

\* The exit of the worker, which flush timers do not hold up
ngx_conf_flush_files(v) == IF HasBuffer("a") THEN Flush(v, "a") ELSE v

Exit == lg.phase = "run" /\ lg' = [ngx_conf_flush_files(lg) EXCEPT !.phase = "exit"]

-----------------------------------------------------------------------------

(* The environment *)

Tick == /\ lg.phase = "run" /\ lg.now < MaxTime
        /\ \A f \in LogFiles : lg.timer[f] = 0 \/ lg.timer[f] > lg.now
        /\ lg' = [lg EXCEPT !.now = @ + 1]

Disk(d) == /\ lg.phase = "run" /\ d # lg.disk_state /\ lg.changes < MaxDisk /\ Kind # "syslog"
           /\ lg' = [lg EXCEPT !.disk_state = d, !.changes = @ + 1, !.fine = @ /\ d = "ok"]

Root == /\ lg.phase = "run" /\ Kind = "script" /\ LogModule = "http" /\ lg.changes < MaxDisk
        /\ lg' = [lg EXCEPT !.root = ~@, !.changes = @ + 1]

Daemon == /\ lg.phase = "run" /\ Kind = "syslog" /\ lg.changes < MaxDisk
          /\ lg' = [lg EXCEPT !.changes = @ + 1,
                              !.daemon = IF @.up THEN [@ EXCEPT !.up = FALSE] ELSE [run |-> @.run + 1, up |-> TRUE]]

LogInit == lg = [phase |-> "run", now |-> Minute, id |-> 0, buf |-> [f \in LogFiles |-> <<>>], timer |-> [f \in LogFiles |-> 0],
                 full |-> [k \in DOMAIN Logs |-> 0], error |-> [k \in DOMAIN Logs |-> 0],
                 disk |-> [f \in LogFiles |-> <<<<>>>>], fd |-> [f \in LogFiles |-> 1], name |-> [f \in LogFiles |-> 1],
                 disk_state |-> "ok", changes |-> 0, fine |-> TRUE, root |-> TRUE,
                 daemon |-> [run |-> 1, up |-> TRUE], conn |-> 0, syslog |-> <<>>, sent |-> [i \in 1 .. MaxRequests |-> 0],
                 given |-> [f \in LogFiles |-> <<>>], period |-> [f \in LogFiles |-> [i \in 1 .. MaxRequests |-> 0]],
                 born |-> [i \in 1 .. MaxRequests |-> 0],
                 alerts |-> [f \in LogFiles |-> <<>>], failed |-> [f \in LogFiles |-> 0]]

LogNext == \/ \E size \in Sizes, spare \in Spare : Request(size, spare)
           \/ \E f \in LogFiles : ngx_http_log_flush_handler(f) \/ Rename(f)
           \/ \E ok \in BOOLEAN : Reopen(ok)
           \/ Exit \/ Tick \/ Root \/ Daemon
           \/ \E d \in Disks : Disk(d)

LogSpec == LogInit /\ [][LogNext]_logVars

-----------------------------------------------------------------------------

Ids(lines) == [i \in DOMAIN lines |-> lines[i].id]

OnDisk(f) == Ids(FlattenSeq(lg.disk[f]))

RECURSIVE IsSubsequence(_, _)

IsSubsequence(a, b) ==
    IF a = <<>> THEN TRUE ELSE IF b = <<>> THEN FALSE
    ELSE IF a[1] = b[1] THEN IsSubsequence(Tail(a), Tail(b)) ELSE IsSubsequence(a, Tail(b))

\* While every write succeeds, the files and the buffer hold the line of every
\* request, in the order of the requests, whatever buffers, timers, rotation and exit
\* do with them; when writes fail lines may be missing, but none is there twice or out
\* of order.
LinesExact ==
    \A f \in LogFiles : IF lg.fine THEN OnDisk(f) \o Ids(lg.buf[f]) = lg.given[f]
                        ELSE IsSubsequence(OnDisk(f) \o Ids(lg.buf[f]), lg.given[f])

\* A line is never split between two files and goes to the file that was open when
\* its request was logged: after files are reopened nothing of the past goes into the
\* new one.
Rotated == \A f \in LogFiles : \A n \in DOMAIN lg.disk[f] : \A i \in DOMAIN lg.disk[f][n] :
             lg.period[f][lg.disk[f][n][i].id] = n

\* The lines in a buffer fit into it, and a line waits no longer than flush= says.
Timely == \A f \in LogFiles : lg.buf[f] # <<>> =>
            /\ Used(lg.buf[f]) <= BufferSize
            /\ FlushTime > 0 /\ lg.phase = "run" =>
                 lg.timer[f] \in lg.now .. (lg.born[lg.buf[f][1].id] + FlushTime)

\* A worker that exits leaves nothing in its buffers ("the worker processes did not
\* flush the buffered logs on graceful exit", CHANGES).
ExitFlushed == lg.phase = "exit" => \A f \in LogFiles : lg.buf[f] = <<>>

\* A write that failed is reported: there is a message of the last minute about its
\* file (ngx_http_log_write, ngx_http_log_flush).
Reported == \A f \in LogFiles : lg.failed[f] # 0 =>
              \E i \in DOMAIN lg.alerts[f] : lg.failed[f] - lg.alerts[f][i] \in 0 .. (Minute - 1)

\* A syslog daemon that was restarted costs one message at most: the next one is sent
\* through a new socket.
SyslogRecovers == \A i \in 1 .. (lg.id - 1) :
                    Kind = "syslog" /\ lg.sent[i] = lg.sent[i + 1] /\ lg.sent[i] # 0 => i + 1 \in Range(lg.syslog)
=============================================================================
