------------------------------- MODULE Script -------------------------------
(***************************************************************************)
(* The script engine: complex values, and the code of the rewrite module;  *)
(* and the variables and maps that values are made of.                     *)
(***************************************************************************)
EXTENDS Integers, Sequences, SequencesExt, FiniteSets, TLC

(***************************************************************************)
(* Values with variables: a text of the configuration is compiled into two *)
(* lists of codes, one that adds up the length of the value and one that   *)
(* writes it; a request runs first the one and then the other.  http and   *)
(* stream hold the same code twice; captures, the mark of the arguments of *)
(* a rewrite, the closing zero and the prefix of a file name are options.  *)
(*                                                                         *)
(* Texts are sequences of characters, and characters are their codes.  The *)
(* characters of captures are ones that are never escaped.                 *)
(***************************************************************************)

CONSTANTS ValueModule,       \* "http" or "stream"
          CompileArgs,  \* for a rewrite: the first ? begins the arguments
          Chars, MaxText,
          Zeros,        \* whether values end with a zero
          FileNames      \* whether values are file names

VARIABLES text, zero, prefix, sc, vreq

valueVars == <<text, zero, prefix, sc, vreq>>

Dollar == 36

ValueQuestion == 63

Slash == 47

Open == 123

Close == 125

NameChar(c) == c \in (65 .. 90) \cup (97 .. 122) \cup (48 .. 57) \cup {95}

Digit(c) == c \in 49 .. 57

Copy(t) == [code |-> "copy", text |-> t]

VarCode(n) == [code |-> "var", text |-> n]

Capture(n) == [code |-> "capture", text |-> <<n>>]

ArgsCode == [code |-> "args", text |-> <<>>]

FullName == [code |-> "full_name", text |-> <<>>]

-----------------------------------------------------------------------------

(* ngx_http_script_compile_value() *)

RECURSIVE NameEnd(_, _)

NameEnd(t, i) == IF i <= Len(t) /\ NameChar(t[i]) THEN NameEnd(t, i + 1) ELSE i

\* A text stops at a variable, and at the ? of the arguments
RECURSIVE CopyEnd(_, _, _)

CopyEnd(t, i, args) == IF i > Len(t) \/ t[i] = Dollar \/ (t[i] = ValueQuestion /\ args) THEN i ELSE CopyEnd(t, i + 1, args)

Variable(v, t, i) ==
    LET b == t[i] = Open
        from == IF b THEN i + 1 ELSE i
        to == NameEnd(t, from)
    IN IF from > Len(t) \/ (b /\ (to > Len(t) \/ t[to] # Close)) \/ to = from
       THEN [v EXCEPT !.rc = "error"]
       ELSE [v EXCEPT !.codes = Append(@, VarCode(SubSeq(t, from, to - 1))), !.flushes = Append(@, SubSeq(t, from, to - 1)),
                      !.i = IF b THEN to + 1 ELSE to]

DollarCode(v, t, i) ==
    IF i > Len(t) THEN [v EXCEPT !.rc = "error"]
    ELSE IF Digit(t[i])
    THEN [v EXCEPT !.codes = Append(@, Capture(t[i] - 48)), !.dup = @ \/ (t[i] - 48) \in v.captures,
                   !.captures = @ \cup {t[i] - 48}, !.i = i + 1]
    ELSE Variable(v, t, i)

\* The zero goes with the last text, if the value ends with one
ngx_http_script_add_copy_code(v, t, last) ==
    [v EXCEPT !.codes = Append(@, Copy(IF v.zero /\ last THEN t \o <<0>> ELSE t)), !.zero = @ /\ ~last]

CopyCode(v, t, i, to) ==
    [ngx_http_script_add_copy_code(v, SubSeq(t, i, to - 1), to > Len(t))
       EXCEPT !.i = to, !.size = @ + to - i,
              !.args = @ \/ \E k \in i .. (to - 1) : t[k] = ValueQuestion]

ngx_http_script_done(v) ==
    [v EXCEPT !.codes = @ \o (IF v.zero THEN <<Copy(<<0>>)>> ELSE <<>>) \o (IF prefix THEN <<FullName>> ELSE <<>>), !.rc = "ok"]

RECURSIVE ngx_http_script_compile_value(_, _)

CompileOne(v, t) ==
    IF t[v.i] = Dollar THEN DollarCode(v, t, v.i + 1)
    ELSE IF t[v.i] = ValueQuestion /\ v.compile_args
    THEN [v EXCEPT !.codes = Append(@, ArgsCode), !.args = TRUE, !.compile_args = FALSE, !.i = @ + 1]
    ELSE CopyCode(v, t, v.i, CopyEnd(t, v.i, v.compile_args))

ngx_http_script_compile_value(v, t) ==
          IF v.rc = "error" THEN v
          ELSE IF v.i > Len(t) THEN ngx_http_script_done(v)
          ELSE ngx_http_script_compile_value(CompileOne(v, t), t)

ngx_stream_script_compile(v, t) == ngx_http_script_compile_value(v, t)

Sc0 == [rc |-> "", codes |-> <<>>, flushes |-> <<>>, captures |-> {}, dup |-> FALSE, args |-> FALSE, size |-> 0,
        compile_args |-> CompileArgs, zero |-> zero, i |-> 1, const |-> FALSE, value |-> <<>>]

\* A name without a slash in front is completed
PrefixText == <<Slash, 112, Slash>>

ngx_get_full_name(t) == IF t # <<>> /\ t[1] = Slash THEN t ELSE PrefixText \o t

\* A text without variables is left alone; a file name is completed at once unless it
\* begins with a variable
ngx_http_compile_complex_value(v, t) ==
    LET full == IF prefix /\ (t = <<>> \/ t[1] # Dollar) THEN ngx_get_full_name(t) ELSE t
    IN IF Dollar \notin Range(t) THEN [v EXCEPT !.rc = "ok", !.const = TRUE, !.value = full]
       ELSE IF ValueModule = "http" THEN ngx_http_script_compile_value(v, full) ELSE ngx_stream_script_compile(v, full)

ngx_stream_compile_complex_value(v, t) == ngx_http_compile_complex_value(v, t)

-----------------------------------------------------------------------------

(* The two passes.  A request has variables, known by the length of their    *)
(* names: one character may change at any time (it is not cacheable), two    *)
(* are not found, others stay as they are.  A variable that is not cacheable *)
(* is forgotten before the passes, and stays what it is between them.        *)

Lookup(q, n) ==
    CASE Len(n) = 2 -> [q |-> q, value |-> <<>>]
      [] Len(n) = 1 -> [q |-> [q EXCEPT !.cached = IF @ = <<>> THEN q.now ELSE @], value |-> IF q.cached # <<>> THEN q.cached ELSE q.now]
      [] OTHER -> [q |-> q, value |-> <<120>>]

ngx_http_script_flush_complex_value(q, v) ==
    IF \E k \in DOMAIN v.flushes : Len(v.flushes[k]) = 1 THEN [q EXCEPT !.cached = <<>>] ELSE q

ngx_http_script_copy_capture_len_code(q, n) == IF n <= Len(q.captures) THEN Len(q.captures[n]) ELSE 0

ngx_stream_script_copy_capture_len_code(q, n) == IF n <= Len(q.captures) THEN Len(q.captures[n]) ELSE 0

ngx_http_script_copy_capture_code(q, n) == IF n <= Len(q.captures) THEN q.captures[n] ELSE <<>>

ngx_stream_script_copy_capture_code(q, n) == ngx_http_script_copy_capture_code(q, n)

ngx_http_script_copy_var_len_code(q, n) == [q |-> Lookup(q, n).q, len |-> Len(Lookup(q, n).value)]

ngx_http_script_copy_var_code(q, n) == Lookup(q, n)

ValueLenCode(q, c) ==
         CASE c.code = "copy" -> [q |-> q, len |-> Len(c.text)]
           [] c.code = "var" -> ngx_http_script_copy_var_len_code(q, c.text)
           [] c.code = "capture" -> [q |-> q, len |-> IF ValueModule = "http" THEN ngx_http_script_copy_capture_len_code(q, c.text[1])
                                                      ELSE ngx_stream_script_copy_capture_len_code(q, c.text[1])]
           [] c.code = "args" -> [q |-> q, len |-> 1]
           [] c.code = "full_name" -> [q |-> q, len |-> Len(PrefixText)]

RECURSIVE Lengths(_, _)

AddLength(a, codes) == IF codes = <<>> THEN a
                       ELSE LET l == ValueLenCode(a.q, Head(codes))
                            IN Lengths([q |-> l.q, len |-> a.len + l.len], Tail(codes))

Lengths(a, codes) == AddLength(a, codes)

\* The engine of the second pass: e.at is where the arguments begin
FullNameCode(e) == [e EXCEPT !.buf = ngx_get_full_name(@)]

ValueCode(e, c) ==
    CASE c.code = "copy" -> [e EXCEPT !.buf = @ \o c.text]
      [] c.code = "var" -> LET l == ngx_http_script_copy_var_code(e.q, c.text) IN [e EXCEPT !.q = l.q, !.buf = @ \o l.value]
      [] c.code = "capture" -> [e EXCEPT !.buf = @ \o (IF ValueModule = "http" THEN ngx_http_script_copy_capture_code(e.q, c.text[1])
                                                       ELSE ngx_stream_script_copy_capture_code(e.q, c.text[1]))]
      [] c.code = "args" -> [e EXCEPT !.at = Len(e.buf)]
      [] c.code = "full_name" -> FullNameCode(e)

RECURSIVE Run(_, _)

Run(e, codes) == IF codes = <<>> THEN e ELSE Run(ValueCode(e, Head(codes)), Tail(codes))

\* ngx_http_complex_value(), ngx_stream_complex_value()
ngx_http_complex_value(q, v) ==
    IF v.const THEN [q EXCEPT !.value = v.value, !.room = Len(v.value), !.done = TRUE]
    ELSE LET l == Lengths([q |-> ngx_http_script_flush_complex_value(q, v), len |-> 0], v.codes)
             e == Run([q |-> l.q, buf |-> <<>>, at |-> -1], v.codes)
         IN [e.q EXCEPT !.value = e.buf, !.room = l.len, !.at = e.at, !.done = TRUE]

ngx_stream_complex_value(q, v) == ngx_http_complex_value(q, v)

-----------------------------------------------------------------------------

ValueInit == /\ text \in UNION {[1 .. n -> Chars] : n \in 0 .. MaxText}
             /\ zero \in Zeros /\ prefix \in FileNames
             /\ sc = Sc0
             /\ vreq = [cached |-> <<>>, now |-> <<121>>, captures |-> <<>>, value |-> <<>>, room |-> 0, at |-> -1, done |-> FALSE]

ValueCompile == /\ sc.rc = ""
                /\ sc' = IF CompileArgs THEN ngx_http_script_compile_value(sc, text)
                         ELSE IF ValueModule = "http" THEN ngx_http_compile_complex_value(sc, text)
                         ELSE ngx_stream_compile_complex_value(sc, text)
                /\ UNCHANGED <<text, zero, prefix, vreq>>

\* A request with or without captures; the variable was looked up before, and changed since
ValueRequest == /\ sc.rc = "ok" /\ ~vreq.done
                /\ \E old \in {<<>>, <<121>>}, c \in {<<>>, <<<<97, 98>>, <<>>>>} :
                     \E q \in {[vreq EXCEPT !.cached = old, !.now = <<121, 122>>, !.captures = c]} :
                       vreq' = IF ValueModule = "http" THEN ngx_http_complex_value(q, sc) ELSE ngx_stream_complex_value(q, sc)
                /\ UNCHANGED <<text, zero, prefix, sc>>

ValueNext == ValueCompile \/ ValueRequest

ValueSpec == ValueInit /\ [][ValueNext]_valueVars

-----------------------------------------------------------------------------

\* What a code was written as
Sources(c) == CASE c.code = "copy" -> {c.text}
                [] c.code = "var" -> {<<Dollar>> \o c.text, <<Dollar, Open>> \o c.text \o <<Close>>}
                [] c.code = "capture" -> {<<Dollar, c.text[1] + 48>>}
                [] c.code = "args" -> {<<ValueQuestion>>}
                [] c.code = "full_name" -> {<<>>}

RECURSIVE Spelled(_, _)

Spelled(codes, t) ==
    IF codes = <<>> THEN t = <<>>
    ELSE \E s \in Sources(Head(codes)) : Len(s) <= Len(t) /\ SubSeq(t, 1, Len(s)) = s
                                         /\ Spelled(Tail(codes), SubSeq(t, Len(s) + 1, Len(t)))

\* Compiling loses nothing of the text: written out, the codes are the text again,
\* with one zero behind it if there is to be one, and with the prefix in front of it if
\* the name was completed.
Compiled ==
    sc.rc = "ok" /\ ~sc.const =>
      LET t == IF prefix /\ text # <<>> /\ text[1] # Dollar THEN ngx_get_full_name(text) ELSE text
      IN Spelled(sc.codes, IF zero THEN t \o <<0>> ELSE t)

\* The first ? of a rewrite, wherever it is, begins its arguments, and no other does.
ArgsOnce == sc.rc = "ok" /\ CompileArgs =>
              /\ Cardinality({k \in DOMAIN sc.codes : sc.codes[k].code = "args"}) = IF ValueQuestion \in Range(text) THEN 1 ELSE 0
              /\ sc.args = (ValueQuestion \in Range(text))
              /\ \A k \in DOMAIN sc.codes : sc.codes[k].code = "args" =>
                   \A j \in 1 .. (k - 1) : sc.codes[j].code = "copy" => ValueQuestion \notin Range(sc.codes[j].text)

\* The room the first pass finds is what the second pass writes: exactly for a value
\* whose length the code takes from the first pass, enough for a name that is completed.
RoomExact == vreq.done => IF \E k \in DOMAIN sc.codes : sc.codes[k].code \in {"full_name", "args"} THEN Len(vreq.value) <= vreq.room
                          ELSE Len(vreq.value) = vreq.room

\* A value sees what a variable is now, not what it was when another value used it.
Fresh == vreq.done /\ sc.codes # <<>> /\ sc.codes[1].code = "var" /\ Len(sc.codes[1].text) = 1 /\ ~prefix =>
              Len(vreq.value) >= 2 /\ SubSeq(vreq.value, 1, 2) = vreq.now

\* A file name of the configuration is absolute, whatever its variables are.
Absolute == vreq.done /\ prefix => vreq.value # <<>> /\ vreq.value[1] = Slash

-----------------------------------------------------------------------------

(***************************************************************************)
(* The directives set, if, rewrite, break and return.  The directives of a *)
(* server or of a location, those inside its ifs too, are compiled into    *)
(* one flat array of codes with jumps; a request runs the array on a small *)
(* stack of values.                                                        *)
(*                                                                         *)
(* A value is a template: a sequence of literal characters, captures and   *)
(* variables.  Variable 1 is one that set defines, 2 is the arguments of   *)
(* the request (it has a handler of its own to set it), 3 is a variable    *)
(* that keeps the value it is first read with (here, the URI), 4 is the    *)
(* URI.  Characters of captures are ones that are never escaped.           *)
(***************************************************************************)

CONSTANTS Rewrites, RewriteSets, Ends, Conds,   \* which directives and conditions programs are made of, by number
          MaxItems, MaxBody,             \* directives in a block, and in an if
          Level,                         \* "server" or "location"
          StackSize, Uris, ArgsOf

VARIABLES program, rewriteCodes, rreq

rewriteVars == <<program, rewriteCodes, rreq>>

RewriteQuestion == 63

Amp == 38

Http == 104     \* the first character of http://

Lit(c) == [k |-> "lit", c |-> c]

Cap(n) == [k |-> "cap", c |-> n]

Var(v) == [k |-> "var", c |-> v]

-----------------------------------------------------------------------------

(* Programs *)

D0 == [d |-> "", v |-> 0, t |-> <<>>, re |-> "", flag |-> "", status |-> 0, cond |-> "", body |-> <<>>]

SetDir(v, t) == [D0 EXCEPT !.d = "set", !.v = v, !.t = t]

RewriteDir(re, t, flag) == [D0 EXCEPT !.d = "rewrite", !.re = re, !.t = t, !.flag = flag]

ReturnDir(s, t) == [D0 EXCEPT !.d = "return", !.status = s, !.t = t]

BreakDir == [D0 EXCEPT !.d = "break"]

Cond(c, v, t, re) == [D0 EXCEPT !.d = "if", !.cond = c, !.v = v, !.t = t, !.re = re]

A == Lit(97)

B == Lit(98)

Q == Lit(RewriteQuestion)

AllRewrites == <<RewriteDir("tail", <<A, Cap(1)>>, ""), RewriteDir("tail", <<A, Q, Cap(1)>>, "last"),
                 RewriteDir("one", <<Cap(1), B, Cap(1), Q>>, "break"), RewriteDir("tail", <<Cap(1)>>, ""),
                 RewriteDir("tail", <<Var(1), Q, Var(2), Q>>, ""), RewriteDir("one", <<A, Q, B>>, "redirect"),
                 RewriteDir("tail", <<Lit(Http), Cap(1)>>, ""), RewriteDir("tail", <<B, Cap(1), Cap(1), Var(3)>>, "permanent")>>

AllSets == <<SetDir(1, <<B>>), SetDir(1, <<Cap(1), Var(2)>>), SetDir(2, <<Var(4), A>>), SetDir(1, <<Var(3), Var(1)>>), SetDir(2, <<>>),
             SetDir(1, <<Lit(48)>>)>>

AllEnds == <<BreakDir, ReturnDir(403, <<>>), ReturnDir(200, <<Var(1)>>), ReturnDir(404, <<A>>)>>

AllConds == <<Cond("var", 1, <<>>, ""), Cond("=", 1, <<B>>, ""), Cond("!=", 2, <<Cap(1), Var(1)>>, ""), Cond("~", 4, <<>>, "tail"),
              Cond("!~", 1, <<>>, "one"), Cond("-f", 0, <<Var(1)>>, ""), Cond("!-e", 0, <<B>>, "")>>

Pick(all, which) == {all[k] : k \in which}

Simple == Pick(AllRewrites, Rewrites) \cup Pick(AllSets, RewriteSets) \cup Pick(AllEnds, Ends)

Blocks(items, n) == UNION {[1 .. k -> items] : k \in 0 .. n}

Items == Simple \cup {[c EXCEPT !.body = b] : c \in Pick(AllConds, Conds), b \in Blocks(Simple, MaxBody)}

-----------------------------------------------------------------------------

(* Compiling.  A code is a cell of the array. *)

C0 == [op |-> "", t |-> <<>>, n |-> 0, lens |-> <<>>, size |-> 0, re |-> "", flags |-> {}, next |-> 1]

Op(op) == [C0 EXCEPT !.op = op]

RewriteNull == Op("null")

\* The codes of a template; with args the first ? begins the arguments
RECURSIVE ngx_http_script_compile_rewrite(_, _)

ngx_http_script_compile_rewrite(t, args) ==
            IF t = <<>> THEN <<>>
            ELSE LET x == Head(t)
                     at == args /\ x = Q
                 IN <<IF at THEN Op("args")
                      ELSE IF x.k = "lit" THEN [Op("copy") EXCEPT !.t = <<x.c>>]
                      ELSE [Op(x.k) EXCEPT !.n = x.c]>> \o ngx_http_script_compile_rewrite(Tail(t), args /\ ~at)

ngx_http_script_variables_count(t) == Cardinality({k \in DOMAIN t : t[k].k # "lit"})

\* A text without variables is one code, any other a code for the room and those that fill it
ngx_http_rewrite_value(cs, t) ==
    IF ngx_http_script_variables_count(t) = 0 THEN Append(cs, [Op("value") EXCEPT !.t = [k \in DOMAIN t |-> t[k].c]])
    ELSE LET vs == ngx_http_script_compile_rewrite(t, FALSE) IN Append(cs, [Op("complex") EXCEPT !.lens = vs]) \o vs

ngx_http_rewrite_set_rewrite(cs, d) ==
            Append(ngx_http_rewrite_value(cs, d.t), [Op(IF d.v = 2 THEN "set_handler" ELSE "set_var") EXCEPT !.n = d.v])

\* The last ? drops the arguments there were, and is not part of the template
Keeps(d) == d.t[Len(d.t)] # Q

Replacement(d) == IF Keeps(d) THEN d.t ELSE Front(d.t)

Redirects(d) == d.flag \in {"redirect", "permanent"} \/ (d.t # <<>> /\ d.t[1] = Lit(Http))

IsLast(d) == d.flag # "" \/ Redirects(d)

DupCapture(t) == \E j, k \in DOMAIN t : j # k /\ t[j].k = "cap" /\ t[k] = t[j]

Vars(t) == {k \in DOMAIN t : t[k].k = "var"}

Literals(t, args) == Cardinality({k \in DOMAIN t : t[k].k = "lit" /\ ~(args /\ t[k] = Q /\ \A j \in 1 .. (k - 1) : t[j] # Q)})

RewriteFlags(d, t) == (IF Keeps(d) THEN {"add_args"} ELSE {}) \cup (IF Redirects(d) THEN {"redirect"} ELSE {})
                      \cup (IF d.flag = "break" THEN {"break_cycle"} ELSE {}) \cup (IF \E k \in DOMAIN t : t[k] = Q THEN {"args"} ELSE {})
                      \cup {"uri"}

ngx_http_rewrite(cs, d) ==
    LET t == Replacement(d)
        vs == ngx_http_script_compile_rewrite(t, ~Redirects(d))
        start == [Op("regex") EXCEPT !.re = d.re, !.flags = RewriteFlags(d, t), !.size = Literals(t, ~Redirects(d)),
                    !.lens = IF Vars(t) = {} /\ ~DupCapture(t) THEN <<>> ELSE vs,
                    !.n = IF d.flag = "permanent" THEN 301 ELSE IF Redirects(d) THEN 302 ELSE 0,
                    !.next = Len(vs) + 2 + (IF IsLast(d) THEN 1 ELSE 0)]
    IN cs \o <<start>> \o vs \o <<[Op("regex_end") EXCEPT !.flags = RewriteFlags(d, t)]>>
          \o (IF IsLast(d) THEN <<RewriteNull>> ELSE <<>>)

ngx_http_rewrite_variable(cs, v) == Append(cs, [Op("push_var") EXCEPT !.n = v])

FileCondition(cs, d) ==
    Append(ngx_http_rewrite_value(cs, Append(d.t, Lit(0))), [Op("file") EXCEPT !.flags = {d.cond}])

ngx_http_rewrite_if_condition(cs, d) ==
    CASE d.cond = "var" -> ngx_http_rewrite_variable(cs, d.v)
      [] d.cond = "=" -> Append(ngx_http_rewrite_value(ngx_http_rewrite_variable(cs, d.v), d.t), Op("equal"))
      [] d.cond = "!=" -> Append(ngx_http_rewrite_value(ngx_http_rewrite_variable(cs, d.v), d.t), Op("not_equal"))
      [] d.cond \in {"~", "!~"} ->
           Append(ngx_http_rewrite_variable(cs, d.v),
                  [Op("regex") EXCEPT !.re = d.re, !.flags = {"test"} \cup (IF d.cond = "!~" THEN {"negative_test"} ELSE {})])
      [] d.cond \in {"-f", "!-e"} -> FileCondition(cs, d)

ngx_http_rewrite_return(cs, d) == Append(cs, [Op("return") EXCEPT !.n = d.status, !.lens = ngx_http_script_compile_rewrite(d.t, FALSE)])

ngx_http_rewrite_break(cs, d) == Append(cs, Op("break"))

CompileSimple(cs, d) ==
    CASE d.d = "set" -> ngx_http_rewrite_set_rewrite(cs, d)
      [] d.d = "rewrite" -> ngx_http_rewrite(cs, d)
      [] d.d = "return" -> ngx_http_rewrite_return(cs, d)
      [] d.d = "break" -> ngx_http_rewrite_break(cs, d)

RECURSIVE CompileBlock(_, _)

CompileBlock(cs, ds) == IF ds = <<>> THEN cs ELSE CompileBlock(CompileSimple(cs, Head(ds)), Tail(ds))

\* The block is compiled into the same array, the jump over it set when it is known
ngx_http_rewrite_if(cs, d, k) ==
    LET c == ngx_http_rewrite_if_condition(cs, d)
        all == CompileBlock(Append(c, [Op("if") EXCEPT !.n = IF Level = "server" THEN 0 ELSE k]), d.body)
    IN [all EXCEPT ![Len(c) + 1].next = Len(all) - Len(c)]

RECURSIVE CompileAll(_, _, _)

CompileAll(cs, ds, k) ==
    IF k > Len(ds) THEN cs
    ELSE CompileAll(IF ds[k].d = "if" THEN ngx_http_rewrite_if(cs, ds[k], k) ELSE CompileSimple(cs, ds[k]), ds, k + 1)

\* A block with codes has the exit at their end; one without has no codes
ngx_http_rewrite_merge_loc_conf(cs) == IF cs = <<>> THEN cs ELSE Append(cs, RewriteNull)

-----------------------------------------------------------------------------

(* What expressions of a request are *)

\* The regexes: "tail" matches a text of some length and captures what follows its first
\* character, "one" matches a text that begins with a and captures that a
RewriteMatches(re, t) == t # <<>> /\ (re = "one" => t[1] = 97)

RewriteCaptures(re, t) == IF re = "tail" THEN <<Tail(t)>> ELSE <<<<97>>>>

\* ngx_http_get_flushed_variable(): the third variable keeps its value
ngx_http_rewrite_var(q) == q.set

VarValue(q, v) == CASE v = 1 -> ngx_http_rewrite_var(q)
                    [] v = 2 -> q.args
                    [] v = 3 -> IF q.kept THEN q.keep ELSE q.uri
                    [] v = 4 -> q.uri

RewriteRead(q, v) == IF v = 3 /\ ~q.kept THEN [q EXCEPT !.kept = TRUE, !.keep = q.uri] ELSE q

CapValue(q, n) == IF n <= Len(q.caps) THEN q.caps[n] ELSE <<>>

-----------------------------------------------------------------------------

(* The engine.  A value on the stack has a length and its bytes, or is in    *)
(* the buffer that the codes after it fill.                                  *)

Push(q, v) == [q EXCEPT !.stack = Append(@, v), !.top = IF Len(q.stack) + 1 > @ THEN Len(q.stack) + 1 ELSE @]

Pop(q) == [q EXCEPT !.stack = Front(@)]

Top(q) == q.stack[Len(q.stack)]

TopValue(q) == IF Top(q).inbuf THEN q.buf ELSE Top(q).v

Value(v) == [v |-> v, len |-> Len(v), inbuf |-> FALSE]

True1 == Value(<<49>>)

False0 == Value(<<>>)

Bool(b) == IF b THEN True1 ELSE False0

Exit(q, s) == [q EXCEPT !.ip = 0, !.status = s]

Step(q, n) == [q EXCEPT !.ip = @ + n]

RewriteLenCode(q, c) == CASE c.op = "copy" -> Len(c.t)
                          [] c.op = "cap" -> Len(CapValue(q, c.n))
                          [] c.op = "var" -> Len(VarValue(q, c.n))
                          [] c.op = "args" -> 1

RECURSIVE Length(_, _)

Length(q, cs) == IF cs = <<>> THEN 0 ELSE RewriteLenCode(q, Head(cs)) + Length(q, Tail(cs))

RECURSIVE CapsLength(_)

CapsLength(cs) == IF cs = <<>> THEN 0 ELSE Len(Head(cs)) + CapsLength(Tail(cs))

\* The room of the new URI: the texts and all captures, or what the lengths add up to
RegexRoom(q, c) == (IF c.lens = <<>> THEN c.size + CapsLength(q.caps) ELSE Length(q, c.lens))
                   + (IF "add_args" \in c.flags /\ q.args # <<>> THEN Len(q.args) + 1 ELSE 0)

RegexTest(q, c, m) == Step(Push(q, Bool(m # ("negative_test" \in c.flags))), 1)

\* Mutant of ngx_http_script_regex_start_code: the captures of the last match stay
RegexStale(q, c) ==
    LET test == "test" \in c.flags
        line == IF test THEN TopValue(q) ELSE q.uri
        p == IF test THEN Pop(q) ELSE q
    IN IF ~RewriteMatches(c.re, line)
       THEN IF test THEN RegexTest(p, c, FALSE) ELSE Step(p, c.next)
       ELSE LET m == [p EXCEPT !.caps = RewriteCaptures(c.re, line)]
            IN IF test THEN RegexTest(m, c, TRUE)
               ELSE Step([m EXCEPT !.status = IF c.n # 0 THEN c.n ELSE @, !.internal = TRUE,
                                   !.valid_location = @ /\ "break_cycle" \notin c.flags,
                                   !.uri_changed = "break_cycle" \notin c.flags,
                                   !.buf = <<>>, !.room = RegexRoom(m, c)], 1)

\* A regex that does not match forgets the captures, and jumps over what it was for
ngx_http_script_regex_start_code(q, c) ==
    LET test == "test" \in c.flags
        line == IF test THEN TopValue(q) ELSE q.uri
        p == IF test THEN Pop(q) ELSE q
    IN IF ~RewriteMatches(c.re, line)
       THEN IF test THEN RegexTest([p EXCEPT !.caps = <<>>], c, FALSE) ELSE Step([p EXCEPT !.caps = <<>>], c.next)
       ELSE LET m == [p EXCEPT !.caps = RewriteCaptures(c.re, line)]
            IN IF test THEN RegexTest(m, c, TRUE)
               ELSE Step([m EXCEPT !.status = IF c.n # 0 THEN c.n ELSE @, !.internal = TRUE,
                                   !.valid_location = @ /\ "break_cycle" \notin c.flags,
                                   !.uri_changed = "break_cycle" \notin c.flags,
                                   !.buf = <<>>, !.room = RegexRoom(m, c)], 1)

Room(q) == [q EXCEPT !.over = @ \/ Len(q.buf) > q.room]

OldArgs(q, c, sep) == IF "add_args" \in c.flags /\ q.args # <<>> THEN <<sep>> \o q.args ELSE <<>>

ngx_http_script_regex_end_code(q, c) ==
    IF "redirect" \in c.flags
    THEN LET to == q.buf \o OldArgs(q, c, IF "args" \in c.flags THEN Amp ELSE RewriteQuestion)
         IN Step(Room([q EXCEPT !.buf = to, !.location = to]), 1)
    ELSE LET all == IF q.at >= 0 THEN q.buf \o OldArgs(q, c, Amp) ELSE q.buf
             uri == IF q.at >= 0 THEN SubSeq(all, 1, q.at) ELSE all
             p == Room([q EXCEPT !.buf = all, !.uri = uri, !.at = -1,
                          !.args = IF q.at >= 0 THEN SubSeq(all, q.at + 1, Len(all))
                                   ELSE IF "add_args" \in c.flags THEN @ ELSE <<>>])
         IN IF uri = <<>> THEN Exit(p, 500) ELSE Step(p, 1)

ngx_http_script_complex_value_code(q, c) ==
    LET n == Length(q, c.lens)
    IN Step([Push(q, [v |-> <<>>, len |-> n, inbuf |-> TRUE]) EXCEPT !.buf = <<>>, !.room = n], 1)

\* A value that is taken from the stack has the length that was found for it
Taken(q) == [q EXCEPT !.short = @ \/ Len(TopValue(q)) # Top(q).len]

ngx_http_script_set_var_code(q, c) == Step([Pop(Taken(q)) EXCEPT !.set = TopValue(q)], 1)

ngx_http_script_var_set_handler_code(q, c) == Step([Pop(Taken(q)) EXCEPT !.args = TopValue(q)], 1)

ngx_http_script_var_code(q, c) == Step(Push(RewriteRead(q, c.n), Value(VarValue(q, c.n))), 1)

Compare(q, eq) == LET b == (TopValue(q) = TopValue(Pop(q))) = eq IN Step(Push(Pop(Pop(Taken(q))), Bool(b)), 1)

ngx_http_script_equal_code(q, c) == Compare(q, TRUE)

ngx_http_script_not_equal_code(q, c) == Compare(q, FALSE)

\* b is a file, c a directory; the zero behind the name is not part of it
Files == {<<98>>}

Dirs == {<<99>>}

ngx_http_script_file_code(q, c) ==
    LET name == Front(TopValue(q))
        b == IF "-f" \in c.flags THEN name \in Files ELSE name \notin Files \cup Dirs
    IN Step(Push(Pop(Taken(q)), Bool(b)), 1)

\* Empty and 0 are false
ngx_http_script_if_code(q, c) ==
    LET v == TopValue(q)
    IN IF v # <<>> /\ v # <<48>>
       THEN Step([Pop(q) EXCEPT !.loc_conf = IF c.n # 0 THEN c.n ELSE @], 1)
       ELSE Step(Pop(q), c.next)

ngx_http_script_break_code(q, c) == Exit([q EXCEPT !.uri_changed = FALSE], q.status)

RECURSIVE Text(_, _)

Text(q, cs) == IF cs = <<>> THEN <<>>
               ELSE LET c == Head(cs)
                    IN (IF c.op = "copy" THEN c.t ELSE IF c.op = "cap" THEN CapValue(q, c.n) ELSE VarValue(q, c.n)) \o Text(q, Tail(cs))

ngx_http_script_return_code(q, c) ==
    IF c.n < 400 \/ c.lens # <<>> THEN Exit([q EXCEPT !.sent = <<c.n>> \o Text(q, c.lens)], 0)
    ELSE Exit(q, c.n)

Run1(q, c) ==
    CASE c.op = "copy" -> Step(Room([q EXCEPT !.buf = @ \o c.t]), 1)
      [] c.op = "cap" -> Step(Room([q EXCEPT !.buf = @ \o CapValue(q, c.n)]), 1)
      [] c.op = "var" -> Step(Room([RewriteRead(q, c.n) EXCEPT !.buf = @ \o VarValue(q, c.n)]), 1)
      [] c.op = "args" -> Step([q EXCEPT !.at = Len(q.buf)], 1)
      [] c.op = "value" -> Step(Push(q, Value(c.t)), 1)
      [] c.op = "complex" -> ngx_http_script_complex_value_code(q, c)
      [] c.op = "set_var" -> ngx_http_script_set_var_code(q, c)
      [] c.op = "set_handler" -> ngx_http_script_var_set_handler_code(q, c)
      [] c.op = "push_var" -> ngx_http_script_var_code(q, c)
      [] c.op = "equal" -> ngx_http_script_equal_code(q, c)
      [] c.op = "not_equal" -> ngx_http_script_not_equal_code(q, c)
      [] c.op = "file" -> ngx_http_script_file_code(q, c)
      [] c.op = "regex" -> ngx_http_script_regex_start_code(q, c)
      [] c.op = "regex_end" -> ngx_http_script_regex_end_code(q, c)
      [] c.op = "if" -> ngx_http_script_if_code(q, c)
      [] c.op = "return" -> ngx_http_script_return_code(q, c)
      [] c.op = "break" -> ngx_http_script_break_code(q, c)

RECURSIVE Engine(_, _)

Engine(q, cs) == IF q.ip = 0 \/ q.ip > Len(cs) \/ cs[q.ip].op = "null" THEN q ELSE Engine(Run1(q, cs[q.ip]), cs)

Declined == -5

\* A request without a location has the configuration of the server, whose directives have
\* run; an error page keeps the status it is for
ngx_http_rewrite_handler(q, cs) ==
    IF q.again \/ cs = <<>> THEN [q EXCEPT !.result = Declined]
    ELSE LET e == Engine([q EXCEPT !.ip = 1, !.status = Declined], cs)
         IN [e EXCEPT !.result = IF e.status < 400 \/ e.err_status = 0 THEN e.status ELSE e.err_status]

-----------------------------------------------------------------------------

R0(uri, args) == [uri |-> uri, args |-> args, set |-> <<>>, kept |-> FALSE, keep |-> <<>>, caps |-> <<>>, loc_conf |-> 0,
                  location |-> <<>>, sent |-> <<>>, uri_changed |-> FALSE, valid_location |-> TRUE, internal |-> FALSE,
                  err_status |-> 0, again |-> FALSE,
                  ip |-> 1, stack |-> <<>>, top |-> 0, buf |-> <<>>, room |-> 0, at |-> -1, status |-> Declined,
                  over |-> FALSE, short |-> FALSE, result |-> 0, given |-> <<>>]

RewriteInit == /\ program \in Blocks(Items, MaxItems)
               /\ rewriteCodes = <<>>
               /\ rreq = [done |-> "conf"]

RewriteCompile == /\ rreq = [done |-> "conf"]
                  /\ rewriteCodes' = ngx_http_rewrite_merge_loc_conf(CompileAll(<<>>, program, 1))
                  /\ rreq' = [done |-> "ready"]
                  /\ UNCHANGED program

UriSet == {<<97, 99>>, <<100>>, <<97>>, <<97, 99, 98>>}

RewriteRequest == /\ rreq = [done |-> "ready"]
                  /\ \E u \in {x \in UriSet : Len(x) \in Uris}, a \in {x \in {<<>>, <<98>>} : Len(x) \in ArgsOf},
                       err \in {0, 405}, again \in {FALSE} \cup (IF Level = "server" THEN {TRUE} ELSE {}) :
                       \E q \in {[R0(u, a) EXCEPT !.err_status = err, !.again = again]} :
                         rreq' = [done |-> "ran", q |-> ngx_http_rewrite_handler(q, rewriteCodes), from |-> q]
                  /\ UNCHANGED <<program, rewriteCodes>>

RewriteNext == RewriteCompile \/ RewriteRequest

RewriteSpec == RewriteInit /\ [][RewriteNext]_rewriteVars

-----------------------------------------------------------------------------

(* What the directives mean, one after the other *)

RECURSIVE Eval(_, _)

Eval(q, t) == IF t = <<>> THEN <<>>
              ELSE (CASE Head(t).k = "lit" -> <<Head(t).c>>
                      [] Head(t).k = "cap" -> CapValue(q, Head(t).c)
                      [] Head(t).k = "var" -> VarValue(q, Head(t).c)) \o Eval(q, Tail(t))

Looked(q, t) == IF \E k \in DOMAIN t : t[k] = Var(3) THEN RewriteRead(q, 3) ELSE q

Stop(q, s) == [q EXCEPT !.ip = 0, !.status = s]

\* A replacement is a path and, behind its first ?, arguments
MeansReplace(q, d) ==
    LET t == Replacement(d)
        qs == {k \in DOMAIN t : t[k] = Q}
        cut == IF qs = {} THEN Len(t) + 1 ELSE CHOOSE k \in qs : \A j \in qs : k <= j
        path == Eval(q, SubSeq(t, 1, cut - 1))
        new == Eval(q, SubSeq(t, cut + 1, Len(t)))
        old == IF Keeps(d) THEN q.args ELSE <<>>
        args == IF qs = {} THEN old ELSE IF old = <<>> THEN new ELSE new \o <<Amp>> \o old
        p == [Looked(q, t) EXCEPT !.internal = TRUE, !.uri_changed = d.flag # "break", !.valid_location = @ /\ d.flag # "break"]
    IN IF Redirects(d)
       THEN Stop([p EXCEPT !.location = path \o (IF qs # {} \/ old # <<>> THEN <<RewriteQuestion>> ELSE <<>>) \o args],
                 IF d.flag = "permanent" THEN 301 ELSE 302)
       ELSE IF path = <<>> THEN Stop([p EXCEPT !.uri = path, !.args = args], 500)
       ELSE IF d.flag # "" THEN Stop([p EXCEPT !.uri = path, !.args = args], q.status)
       ELSE [p EXCEPT !.uri = path, !.args = args]

Tried(q, re, t) == [q EXCEPT !.caps = IF RewriteMatches(re, t) THEN RewriteCaptures(re, t) ELSE <<>>]

MeansSimple(q, d) ==
    CASE d.d = "set" /\ d.v = 2 -> [Looked(q, d.t) EXCEPT !.args = Eval(q, d.t)]
      [] d.d = "set" /\ d.v # 2 -> [Looked(q, d.t) EXCEPT !.set = Eval(q, d.t)]
      [] d.d = "break" -> Stop([q EXCEPT !.uri_changed = FALSE], q.status)
      [] d.d = "return" -> IF d.status >= 400 /\ d.t = <<>> THEN Stop(q, d.status)
                           ELSE Stop([q EXCEPT !.sent = <<d.status>> \o Eval(q, d.t)], 0)
      [] d.d = "rewrite" -> IF RewriteMatches(d.re, q.uri) THEN MeansReplace(Tried(q, d.re, q.uri), d) ELSE Tried(q, d.re, q.uri)

RECURSIVE MeansBlock(_, _)

MeansBlock(q, ds) == IF ds = <<>> \/ q.ip = 0 THEN q ELSE MeansBlock(MeansSimple(q, Head(ds)), Tail(ds))

Holds(q, d) == CASE d.cond = "var" -> VarValue(q, d.v) \notin {<<>>, <<48>>}
                 [] d.cond = "=" -> VarValue(q, d.v) = Eval(q, d.t)
                 [] d.cond = "!=" -> VarValue(q, d.v) # Eval(q, d.t)
                 [] d.cond = "~" -> RewriteMatches(d.re, VarValue(q, d.v))
                 [] d.cond = "!~" -> ~RewriteMatches(d.re, VarValue(q, d.v))
                 [] d.cond = "-f" -> Eval(q, d.t) \in Files
                 [] d.cond = "!-e" -> Eval(q, d.t) \notin Files \cup Dirs

AfterCond(q, d) == IF d.cond \in {"~", "!~"} THEN Tried(q, d.re, VarValue(q, d.v)) ELSE Looked(q, d.t)

RECURSIVE Means(_, _, _)

Means(q, ds, k) ==
    IF k > Len(ds) \/ q.ip = 0 THEN q
    ELSE IF ds[k].d # "if" THEN Means(MeansSimple(q, ds[k]), ds, k + 1)
    ELSE IF ~Holds(q, ds[k]) THEN Means(AfterCond(q, ds[k]), ds, k + 1)
    ELSE Means(MeansBlock([AfterCond(q, ds[k]) EXCEPT !.loc_conf = IF Level = "server" THEN @ ELSE k], ds[k].body), ds, k + 1)

Seen(q) == <<q.uri, q.args, q.set, q.keep, q.caps, q.loc_conf, q.location, q.sent, q.uri_changed, q.valid_location, q.internal>>

\* Run as one array of codes with jumps, the directives do what they say one after the
\* other: each if runs its block or skips it and nothing else, each rewrite changes the URI
\* and the arguments or is skipped, and nothing runs behind the one that ends it.
AsWritten == rreq.done = "ran" =>
                  LET m == IF rreq.from.again THEN rreq.from ELSE Means(rreq.from, program, 1)
                  IN /\ Seen(rreq.q) = Seen(m)
                     /\ rreq.q.result = IF m.status >= 400 /\ rreq.from.err_status # 0 THEN rreq.from.err_status ELSE m.status

\* The stack holds no more values than there is room for, and what a directive puts on
\* it is taken from it again: the next one finds it empty.
StackBalanced == rreq.done = "ran" => rreq.q.stack = <<>> /\ rreq.q.top <= StackSize

\* No value is longer than the room that was found for it, and a value whose length was
\* found before it was written has that length.
FitsRoom == rreq.done = "ran" => ~rreq.q.over /\ ~rreq.q.short

-----------------------------------------------------------------------------

(***************************************************************************)
(* Variables: modules and directives add them by name, values refer to     *)
(* them by index, and once the configuration is read each index is given   *)
(* the handler of its name.  A request then asks for variables by index    *)
(* or by name; what a handler answered is kept unless the variable is not  *)
(* cacheable.  Maps are variables that other variables decide.  http and   *)
(* stream hold the same code twice.                                        *)
(*                                                                         *)
(* Names and texts are sequences of labels, in lower case.  A prefix of    *)
(* names has one label, and the modules add no prefix of another one.      *)
(***************************************************************************)

CONSTANTS VarModule,         \* "http" or "stream"
          Depth,          \* ngx_http_variable_depth
          Core,           \* the variables the modules add: [name, flags]
          Used, Assigned,  \* the names values use, and those that are set or captured
          Maps,           \* the map blocks: [name, src, lines]
          Texts,          \* what a variable of the modules may be
          MaxDirectives, MaxSteps

VARIABLES varLines,          \* the directives, as written
          varConf,           \* what they made of the configuration
          answers,            \* what the handlers of the modules would answer now
          vq,              \* the request: the values of the indexes, and the depth
          varSteps, broken

varVars == <<varLines, varConf, answers, vq, varSteps, broken>>

NoHandler == [kind |-> "none"]

VarNull == [kind |-> "null"]               \* ngx_http_rewrite_var

Absent == [kind |-> "absent"]           \* ngx_http_variable_not_found

OfModule(n) == [kind |-> "module", of |-> n]

OfMap(m) == [kind |-> "map", of |-> m]

\* A handler may fail, or find nothing
Fail == <<"fail">>

Gone == <<"gone">>

Answers == {Fail, Gone} \cup Texts

Unset == [valid |-> FALSE, not_found |-> FALSE, no_cacheable |-> FALSE, text |-> <<>>]

Known(t) == [Unset EXCEPT !.valid = TRUE, !.text = t]

NotFound == [Unset EXCEPT !.not_found = TRUE]

-----------------------------------------------------------------------------

(* Names.  The keys are the hash of names, the indexes an array.             *)

NewVariable(n, flags) == [handler |-> NoHandler, flags |-> flags, index |-> 0]

ngx_http_add_prefix_variable(c, n, flags) ==
    LET same == {k \in DOMAIN c.prefixes : c.prefixes[k].name = n}
    IN IF same = {} THEN [c EXCEPT !.prefixes = Append(@, [name |-> n, flags |-> flags])]
       ELSE IF \E k \in same : "changeable" \notin c.prefixes[k].flags THEN [c EXCEPT !.rc = "error"]
       ELSE [c EXCEPT !.prefixes[CHOOSE k \in same : TRUE].flags = @ \ ({"weak"} \ flags)]

\* What is added twice must be changeable, and is no longer weak unless it is added as
\* weak again
ngx_http_add_variable(c, n, flags) ==
    IF n = <<>> THEN [c EXCEPT !.rc = "error"]
    ELSE IF "prefix" \in flags THEN ngx_http_add_prefix_variable(c, n, flags)
    ELSE IF n \notin DOMAIN c.keys THEN [c EXCEPT !.keys = (n :> NewVariable(n, flags)) @@ @]
    ELSE IF "changeable" \notin c.keys[n].flags THEN [c EXCEPT !.rc = "error"]
    ELSE [c EXCEPT !.keys[n].flags = @ \ ({"weak"} \ flags)]

ngx_stream_add_variable(c, n, flags) == ngx_http_add_variable(c, n, flags)

AddVariable(c, n, flags) == IF VarModule = "http" THEN ngx_http_add_variable(c, n, flags)
                            ELSE ngx_stream_add_variable(c, n, flags)

NewIndex(n) == [name |-> n, handler |-> NoHandler, flags |-> {}]

ngx_http_get_variable_index(c, n) ==
    IF n = <<>> THEN [c EXCEPT !.rc = "error"]
    ELSE IF \E i \in DOMAIN c.indexes : c.indexes[i].name = n THEN c
    ELSE [c EXCEPT !.indexes = Append(@, NewIndex(n))]

ngx_stream_get_variable_index(c, n) == ngx_http_get_variable_index(c, n)

GetVariableIndex(c, n) == IF VarModule = "http" THEN ngx_http_get_variable_index(c, n)
                          ELSE ngx_stream_get_variable_index(c, n)

IndexOf(c, n) == CHOOSE i \in DOMAIN c.indexes : c.indexes[i].name = n

SetHandler(c, n, h) == IF c.rc = "error" THEN c ELSE [c EXCEPT !.keys[n].handler = h]

Conf0 == [rc |-> "", keys |-> <<>>, prefixes |-> <<>>, indexes |-> <<>>, maps |-> <<>>]

\* Each module adds its variables, with their handlers
RECURSIVE AddAll(_, _)

AddAll(c, list) ==
    IF list = <<>> THEN c
    ELSE LET v == Head(list)
             a == AddVariable(c, v.name, v.flags)
         IN AddAll(IF "prefix" \in v.flags THEN a ELSE SetHandler(a, v.name, OfModule(v.name)), Tail(list))

ngx_http_variables_add_core_vars(list) == AddAll(Conf0, list)

ngx_stream_variables_add_core_vars(list) == ngx_http_variables_add_core_vars(list)

-----------------------------------------------------------------------------

(* Directives that add variables *)

\* A value of the configuration with a variable in it
Use(c, n) == GetVariableIndex(c, n)

\* set: the variable keeps the handler it has
ngx_http_rewrite_set_var(c, n) ==
        LET a == AddVariable(c, n, {"changeable", "weak"})
            i == GetVariableIndex(a, n)
        IN IF i.rc = "error" \/ i.keys[n].handler # NoHandler THEN i ELSE SetHandler(i, n, VarNull)

\* A regex with a named capture: whatever handler there was is replaced
ngx_http_regex_compile(c, n) ==
    LET a == AddVariable(c, n, {"changeable"})
    IN IF a.rc = "error" THEN a ELSE SetHandler(GetVariableIndex(a, n), n, Absent)

ngx_stream_regex_compile(c, n) == ngx_http_regex_compile(c, n)

RegexCompile(c, n) == IF VarModule = "http" THEN ngx_http_regex_compile(c, n) ELSE ngx_stream_regex_compile(c, n)

Empty == [keys |-> {}, regexes |-> <<>>, default |-> {}, values |-> {}, hostnames |-> FALSE, volatile |-> FALSE]

\* A value is compiled once, however many lines have it
CompileOnce(c, m, v) == IF v \in m.values \/ v.kind = "text" THEN c ELSE Use(c, v.name)

\* ngx_hash_add_key(): a wildcard is one only behind the word hostnames
KeyOf(m, line) ==
    [kind |-> IF m.hostnames THEN line.kind ELSE "exact", value |-> line.value,
     text |-> CASE m.hostnames \/ line.kind = "exact" -> line.text
                [] line.kind = "head" -> <<"*">> \o line.text
                [] OTHER -> Append(line.text, "*")]

\* The lines of a map block.  A regex may bring a variable of its own
RegexLine(used, kept, line) ==
    [c |-> IF line.capture = <<>> THEN used ELSE RegexCompile(used, line.capture),
     m |-> [kept EXCEPT !.regexes = Append(@, line)]]

StreamRegexLine(used, kept, line) == RegexLine(used, kept, line)

HashLine(used, kept, line) ==
    LET key == KeyOf(kept, line)
    IN [c |-> IF \E k \in kept.keys : k.kind = key.kind /\ k.text = key.text THEN [used EXCEPT !.rc = "error"] ELSE used,
        m |-> [kept EXCEPT !.keys = @ \cup {key}]]

StreamHashLine(used, kept, line) == HashLine(used, kept, line)

DefaultLine(used, kept, line) ==
    [c |-> IF kept.default # {} THEN [used EXCEPT !.rc = "error"] ELSE used,
     m |-> [kept EXCEPT !.default = {line.value}]]

ngx_http_map(c, m, line) ==
    LET used == CompileOnce(c, m, line.value)
        kept == [m EXCEPT !.values = @ \cup {line.value}]
    IN CASE line.kind = "hostnames" -> [c |-> c, m |-> [m EXCEPT !.hostnames = TRUE]]
         [] line.kind = "volatile" -> [c |-> c, m |-> [m EXCEPT !.volatile = TRUE]]
         [] line.kind = "default" -> DefaultLine(used, kept, line)
         [] line.kind = "regex" -> RegexLine(used, kept, line)
         [] OTHER -> HashLine(used, kept, line)

ngx_stream_map(c, m, line) ==
    LET used == CompileOnce(c, m, line.value)
        kept == [m EXCEPT !.values = @ \cup {line.value}]
    IN CASE line.kind = "regex" -> StreamRegexLine(used, kept, line)
         [] line.kind \in {"exact", "head", "tail"} -> StreamHashLine(used, kept, line)
         [] OTHER -> ngx_http_map(c, m, line)

RECURSIVE MapLines(_, _)

MapLines(cm, lines) ==
    IF lines = <<>> \/ cm.c.rc = "error" THEN cm
    ELSE MapLines(IF VarModule = "http" THEN ngx_http_map(cm.c, cm.m, Head(lines))
                  ELSE ngx_stream_map(cm.c, cm.m, Head(lines)), Tail(lines))

\* Behind the last line: the default, the hashes and the regexes become the map
MapMade(b, cm) ==
    LET default == IF cm.m.default = {} THEN [kind |-> "text", text |-> <<>>] ELSE CHOOSE v \in cm.m.default : TRUE
        map == [src |-> b.src, hostnames |-> cm.m.hostnames, keys |-> cm.m.keys, regexes |-> cm.m.regexes, default |-> default]
    IN IF cm.c.rc = "error" THEN cm.c
       ELSE [cm.c EXCEPT !.maps = Append(@, map), !.keys[b.name].flags = IF cm.m.volatile THEN @ \cup {"nocacheable"} ELSE @]

StreamMapMade(b, cm) == MapMade(b, cm)

MapOpened(c, b) ==
    LET a == AddVariable(Use(c, b.src), b.name, {"changeable"})
    IN MapLines([c |-> SetHandler(a, b.name, OfMap(Len(c.maps) + 1)), m |-> Empty], b.lines)

ngx_http_map_block(c, b) == MapMade(b, MapOpened(c, b))

ngx_stream_map_block(c, b) == StreamMapMade(b, MapOpened(c, b))

MapBlock(c, b) == IF VarModule = "http" THEN ngx_http_map_block(c, b) ELSE ngx_stream_map_block(c, b)

-----------------------------------------------------------------------------

(* Once all is read the indexes get their handlers. *)

\* The loop over the prefixes: a later one replaces an earlier one unless that one is
\* the whole name
RECURSIVE PrefixFrom(_, _, _, _)

PrefixFrom(c, n, k, best) ==
    IF k > Len(c.prefixes) THEN best
    ELSE LET p == c.prefixes[k].name
             len == IF best = 0 THEN 0 ELSE Len(c.prefixes[best].name)
         IN PrefixFrom(c, n, k + 1, IF IsPrefix(p, n) /\ Len(n) > len THEN k ELSE best)

PrefixOf(c, n) == PrefixFrom(c, n, 1, 0)

Bound(c, v) ==
    LET known == v.name \in DOMAIN c.keys
        own == IF known THEN [v EXCEPT !.handler = c.keys[v.name].handler, !.flags = c.keys[v.name].flags \cup {"indexed"}] ELSE v
        p == PrefixOf(c, v.name)
    IN IF own.handler # NoHandler /\ "weak" \notin own.flags THEN own
       ELSE IF p # 0 THEN [own EXCEPT !.handler = OfModule(v.name), !.flags = c.prefixes[p].flags]
       ELSE own

ngx_http_variables_init_vars(c) ==
    LET bound == [i \in DOMAIN c.indexes |-> Bound(c, c.indexes[i])]
        names == {c.indexes[i].name : i \in DOMAIN c.indexes}
    IN IF \E i \in DOMAIN bound : bound[i].handler = NoHandler THEN [c EXCEPT !.rc = "error"]
       ELSE [c EXCEPT !.rc = "ok", !.indexes = bound,
                      !.keys = [n \in DOMAIN @ |-> IF n \in names THEN [@[n] EXCEPT !.flags = @ \cup {"indexed"}, !.index = IndexOf(c, n)]
                                                   ELSE @[n]]]

ngx_stream_variables_init_vars(c) == ngx_http_variables_init_vars(c)

-----------------------------------------------------------------------------

(* A request.  Handlers may ask for other variables: what a handler answers  *)
(* comes with the request as it is afterwards.                               *)

Answer(x, ok, v) == [q |-> x, ok |-> ok, v |-> v]

\* The depth is as before once a handler is through, whatever it answered
Deeper(x, a) == [a.q EXCEPT !.depth = x.depth]

RECURSIVE ngx_http_map_variable(_, _)

RECURSIVE ngx_stream_map_variable(_, _)

Handle(x, h, old) ==
    CASE h.kind = "null" -> Answer(x, TRUE, Known(<<>>))
      [] h.kind = "absent" -> Answer(x, TRUE, [old EXCEPT !.not_found = TRUE])
      [] h.kind = "map" -> IF VarModule = "http" THEN ngx_http_map_variable(x, varConf.maps[h.of])
                           ELSE ngx_stream_map_variable(x, varConf.maps[h.of])
      [] answers[h.of] = Fail -> Answer(x, FALSE, old)
      [] answers[h.of] = Gone -> Answer(x, TRUE, [old EXCEPT !.not_found = TRUE])
      [] OTHER -> Answer(x, TRUE, Known(answers[h.of]))

Store(x, i, v) == Answer([x EXCEPT !.vals[i] = v], TRUE, v)

\* What a handler answered is kept, and that it failed is
Answered(x, i, h) ==
    IF h.ok THEN Store(Deeper(x, h), i, [h.v EXCEPT !.no_cacheable = @ \/ "nocacheable" \in varConf.indexes[i].flags])
    ELSE Answer([Deeper(x, h) EXCEPT !.vals[i] = [@ EXCEPT !.valid = FALSE, !.not_found = TRUE]], FALSE, Unset)

ngx_http_get_indexed_variable(x, i) ==
    IF x.vals[i].not_found \/ x.vals[i].valid THEN Answer(x, TRUE, x.vals[i])
    ELSE IF x.depth = 0 THEN Answer(x, FALSE, Unset)
    ELSE Answered(x, i, Handle([x EXCEPT !.depth = @ - 1], varConf.indexes[i].handler, x.vals[i]))

ngx_stream_get_indexed_variable(x, i) == ngx_http_get_indexed_variable(x, i)

\* What is not cacheable is forgotten
Flushed(x, i) ==
    IF x.vals[i].no_cacheable THEN [x EXCEPT !.vals[i] = [@ EXCEPT !.valid = FALSE, !.not_found = FALSE]] ELSE x

ngx_http_get_flushed_variable(x, i) == ngx_http_get_indexed_variable(Flushed(x, i), i)

ngx_stream_get_flushed_variable(x, i) == ngx_stream_get_indexed_variable(Flushed(x, i), i)

NotKept(x, h) == Answer(Deeper(x, h), h.ok, IF h.ok THEN h.v ELSE Unset)

\* By name: the index if there is one, and nothing is kept otherwise
ngx_http_get_variable(x, n) ==
    LET p == PrefixOf(varConf, n)
    IN IF n \in DOMAIN varConf.keys
       THEN IF "indexed" \in varConf.keys[n].flags THEN ngx_http_get_flushed_variable(x, varConf.keys[n].index)
            ELSE IF x.depth = 0 THEN Answer(x, FALSE, Unset)
            ELSE NotKept(x, Handle([x EXCEPT !.depth = @ - 1], varConf.keys[n].handler, Unset))
       ELSE IF p # 0 THEN Handle(x, OfModule(n), Unset)
       ELSE Answer(x, TRUE, NotFound)

ngx_stream_get_variable(x, n) == ngx_http_get_variable(x, n)

-----------------------------------------------------------------------------

(* Maps *)

\* The text of a value with one variable: nothing for what is not found
TextOf(a) == [q |-> a.q, text |-> IF a.ok /\ ~a.v.not_found THEN a.v.text ELSE <<>>]

ComplexValue(x, v) ==
    IF v.kind = "text" THEN [q |-> x, text |-> v.text]
    ELSE TextOf(ngx_http_get_flushed_variable(x, IndexOf(varConf, v.name)))

\* ngx_hash_find_combined(): the text itself, then the longest wildcard in front, then
\* the longest one behind
VarMatches(k, t) == CASE k.kind = "exact" -> k.text = t
                      [] k.kind = "head" -> Len(t) > Len(k.text) /\ IsSuffix(k.text, t)
                      [] k.kind = "tail" -> Len(t) > Len(k.text) /\ IsPrefix(k.text, t)

Longest(ks) == {k \in ks : \A j \in ks : Len(j.text) <= Len(k.text)}

HashFind(keys, t) ==
    LET of(kind) == {k \in keys : k.kind = kind /\ VarMatches(k, t)}
    IN IF of("exact") # {} THEN of("exact") ELSE IF of("head") # {} THEN Longest(of("head")) ELSE Longest(of("tail"))

\* A regex that matches sets its capture, at once
ngx_http_regex_exec(x, reg, t) ==
    IF reg.capture = <<>> THEN x ELSE [x EXCEPT !.vals[IndexOf(varConf, reg.capture)] = Known(t)]

ngx_stream_regex_exec(x, reg, t) == ngx_http_regex_exec(x, reg, t)

\* The regexes are tried in the order they were written
FirstOf(hits) == CHOOSE k \in hits : \A j \in hits : k <= j

RegexFound(x, reg, t) == [q |-> ngx_http_regex_exec(x, reg, t), value |-> reg.value]

StreamRegexFound(x, reg, t) == [q |-> ngx_stream_regex_exec(x, reg, t), value |-> reg.value]

MapFind(x, m, t, found, hits) ==
    IF found # {} THEN [q |-> x, value |-> (CHOOSE k \in found : TRUE).value]
    ELSE IF t = <<>> \/ hits = {} THEN [q |-> x, value |-> m.default]
    ELSE IF VarModule = "http" THEN RegexFound(x, m.regexes[FirstOf(hits)], t)
    ELSE StreamRegexFound(x, m.regexes[FirstOf(hits)], t)

ngx_http_map_find(x, m, t) == MapFind(x, m, t, HashFind(m.keys, t), {k \in DOMAIN m.regexes : t \in m.regexes[k].matches})

ngx_stream_map_find(x, m, t) == ngx_http_map_find(x, m, t)

\* A dot at the end of a host name does not count
WithoutDot(m, t) == IF m.hostnames /\ t # <<>> /\ Last(t) = "" THEN Front(t) ELSE t

MapText(c) == Answer(c.q, TRUE, Known(c.text))

ngx_http_map_variable(x, m) ==
    LET MapAnswer(find) == MapText(ComplexValue(find.q, find.value))
        MapOf(src) == MapAnswer(ngx_http_map_find(src.q, m, WithoutDot(m, src.text)))
    IN MapOf(ComplexValue(x, [kind |-> "var", name |-> m.src]))

ngx_stream_map_variable(x, m) ==
    LET MapAnswer(find) == MapText(ComplexValue(find.q, find.value))
        MapOf(src) == MapAnswer(ngx_stream_map_find(src.q, m, WithoutDot(m, src.text)))
    IN MapOf(ComplexValue(x, [kind |-> "var", name |-> m.src]))

-----------------------------------------------------------------------------

CoreNames == {Core[k].name : k \in DOMAIN Core}

OwnCore(n) == \E k \in DOMAIN Core : Core[k].name = n /\ "prefix" \notin Core[k].flags

ByPrefix(n) == \E k \in DOMAIN Core : "prefix" \in Core[k].flags /\ IsPrefix(Core[k].name, n)

Names == CoreNames \cup Used \cup Assigned \cup {b.name : b \in Maps}

VarInit == /\ varLines = <<>>
           /\ varConf = IF VarModule = "http" THEN ngx_http_variables_add_core_vars(Core) ELSE ngx_stream_variables_add_core_vars(Core)
           /\ answers \in [Names -> {CHOOSE t \in Texts : TRUE}]
           /\ vq = [vals |-> <<>>, depth |-> Depth]
           /\ varSteps = 0 /\ broken = FALSE

Directive(d, c) == /\ varConf.rc = "" /\ Len(varLines) < MaxDirectives
                   /\ varLines' = Append(varLines, d) /\ varConf' = c
                   /\ UNCHANGED <<answers, vq, varSteps, broken>>

Refers == \E n \in Used : Directive([op |-> "use", name |-> n], Use(varConf, n))

VarSets == VarModule = "http" /\ \E n \in Assigned : Directive([op |-> "set", name |-> n], ngx_http_rewrite_set_var(varConf, n))

VarCaptures == \E n \in Assigned : Directive([op |-> "regex", name |-> n], RegexCompile(varConf, n))

DefinesMap == \E b \in Maps : Directive([op |-> "map", name |-> b.name, block |-> b], MapBlock(varConf, b))

\* The configuration is read, and a request comes
Complete ==
    /\ varConf.rc = "" /\ varLines # <<>>
    /\ varConf' = IF VarModule = "http" THEN ngx_http_variables_init_vars(varConf) ELSE ngx_stream_variables_init_vars(varConf)
    /\ vq' = [vq EXCEPT !.vals = [i \in DOMAIN varConf.indexes |-> Unset]]
    /\ UNCHANGED <<varLines, answers, varSteps, broken>>

Running == varConf.rc = "ok" /\ varSteps < MaxSteps

VarRead == /\ Running /\ varSteps' = varSteps + 1
           /\ \E i \in DOMAIN varConf.indexes :
                vq' = (IF VarModule = "http" THEN ngx_http_get_flushed_variable(vq, i) ELSE ngx_stream_get_flushed_variable(vq, i)).q
           /\ UNCHANGED <<varLines, varConf, answers, broken>>

ReadName == /\ Running /\ varSteps' = varSteps + 1
            /\ \E n \in Names :
                 vq' = (IF VarModule = "http" THEN ngx_http_get_variable(vq, n) ELSE ngx_stream_get_variable(vq, n)).q
            /\ UNCHANGED <<varLines, varConf, answers, broken>>

\* ngx_http_script_set_var_code()
SetVar == /\ Running /\ varSteps' = varSteps + 1
          /\ \E k \in DOMAIN varLines, t \in Texts : varLines[k].op = "set" /\ vq' = [vq EXCEPT !.vals[IndexOf(varConf, varLines[k].name)] = Known(t)]
          /\ UNCHANGED <<varLines, varConf, answers, broken>>

\* What the modules would answer changes
Change == /\ Running /\ varSteps' = varSteps + 1
          /\ \E n \in Names, a \in Answers :
               (OwnCore(n) \/ ByPrefix(n)) /\ answers' = [answers EXCEPT ![n] = a] /\ broken' = (broken \/ a = Fail)
          /\ UNCHANGED <<varLines, varConf, vq>>

VarNext == Refers \/ VarSets \/ VarCaptures \/ DefinesMap \/ Complete \/ VarRead \/ ReadName \/ SetVar \/ Change

VarSpec == VarInit /\ [][VarNext]_varVars

-----------------------------------------------------------------------------

(* What was written, read as a whole *)

Strong(n) == {k \in DOMAIN varLines : varLines[k].name = n /\ varLines[k].op \in {"map", "regex"}}

CapturedBy(k, n) == varLines[k].op = "map" /\ \E j \in DOMAIN varLines[k].block.lines :
                         varLines[k].block.lines[j].kind = "regex" /\ varLines[k].block.lines[j].capture = n

Weak(n) == \E k \in DOMAIN varLines : varLines[k].op = "set" /\ varLines[k].name = n

\* A variable is what was last said of it: a map or a capture stands above a variable of
\* a module, that above a prefix, and that above a variable that is only set.  Where a
\* variable is used, before its definition or after it, does not matter.
LastWord ==
    varConf.rc = "ok" => \A i \in DOMAIN varConf.indexes :
         LET n == varConf.indexes[i].name
             h == varConf.indexes[i].handler
         IN (\A k \in DOMAIN varLines : ~CapturedBy(k, n)) =>
            IF Strong(n) # {}
            THEN LET k == CHOOSE k \in Strong(n) : \A j \in Strong(n) : j <= k
                 IN IF varLines[k].op = "regex" THEN h = Absent
                    ELSE h = OfMap(Cardinality({j \in 1 .. k : varLines[j].op = "map"}))
            ELSE IF OwnCore(n) \/ ByPrefix(n) THEN h = OfModule(n)
            ELSE Weak(n) /\ h = VarNull

\* A variable is the same by its name and by its index, however often and in whatever
\* order it was asked for before.
SameByName ==
    varConf.rc = "ok" => \A i \in DOMAIN varConf.indexes :
         LET n == varConf.indexes[i].name
         IN n \in DOMAIN varConf.keys => ngx_http_get_variable(vq, n) = ngx_http_get_flushed_variable(vq, i)

\* However a chain of variables ends, in a value, an error or a cycle, it gives back
\* the depth it took.
DepthRestored == vq.depth = Depth

\* The text of a variable as it was written down: the answers of the modules, through
\* the maps, to a request that has asked for nothing yet
RECURSIVE Said(_, _)

SaidMap(m, d) ==
    LET src == Said(varConf.indexes[IndexOf(varConf, m.src)], d - 1)
        host == \E j \in DOMAIN m.lines : m.lines[j].kind = "hostnames"
        t == IF host /\ src # <<>> /\ Last(src) = "" THEN Front(src) ELSE src
        behind(j) == \E l \in 1 .. (j - 1) : m.lines[l].kind = "hostnames"
        of(kind) == {j \in DOMAIN m.lines : m.lines[j].kind = kind}
        exact == {j \in of("exact") : m.lines[j].text = t}
        head == {j \in of("head") : behind(j) /\ Len(t) > Len(m.lines[j].text) /\ IsSuffix(m.lines[j].text, t)}
        tail == {j \in of("tail") : behind(j) /\ Len(t) > Len(m.lines[j].text) /\ IsPrefix(m.lines[j].text, t)}
        regex == {j \in of("regex") : t # <<>> /\ t \in m.lines[j].matches}
        best == IF exact # {} THEN exact
                ELSE IF head # {} THEN {j \in head : \A l \in head : Len(m.lines[l].text) <= Len(m.lines[j].text)}
                ELSE IF tail # {} THEN {j \in tail : \A l \in tail : Len(m.lines[l].text) <= Len(m.lines[j].text)}
                ELSE IF regex # {} THEN {j \in regex : \A l \in regex : j <= l}
                ELSE of("default")
        v == IF best = {} THEN [kind |-> "text", text |-> <<>>] ELSE m.lines[CHOOSE j \in best : TRUE].value
    IN IF v.kind = "text" THEN v.text
       ELSE IF regex \cap best # {} /\ m.lines[CHOOSE j \in best : TRUE].capture = v.name THEN t
       ELSE Said(varConf.indexes[IndexOf(varConf, v.name)], d - 1)

Said(v, d) ==
    CASE d <= 0 -> <<>>
      [] v.handler.kind = "map" -> SaidMap(varLines[CHOOSE k \in DOMAIN varLines : varLines[k].op = "map" /\ v.handler.of = Cardinality({j \in 1 .. k : varLines[j].op = "map"})].block, d)
      [] v.handler.kind = "module" -> IF answers[v.handler.of] \in Texts THEN answers[v.handler.of] ELSE <<>>
      [] OTHER -> <<>>

\* A map answers with the line that fits best, whatever the order of its lines: the text
\* itself, the longest name with a wildcard, the first regex, the default.
MapsExact ==
    varConf.rc = "ok" =>
         LET fresh == [vq EXCEPT !.vals = [i \in DOMAIN @ |-> Unset]]
         IN \A i \in DOMAIN varConf.indexes : TextOf(ngx_http_get_flushed_variable(fresh, i)).text = Said(varConf.indexes[i], Depth)

\* What every handler on the way to a variable says is not kept
RECURSIVE AllVolatile(_, _)

AllVolatile(v, d) ==
    CASE d <= 0 -> FALSE
      [] v.handler.kind = "module" -> "nocacheable" \in v.flags
      [] v.handler.kind = "map" ->
           LET m == varConf.maps[v.handler.of]
           IN /\ "nocacheable" \in v.flags /\ m.regexes = <<>>
              /\ AllVolatile(varConf.indexes[IndexOf(varConf, m.src)], d - 1)
              /\ \A w \in {k.value : k \in m.keys} \cup {m.default} :
                   w.kind = "var" => AllVolatile(varConf.indexes[IndexOf(varConf, w.name)], d - 1)
      [] OTHER -> FALSE

\* A volatile map of a variable that changes follows it at once, whatever was asked for
\* before (unless a handler failed: that is remembered, and see Flushed).
Current ==
    varConf.rc = "ok" /\ ~broken => \A i \in DOMAIN varConf.indexes :
         AllVolatile(varConf.indexes[i], Depth) /\ ~(\E k \in DOMAIN varLines : varLines[k].op \in {"set", "regex"})
           => TextOf(ngx_http_get_flushed_variable(vq, i)).text = Said(varConf.indexes[i], Depth)

Capturing(n) == \E k \in DOMAIN varLines : CapturedBy(k, n)

\* Asking for a variable changes none that is kept, except the captures of the maps
\* that are asked on the way.
Kept == varConf.rc = "ok" => \A i, j \in DOMAIN vq.vals :
             vq.vals[i].valid /\ ~vq.vals[i].no_cacheable /\ ~Capturing(varConf.indexes[i].name)
                => ngx_http_get_flushed_variable(vq, j).q.vals[i] = vq.vals[i]
=============================================================================
