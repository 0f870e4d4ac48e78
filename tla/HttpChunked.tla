----------------------------- MODULE HttpChunked -----------------------------
(***************************************************************************)
(* ngx_http_parse_chunked (http/ngx_http_parse.c) and the bytes it is fed. *)
(* A byte is <<kind, value>>: a digit of a chunk size, "cr", "lf", "ext"   *)
(* (chunk extension), "data", "tr" (a trailer line), and "next", the first *)
(* byte after the body.  Used by the request body reader and by proxying.  *)
(***************************************************************************)
EXTENDS Integers, Sequences

Ctx0 == [state |-> "start", size |-> 0]

(* A call of the parser begins in after_data once a chunk's data is taken. *)
Entered(x) == IF x.state = "data" /\ x.size = 0 THEN [x EXCEPT !.state = "after"] ELSE x

(* One byte.  "stop" is returned at the data of a chunk, "done" at the end. *)
AfterSize(x, ch) ==
    CASE ch[1] = "cr" -> [x EXCEPT !.state = IF x.size = 0 THEN "last_ext_cr" ELSE "ext_cr"]
      [] ch[1] = "lf" -> [x EXCEPT !.state = IF x.size = 0 THEN "trailer" ELSE "data"]
      [] ch[1] = "ext" -> [x EXCEPT !.state = IF x.size = 0 THEN "last_ext" ELSE "ext"]
      [] OTHER -> [x EXCEPT !.state = "invalid"]

Line(x, ch, cr, lf, other) ==    \* a state that only looks for the end of line
    [x EXCEPT !.state = CASE ch[1] = "cr" -> cr [] ch[1] = "lf" -> lf [] OTHER -> other]

ParseByte(x, ch) ==
    CASE x.state = "start" ->
           IF ch[1] = "size" THEN [state |-> "size", size |-> ch[2]] ELSE [x EXCEPT !.state = "invalid"]
      [] x.state = "size" ->
           IF ch[1] = "size" THEN [x EXCEPT !.size = @ * 16 + ch[2]] ELSE AfterSize(x, ch)
      [] x.state = "ext" -> Line(x, ch, "ext_cr", "data", "ext")
      [] x.state = "ext_cr" -> Line(x, ch, "invalid", "data", "invalid")
      [] x.state = "after" -> Line(x, ch, "after_cr", "start", "after")
      [] x.state = "after_cr" -> Line(x, ch, "invalid", "start", "invalid")
      [] x.state = "last_ext" -> Line(x, ch, "last_ext_cr", "trailer", "last_ext")
      [] x.state = "last_ext_cr" -> Line(x, ch, "invalid", "trailer", "invalid")
      [] x.state = "trailer" -> Line(x, ch, "trailer_cr", "done", "trailer_hdr")
      [] x.state = "trailer_cr" -> Line(x, ch, "invalid", "done", "invalid")
      [] x.state = "trailer_hdr" -> Line(x, ch, "trailer_hdr_cr", "trailer", "trailer_hdr")
      [] x.state = "trailer_hdr_cr" -> Line(x, ch, "invalid", "trailer", "invalid")

Length(x) ==
    CASE x.state = "start" -> 3
      [] x.state = "size" -> 1 + (IF x.size > 0 THEN x.size + 4 ELSE 1)
      [] x.state \in {"ext", "ext_cr"} -> 1 + x.size + 4
      [] x.state = "data" -> x.size + 4
      [] x.state \in {"after", "after_cr"} -> 4
      [] x.state \in {"last_ext", "last_ext_cr"} -> 2
      [] x.state \in {"trailer", "trailer_cr"} -> 1
      [] x.state \in {"trailer_hdr", "trailer_hdr_cr"} -> 2

(* ngx_http_parse_chunked on bytes pos+1..last of mem: where it stops, and *)
(* why: "ok" at chunk data, "again", "done" or "invalid".                  *)
RECURSIVE Scan(_, _, _, _)
Scan(x, mem, pos, last) ==
    CASE x.state = "invalid" -> [x |-> x, pos |-> pos, rc |-> "invalid"]
      [] x.state = "done" -> [x |-> Ctx0, pos |-> pos, rc |-> "done"]
      [] x.state \notin {"invalid", "done"} /\ pos = last -> [x |-> x, pos |-> pos, rc |-> "again"]
      [] x.state = "data" /\ pos < last -> [x |-> x, pos |-> pos, rc |-> "ok"]
      [] x.state \notin {"invalid", "done", "data"} /\ pos < last ->
           Scan(ParseByte(x, mem[pos + 1]), mem, pos + 1, last)

ngx_http_parse_chunked(x, mem, pos, last) == Scan(Entered(x), mem, pos, last)

-----------------------------------------------------------------------------
(* What a client or a server may send: a chunked body of up to Data bytes  *)
(* and then the bytes of what follows; cr says whether lines end in CR LF. *)
Gen0 == [at |-> "start", lf |-> FALSE, left |-> 0, n |-> 0]

Eol(g, cr, to) == {<<IF cr THEN <<"cr", 0>> ELSE <<"lf", 0>>, [g EXCEPT !.at = to, !.lf = cr]>>}

Emits(g, cr, Data) ==
    LET line == IF g.left = 0 THEN "trailer" ELSE "data"
        size(at) == {<<<<"size", v>>, [g EXCEPT !.at = at, !.left = v]>> : v \in 0..(Data - g.n)}
    IN CASE g.lf -> {<<<<"lf", 0>>, [g EXCEPT !.lf = FALSE]>>}
         [] ~g.lf /\ g.at = "start" -> size("size")
         [] ~g.lf /\ g.at = "size" -> Eol(g, cr, line) \cup {<<<<"ext", 0>>, [g EXCEPT !.at = "ext"]>>}
                                       \cup (IF g.left = 0 THEN size("ext") ELSE {})
         [] ~g.lf /\ g.at = "ext" -> Eol(g, cr, line)
         [] ~g.lf /\ g.at = "data" ->
              {<<<<"data", g.n + 1>>, [g EXCEPT !.left = @ - 1, !.n = @ + 1,
                                                !.at = IF g.left = 1 THEN "after" ELSE "data"]>>}
         [] ~g.lf /\ g.at = "after" -> Eol(g, cr, "start")
         [] ~g.lf /\ g.at = "trailer" -> Eol(g, cr, "end") \cup {<<<<"tr", 0>>, [g EXCEPT !.at = "tr"]>>}
         [] ~g.lf /\ g.at = "tr" -> Eol(g, cr, "final")
         [] ~g.lf /\ g.at = "final" -> Eol(g, cr, "end")
         [] ~g.lf /\ g.at = "end" -> {<<<<"next", 0>>, g>>}

(* A body of known length instead. *)
Plain(g, Data) == IF g.n < Data THEN {<<<<"data", g.n + 1>>, [g EXCEPT !.n = @ + 1]>>}
                  ELSE {<<<<"next", 0>>, [g EXCEPT !.at = "end"]>>}
=============================================================================
