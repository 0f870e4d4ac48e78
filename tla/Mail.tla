-------------------------------- MODULE Mail --------------------------------
(***************************************************************************)
(* The mail proxy: the commands of its protocols, and the session.         *)
(***************************************************************************)
EXTENDS Naturals, Sequences, SequencesExt, FiniteSets

(***************************************************************************)
(* The command parsers of the mail proxy (src/mail/ngx_mail_parse.c) with  *)
(* the buffer they share with ngx_mail_read_command() and the handlers: a  *)
(* line arrives in pieces, the parser stops and resumes, and what it hands *)
(* over must be what the whole line says.                                  *)
(*                                                                         *)
(* A command word is one character of Commands; "x" is a letter that makes *)
(* a word no command, "1" a digit, "R" and "L" are CR and LF, "q" is the   *)
(* double quote, "b" the backslash.                                        *)
(***************************************************************************)

CONSTANTS ParseProto,       \* "pop3", "imap" or "smtp"
          Lines,       \* the line shapes to combine, by name
          MaxLines,    \* how many lines the client sends
          MaxArgs,     \* the number of arguments a parser accepts another one after
          Size,        \* the size of the command buffer
          UntilInvalid \* compare up to the first invalid line only

VARIABLES input, fed, m, out

parseVars == <<input, fed, m, out>>

CR == "R"

LF == "L"

Commands == {"U", "A", "N"}     \* USER or LOGIN or MAIL, AUTH or AUTHENTICATE, NOOP

Letters == Commands \cup {"x"}

\* The lines, as the client writes them.
Line ==
    [noop     |-> <<"N", CR, LF>>,
     noopLF   |-> <<"N", LF>>,
     spaced   |-> <<"N", " ", " ", CR, LF>>,
     user     |-> <<"U", " ", "x", "x", CR, LF>>,
     user2    |-> <<"U", " ", "x", " ", "1", CR, LF>>,
     many     |-> <<"N", " ", "x", " ", "1", " ", "x", " ", "1", CR, LF>>,
     rest     |-> <<"U", " ", "x", " ", "1", " ", "x", " ", "1", CR, LF>>,
     wide     |-> <<"N", " ", " ", " ", " ", " ", " ", " ", " ", " ", CR, LF>>,
     auth     |-> <<"A", " ", "x", CR, LF>>,
     auth0    |-> <<"A", CR, LF>>,
     auth2    |-> <<"A", " ", "x", " ", "1", LF>>,
     data     |-> <<"x", "1", CR, LF>>,
     word     |-> <<"x", "x", " ", "x", CR, LF>>,
     digit    |-> <<"1", "N", CR, LF>>,
     crx      |-> <<"N", CR, "x", LF>>,
     tnoop    |-> <<"t", " ", "N", CR, LF>>,
     tspaces  |-> <<"t", " ", " ", "N", " ", LF>>,
     tlogin   |-> <<"t", " ", "U", " ", "x", " ", "1", CR, LF>>,
     tquoted  |-> <<"t", " ", "U", " ", "q", "x", " ", "q", " ", "1", CR, LF>>,
     tescaped |-> <<"t", " ", "U", " ", "q", "b", "q", "x", "q", " ", "x", CR, LF>>,
     tempty   |-> <<"t", " ", "U", " ", "q", "q", " ", "x", LF>>,
     tliteral |-> <<"t", " ", "U", " ", "{", "2", "}", CR, LF, "x", " ", "{", "1", "}", LF, "1",
                    CR, LF>>,
     tnosync  |-> <<"t", " ", "U", " ", "{", "2", "+", "}", CR, LF, CR, LF, " ", "x", CR, LF>>,
     tauth    |-> <<"t", " ", "A", " ", "x", CR, LF>>,
     tnone    |-> <<"t", CR, LF>>,
     tword    |-> <<"t", " ", "x", CR, LF>>,
     tbroken  |-> <<"t", " ", "U", " ", "{", "x", CR, LF>>]

-----------------------------------------------------------------------------

(* The parsers, one step per character.  m.p is the character, m.state the   *)
(* state, m.args the bounds of the arguments in the buffer.                  *)

Go(x, state) == [x EXCEPT !.state = state, !.p = @ + 1]

\* ngx_array_push() of the argument that ends before the current character.
Push(x) == [x EXCEPT !.args = Append(@, <<x.argStart, x.p - x.argStart>>), !.argStart = 0]

\* The label "done".
Done(x) ==
    LET y == IF x.argStart = 0 THEN x
             ELSE [x EXCEPT !.args = Append(@, <<x.argStart, x.argEnd - x.argStart>>),
                            !.argStart = 0]
    IN [y EXCEPT !.pos = x.p + 1, !.rc = "OK",
                 !.state = IF x.cmd = "A" THEN "argument" ELSE "start"]

\* The label "invalid" of POP3 and the one of IMAP.
ParseInvalid(x) == [x EXCEPT !.rc = "INVALID", !.state = "start", !.argStart = 0]

ImapInvalid(x) == [x EXCEPT !.rc = "INVALID", !.state = "start", !.quoted = FALSE,
                            !.nosync = FALSE, !.literal = 0]

\* The label "invalid" of SMTP: the parser skips to the next line, or to the end of
\* what it has and expects to go on skipping.
InvalidSkips(x) ==
    LET ends == {k \in x.pos..Len(x.buf) : x.buf[k] = LF}
        end  == CHOOSE k \in ends : \A j \in ends : k <= j
    IN [x EXCEPT !.rc = "INVALID", !.argStart = 0,
                 !.state = IF ends = {} THEN "invalid" ELSE "start",
                 !.pos = IF ends = {} THEN Len(x.buf) + 1 ELSE end + 1]

\* The label "invalid" of the parser.
Refuse(x) ==
    CASE ParseProto = "pop3" -> ParseInvalid(x)
      [] ParseProto = "smtp" -> InvalidSkips(x)
      [] ParseProto = "imap" -> ImapInvalid(x)

\* The end of a word or of an argument.
After(x, ch) ==
    CASE ch \in {" ", "q"} -> Go(x, "spaces")
      [] ch = CR  -> Go(x, "almost")
      [] ch = LF  -> Done(x)

\* The word that starts at `from`, complete at the current character.
Word(x, from, ch) ==
    IF x.p - from = 1 /\ x.buf[from] \in Commands
    THEN After([x EXCEPT !.cmd = x.buf[from]], ch) ELSE Refuse(x)

\* sw_spaces_before_argument of POP3 and SMTP.
Spaces(x, ch) ==
    CASE ch = " " -> Go(x, "spaces")
      [] ch = CR  -> Go([x EXCEPT !.argEnd = x.p], "almost")
      [] ch = LF  -> Done([x EXCEPT !.argEnd = x.p])
      [] OTHER    -> IF Len(x.args) <= MaxArgs
                     THEN Go([x EXCEPT !.argStart = x.p], "argument") ELSE Refuse(x)

AlmostDone(x, ch) == IF ch = LF THEN Done(x) ELSE Refuse(x)

ngx_mail_pop3_parse_command(x, ch) ==
    CASE x.state = "start" ->
           IF ch \in {" ", CR, LF} THEN Word(x, 1, ch)
           ELSE IF ch \in Letters THEN Go(x, "start") ELSE ParseInvalid(x)
      [] x.state = "spaces" -> Spaces(x, ch)
      [] x.state = "argument" ->
           IF ch \in {CR, LF} \/ (ch = " " /\ x.cmd # "U") THEN After(Push(x), ch)
           ELSE Go(x, "argument")
      [] x.state = "almost" -> AlmostDone(x, ch)

ngx_mail_smtp_parse_command(x, ch) ==
    CASE x.state \in {"start", "command"} ->
           LET y == IF x.state = "start" THEN [x EXCEPT !.cmdStart = x.p] ELSE x
           IN IF ch \in {" ", CR, LF} THEN Word(y, y.cmdStart, ch)
              ELSE IF ch \in Letters THEN Go(y, "command") ELSE InvalidSkips(y)
      [] x.state = "invalid" -> InvalidSkips(x)
      [] x.state = "spaces" -> Spaces(x, ch)
      [] x.state = "argument" ->
           IF ch \in {" ", CR, LF} THEN After(Push(x), ch) ELSE Go(x, "argument")
      [] x.state = "almost" -> AlmostDone(x, ch)

Digit(ch) == CASE ch = "1" -> 1 [] ch = "2" -> 2

ngx_mail_imap_parse_command(x, ch) ==
    CASE x.state = "start" ->
           IF ch = " " THEN Go([x EXCEPT !.tag = x.p], "before")
           ELSE IF ch \in {CR, LF} THEN [x EXCEPT !.rc = "INVALID"] ELSE Go(x, "start")
      [] x.state = "before" ->
           IF ch = " " THEN Go(x, "before")
           ELSE IF ch \in {CR, LF} THEN [x EXCEPT !.rc = "INVALID", !.state = "start"]
           ELSE Go([x EXCEPT !.cmdStart = x.p], "command")
      [] x.state = "command" ->
           IF ch \in {" ", CR, LF} THEN Word(x, x.cmdStart, ch)
           ELSE IF ch \in Letters THEN Go(x, "command") ELSE ImapInvalid(x)
      [] x.state = "spaces" ->
           IF ch \in {"q", "{"} /\ Len(x.args) > MaxArgs THEN ImapInvalid(x)
           ELSE IF ch = "q" THEN Go([x EXCEPT !.quoted = TRUE, !.argStart = x.p + 1], "argument")
           ELSE IF ch = "{" THEN Go(x, "literal") ELSE Spaces(x, ch)
      [] x.state = "argument" ->
           IF ch = "q" /\ x.quoted THEN After(Push([x EXCEPT !.quoted = FALSE]), ch)
           ELSE IF ch \in {CR, LF} \/ (ch = " " /\ ~x.quoted) THEN After(Push(x), ch)
           ELSE IF ch = "b" /\ x.quoted THEN Go([x EXCEPT !.backslash = TRUE], "backslash")
           ELSE Go(x, "argument")
      [] x.state = "backslash" -> IF ch \in {CR, LF} THEN ImapInvalid(x) ELSE Go(x, "argument")
      [] x.state = "literal" ->
           IF ch \in {"1", "2"} THEN Go([x EXCEPT !.literal = 10 * @ + Digit(ch)], "literal")
           ELSE IF ch = "}" THEN Go(x, "startliteral")
           ELSE IF ch = "+" THEN Go(x, "nosync") ELSE ImapInvalid(x)
      [] x.state = "nosync" ->
           IF ch = "}" THEN Go([x EXCEPT !.nosync = TRUE], "startliteral") ELSE ImapInvalid(x)
      [] x.state = "startliteral" ->
           IF ch = CR THEN Go(x, "startliteral")
           ELSE IF ch # LF THEN ImapInvalid(x)
           ELSE LET y == [Go(x, "inliteral") EXCEPT !.pos = x.p + 1, !.argStart = x.p + 1]
                IN IF x.nosync THEN [y EXCEPT !.nosync = FALSE] ELSE [y EXCEPT !.rc = "NEXT"]
      [] x.state = "inliteral" ->
           IF x.literal > 1 THEN Go([x EXCEPT !.literal = @ - 1], "inliteral")
           ELSE LET y == [x EXCEPT !.literal = 0]
                IN Go([Push([y EXCEPT !.p = @ + 1]) EXCEPT !.p = x.p], "endliteral")
      [] x.state = "endliteral" ->
           IF ch = "{" THEN IF Len(x.args) <= MaxArgs THEN Go(x, "literal") ELSE ImapInvalid(x)
           ELSE IF ch \in {CR, LF} THEN After(x, ch) ELSE Go(x, "spaces")
      [] x.state = "almost" -> AlmostDone(x, ch)

Step(x) ==
    CASE ParseProto = "pop3" -> ngx_mail_pop3_parse_command(x, x.buf[x.p])
      [] ParseProto = "smtp" -> ngx_mail_smtp_parse_command(x, x.buf[x.p])
      [] ParseProto = "imap" -> ngx_mail_imap_parse_command(x, x.buf[x.p])

RECURSIVE Scan(_)

Scan(x) == IF x.rc # "" THEN x
           ELSE IF x.p > Len(x.buf) THEN [x EXCEPT !.pos = x.p, !.rc = "AGAIN"]
           ELSE Scan(Step(x))

\* ngx_mail_read_command() with n more characters.
ngx_mail_read_command(x, n) ==
    LET y == Scan([x EXCEPT !.buf = @ \o SubSeq(input, fed + 1, fed + n), !.p = x.pos, !.rc = ""])
    IN IF y.rc = "AGAIN" /\ Len(y.buf) = Size THEN [y EXCEPT !.rc = "TOOLONG"] ELSE y

\* IMAP takes the backslashes out.
RECURSIVE Unescaped(_)

Unescaped(t) ==
    IF t = <<>> THEN <<>>
    ELSE IF Head(t) = "b" /\ Len(t) > 1 THEN <<t[2]>> \o Unescaped(SubSeq(t, 3, Len(t)))
    ELSE <<Head(t)>> \o Unescaped(Tail(t))

Texts(x) ==
    [k \in DOMAIN x.args |->
        LET t == SubSeq(x.buf, x.args[k][1], x.args[k][1] + x.args[k][2] - 1)
        IN IF x.backslash THEN Unescaped(t) ELSE t]

\* The protocol handler's view: a line of a login in progress has no command.
Result(x) ==
    IF x.rc = "OK" THEN [rc |-> "OK", cmd |-> IF x.more THEN "" ELSE x.cmd, args |-> Texts(x)]
    ELSE [rc |-> x.rc, cmd |-> "", args |-> <<>>]

\* What the handlers do next: AUTH with one argument waits for a line that is one
\* argument, everything else starts afresh.
Continues(x) == x.rc = "OK" /\ ~x.more /\ x.cmd = "A" /\ Len(x.args) = 1

\* The end of the protocols' auth_state handlers.
Reset(x) ==
    LET more == Continues(x)
        whole == ParseProto # "smtp" \/ x.pos > Len(x.buf)
        keep == IF more /\ ParseProto = "imap" THEN SubSeq(x.buf, 1, x.tag) ELSE <<>>
        y == [x EXCEPT !.args = <<>>, !.more = more, !.backslash = FALSE,
                       !.state = IF more THEN @ ELSE "start",
                       !.buf = IF whole THEN keep ELSE @,
                       !.pos = IF whole THEN Len(keep) + 1 ELSE @,
                       !.tag = IF more THEN @ ELSE 0]
    IN IF more THEN [y EXCEPT !.argStart = y.pos] ELSE y

-----------------------------------------------------------------------------

(* What the lines say. *)

Trimmed(t) == LET a == SubSeq(t, 1, Len(t) - 1)
              IN IF a # <<>> /\ Last(a) = CR THEN SubSeq(a, 1, Len(a) - 1) ELSE a

RECURSIVE Words(_)

Words(t) ==
    IF t = <<>> THEN <<>>
    ELSE IF Head(t) = " " THEN Words(Tail(t))
    ELSE LET sp == {k \in DOMAIN t : t[k] = " "}
             k  == IF sp = {} THEN Len(t) + 1 ELSE CHOOSE j \in sp : \A i \in sp : j <= i
         IN <<SubSeq(t, 1, k - 1)>> \o Words(SubSeq(t, k + 1, Len(t)))

Rejected == [rc |-> "INVALID", cmd |-> "", args |-> <<>>]

Accepted(c, as) == [rc |-> "OK", cmd |-> c, args |-> as]

\* The arguments of the IMAP lines above, as the protocol defines them.
ImapArgs ==
    [tnoop |-> <<>>, tspaces |-> <<>>, tlogin |-> <<<<"x">>, <<"1">>>>,
     tquoted |-> <<<<"x", " ">>, <<"1">>>>, tescaped |-> <<<<"q", "x">>, <<"x">>>>,
     tempty |-> <<<<>>, <<"x">>>>, tliteral |-> <<<<"x", " ">>, <<"1">>>>,
     tnosync |-> <<<<CR, LF>>, <<"x">>>>, tauth |-> <<<<"x">>>>]

Said(l, more) ==
    LET t == Trimmed(Line[l])
        w == Words(t)
    IN IF more THEN Accepted("", w)
       ELSE IF ParseProto = "imap"
            THEN IF l \in DOMAIN ImapArgs
                 THEN Accepted(CASE l \in {"tnoop", "tspaces"} -> "N" [] l = "tauth" -> "A"
                                 [] OTHER -> "U", ImapArgs[l])
                 ELSE Rejected
       ELSE IF l \in {"word", "digit", "crx"} THEN Rejected
       ELSE IF ParseProto = "pop3" /\ w[1] = <<"U">> THEN Accepted("U", <<SubSeq(t, 3, Len(t))>>)
       ELSE IF Len(w) - 1 > MaxArgs + 1 THEN Rejected
       ELSE Accepted(w[1][1], Tail(w))

RECURSIVE AllSaid(_, _)

AllSaid(ls, more) ==
    IF ls = <<>> THEN <<>>
    ELSE LET r == Said(Head(ls), more)
         IN <<r>> \o AllSaid(Tail(ls), ~more /\ r.rc = "OK" /\ r.cmd = "A" /\ Len(r.args) = 1)

-----------------------------------------------------------------------------

\* The names of the lines of the current input are kept with it.
ParseInit ==
         /\ \E ls \in BoundedSeq(Lines, MaxLines) :
              /\ ls # <<>>
              \* the line that continues AUTH is data, and data is nothing else
              /\ \A k \in DOMAIN ls : (ls[k] = "data") <=> (k > 1 /\ ls[k-1] \in {"auth", "tauth"})
              /\ input = FlattenSeq([k \in DOMAIN ls |-> Line[ls[k]]])
              /\ out = [got |-> <<>>, said |-> AllSaid(ls, FALSE), over |-> FALSE,
                        lens |-> [k \in DOMAIN ls |-> Len(Line[ls[k]])]]
         /\ fed = 0
         /\ m = [buf |-> <<>>, pos |-> 1, p |-> 1, state |-> "start", argStart |-> 0, argEnd |-> 0,
                 args |-> <<>>, cmd |-> "", cmdStart |-> 0, tag |-> 0, quoted |-> FALSE,
                 backslash |-> FALSE, literal |-> 0, nosync |-> FALSE, more |-> FALSE, rc |-> ""]

\* The client of POP3 and IMAP waits for the reply to a line before the next one, and
\* at a synchronizing literal; the client of SMTP does not wait.
Waits == {FoldLeft(LAMBDA a, b : a + b, 0, SubSeq(out.lens, 1, k)) : k \in DOMAIN out.lens}
         \cup {k \in DOMAIN input :
                 /\ input[k] = LF /\ k > 3
                 /\ LET e == IF input[k-1] = CR THEN k - 2 ELSE k - 1
                    IN input[e] = "}" /\ input[e-1] # "+"}

MayRead(n) ==
    /\ n <= Len(input) - fed /\ n <= Size - Len(m.buf)
    /\ ParseProto = "smtp" \/ \A e \in Waits : fed >= e \/ fed + n <= e

\* One call of a read handler.  What is left in the buffer is parsed without reading.
Read(n) ==
    /\ ~out.over
    /\ n > 0 \/ m.pos <= Len(m.buf)
    /\ MayRead(n)
    /\ fed' = fed + n
    /\ LET y == ngx_mail_read_command(m, n)
       IN /\ m' = IF y.rc \in {"AGAIN", "NEXT"} THEN [y EXCEPT !.rc = "", !.p = 1]
                 ELSE [Reset(y) EXCEPT !.rc = "", !.p = 1]
          /\ out' = [out EXCEPT !.got = IF y.rc \in {"AGAIN", "NEXT"} THEN @ ELSE Append(@, Result(y)),
                                !.over = y.rc = "TOOLONG" \/ (UntilInvalid /\ y.rc = "INVALID")]
    /\ UNCHANGED input

ParseNext == \E n \in 0..Size : Read(n)

ParseSpec == ParseInit /\ [][ParseNext]_parseVars

-----------------------------------------------------------------------------

\* However the bytes of the lines are cut, the commands and arguments the parser hands
\* over are those of the lines, in order; with UntilInvalid, up to the first line that
\* is not a command.
AsWritten ==
    /\ Len(out.got) <= Len(out.said)
    /\ \A k \in DOMAIN out.got : out.got[k].rc # "TOOLONG" => out.got[k] = out.said[k]

\* A parser that has seen the whole input has handed over every line of it.
AllHandedOver ==
    fed = Len(input) /\ m.pos > Len(m.buf) /\ ~out.over => Len(out.got) = Len(out.said)

\* "client sent too long command": the line does not fit in the command buffer.
TooLongTrue ==
    \A k \in DOMAIN out.got : out.got[k].rc = "TOOLONG" => out.lens[k] > Size

-----------------------------------------------------------------------------

(***************************************************************************)
(* One session of the mail proxy (src/mail): the greeting, the commands of *)
(* the unauthenticated state of POP3, IMAP or SMTP, STARTTLS, the request  *)
(* to the HTTP authentication server with its delays and retries, the      *)
(* dialog that logs in to the backend, and the relay that follows.         *)
(*                                                                         *)
(* A command line is one token of `sent`, known by its index; the bytes of *)
(* a line are the business of the parser. Read events are edges: an event  *)
(* that a handler does not use is gone, which is what epoll gives.  A      *)
(* direct call of a handler by another one is the next step (`call`).      *)
(***************************************************************************)

CONSTANTS SessionProto,       \* "pop3", "imap" or "smtp"
          Cmds,        \* the lines the client may send
          Starttls,    \* the values of the starttls directive
          Methods,     \* the sets of enabled authentication methods
          Answers,     \* what the authentication server may answer
          Delays,      \* whether smtp_greeting_delay is set
          Resolvers,   \* whether a resolver is set
          Verifies,    \* whether a client certificate is required
          Xclients,    \* the values of xclient
          PassErrors,  \* the values of proxy_pass_error_message
          Flushes,     \* whether a send completes at once
          Pipelining,  \* the client sends before it has every reply
          PastLogin,   \* ... even past a line that completes a login
          MaxCmds,     \* how many lines the client sends
          MaxWaits     \* how often the authentication server asks to wait

VARIABLES s, conf, sent

sessionVars == <<s, conf, sent>>

None == [to |-> 0, code |-> ""]

Reply(i, c) == [to |-> i, code |-> c]

\* The lines that complete an authentication.
LoginCmds == {"AUTHP", "AUTHXI", "line", "RCPT", "PASS", "LOGIN", "APOP"}

Closed(x) == [x EXCEPT !.open = FALSE, !.rt = FALSE, !.wt = FALSE, !.call = "",
                       !.after = FALSE, !.redge = FALSE, !.out = None, !.kernel = <<>>,
                       !.buf = <<>>, !.ph = "closed", !.h = "", !.pbuf = <<>>,
                       !.up = <<>>, !.lines = <<>>]

-----------------------------------------------------------------------------

(* ngx_mail_handler.c: sending and receiving. *)

ngx_mail_send(x, full) ==
    IF x.out = None THEN x
    ELSE IF ~full THEN [x EXCEPT !.wt = TRUE, !.wact = TRUE]
    ELSE LET y == [x EXCEPT !.replies = Append(@, x.out), !.out = None, !.wt = FALSE]
         IN IF x.quit THEN Closed(y)
            ELSE IF x.blocked THEN [y EXCEPT !.call = "read"] ELSE y

ngx_mail_session_internal_server_error(x, full) ==
    ngx_mail_send([x EXCEPT !.out = Reply(x.cur, "error"), !.quit = TRUE], full)

\* The lines recv() finds, all of them.
Received(x) == [x EXCEPT !.buf = @ \o x.kernel, !.kernel = <<>>]

ngx_mail_starttls_only(x) == ~x.tls /\ conf.starttls = "only"

ngx_mail_auth(x) ==
    [x EXCEPT !.off = x.buf # <<>>, !.rt = FALSE, !.call = "auth"]

-----------------------------------------------------------------------------

(* The commands of the three protocols; each answers with rc and out. *)

With(x, rc, c) == [x EXCEPT !.rc = rc, !.out = Reply(x.cur, c)]

SessionInvalid(x) == With(x, "INVALID", "invalid")

Asks(x, state, c) == [With(x, "OK", c) EXCEPT !.ms = state]

\* A mutant: a second user name does not replace the first.
UsernameKept(x, tok) ==
    IF tok \in {"line", "AUTHLU"}
    THEN [Asks(x, "password", "password") EXCEPT !.login = IF @ = 0 THEN x.cur ELSE @]
    ELSE SessionInvalid(x)

ngx_mail_auth_login_username(x, tok) ==
    IF tok \in {"line", "AUTHLU"}
    THEN [Asks(x, "password", "password") EXCEPT !.login = x.cur] ELSE SessionInvalid(x)

ngx_mail_auth_plain(x, tok) ==
    IF tok \in {"line", "AUTHP"}
    THEN [With(x, "DONE", "") EXCEPT !.login = x.cur, !.pass = x.cur] ELSE SessionInvalid(x)

ngx_mail_auth_login_password(x, tok) ==
    IF tok = "line" THEN [With(x, "DONE", "") EXCEPT !.pass = x.cur] ELSE SessionInvalid(x)

ngx_mail_auth_cram_md5(x, tok) ==
    IF tok = "line"
    THEN [With(x, "DONE", "") EXCEPT !.login = x.cur, !.pass = x.cur, !.meth = "cram"]
    ELSE SessionInvalid(x)

ngx_mail_auth_external(x, tok) ==
    IF tok \in {"line", "AUTHXI"}
    THEN [With(x, "DONE", "") EXCEPT !.login = x.cur, !.meth = "external"] ELSE SessionInvalid(x)

ngx_mail_auth_cram_md5_salt(x) == [Asks(x, "cram", "challenge") EXCEPT !.salt = TRUE]

\* ngx_mail_auth_parse() and the method switch of the three callers.
ngx_mail_auth_parse(x, tok) ==
    CASE ngx_mail_starttls_only(x) -> SessionInvalid(x)
      [] ~ngx_mail_starttls_only(x) /\ tok = "AUTHL"  -> Asks(x, "username", "username")
      [] ~ngx_mail_starttls_only(x) /\ tok = "AUTHLU" -> ngx_mail_auth_login_username(x, tok)
      [] ~ngx_mail_starttls_only(x) /\ tok = "AUTHP0" -> Asks(x, "plain", "next")
      [] ~ngx_mail_starttls_only(x) /\ tok = "AUTHP"  -> ngx_mail_auth_plain(x, tok)
      [] ~ngx_mail_starttls_only(x) /\ tok = "AUTHC"  ->
            IF "cram" \in conf.methods THEN ngx_mail_auth_cram_md5_salt(x) ELSE SessionInvalid(x)
      [] ~ngx_mail_starttls_only(x) /\ tok = "AUTHX"  ->
            IF "external" \in conf.methods THEN Asks(x, "external", "username") ELSE SessionInvalid(x)
      [] ~ngx_mail_starttls_only(x) /\ tok = "AUTHXI" -> ngx_mail_auth_external(x, tok)

AuthCmds == {"AUTHL", "AUTHLU", "AUTHP0", "AUTHP", "AUTHC", "AUTHX", "AUTHXI"}

\* The lines that follow an AUTH command.
Continuation(x, tok) ==
    CASE x.ms = "username" -> ngx_mail_auth_login_username(x, tok)
      [] x.ms = "password" -> ngx_mail_auth_login_password(x, tok)
      [] x.ms = "plain"    -> ngx_mail_auth_plain(x, tok)
      [] x.ms = "cram"     -> ngx_mail_auth_cram_md5(x, tok)
      [] x.ms = "external" -> ngx_mail_auth_external(x, tok)

\* STLS and STARTTLS of POP3 and IMAP.
ngx_mail_pop3_stls(x) ==
    IF ~x.tls /\ conf.starttls # "off"
    THEN [With(x, "OK", "starttls") EXCEPT !.h = "starttls"] ELSE SessionInvalid(x)

ngx_mail_imap_starttls(x) ==
    IF ~x.tls /\ conf.starttls # "off"
    THEN [With(x, "OK", "starttls") EXCEPT !.h = "starttls"] ELSE SessionInvalid(x)

ngx_mail_smtp_starttls(x) ==
    IF ~x.tls /\ conf.starttls # "off"
    THEN [With(x, "OK", "starttls") EXCEPT !.h = "starttls", !.helo = 0, !.from = 0, !.rcpt = 0,
                                           !.dropped = @ \cup ToSet(x.buf), !.buf = <<>>]
    ELSE SessionInvalid(x)

ngx_mail_pop3_user(x) ==
    IF ngx_mail_starttls_only(x) THEN SessionInvalid(x)
    ELSE [Asks(x, "user", "ok") EXCEPT !.login = x.cur]

ngx_mail_pop3_pass(x) == [With(x, "DONE", "") EXCEPT !.pass = x.cur]

ngx_mail_pop3_apop(x) ==
    IF ngx_mail_starttls_only(x) \/ "apop" \notin conf.methods THEN SessionInvalid(x)
    ELSE [With(x, "DONE", "") EXCEPT !.login = x.cur, !.pass = x.cur, !.meth = "apop"]

ngx_mail_imap_login(x) ==
    IF ngx_mail_starttls_only(x) THEN SessionInvalid(x)
    ELSE [With(x, "DONE", "") EXCEPT !.login = x.cur, !.pass = x.cur]

\* What CAPA, CAPABILITY and EHLO announce: STARTTLS, and only it under "only".
Capability(x, stls) ==
    With(x, "OK", IF stls /\ ~x.tls /\ conf.starttls = "on" THEN "starttls_capability"
                  ELSE IF stls /\ ~x.tls /\ conf.starttls = "only" THEN "starttls_only_capability"
                  ELSE "capability")

ngx_mail_smtp_helo(x, tok) ==
    [IF tok = "EHLO" THEN [Capability(x, TRUE) EXCEPT !.esmtp = TRUE] ELSE With(x, "OK", "name")
        EXCEPT !.helo = x.cur, !.from = 0, !.rcpt = 0]

ngx_mail_smtp_mail(x) ==
    CASE "none" \notin conf.methods -> With(x, "OK", "auth_required")
      [] "none" \in conf.methods /\ x.from # 0 -> With(x, "OK", "bad_sequence")
      [] OTHER -> [With(x, "OK", "ok") EXCEPT !.from = x.cur]

ngx_mail_smtp_rcpt(x) ==
    IF x.from = 0 THEN With(x, "OK", "bad_sequence")
    ELSE [With(x, "DONE", "") EXCEPT !.rcpt = x.cur, !.meth = "none"]

Quits(x, c) == [With(x, "OK", c) EXCEPT !.quit = TRUE]

Pop3Command(x, tok) ==
    CASE x.ms \notin {"start", "user"} -> Continuation(x, tok)
      [] x.off                         -> SessionInvalid(x)
      [] ~x.off /\ tok = "CAPA"        -> Capability(x, x.ms = "start")
      [] ~x.off /\ tok = "QUIT"        -> Quits(x, "ok")
      [] ~x.off /\ tok = "NOOP"        -> With(x, "OK", "ok")
      [] ~x.off /\ x.ms = "user" /\ tok = "PASS"  -> ngx_mail_pop3_pass(x)
      [] ~x.off /\ x.ms = "start" /\ tok = "USER" -> ngx_mail_pop3_user(x)
      [] ~x.off /\ x.ms = "start" /\ tok = "APOP" -> ngx_mail_pop3_apop(x)
      [] ~x.off /\ x.ms = "start" /\ tok \in AuthCmds -> ngx_mail_auth_parse(x, tok)
      [] ~x.off /\ x.ms = "start" /\ tok = "STARTTLS" -> ngx_mail_pop3_stls(x)
      [] OTHER -> SessionInvalid(x)

ImapCommand(x, tok) ==
    CASE x.ms # "start"         -> Continuation(x, tok)
      [] x.ms = "start" /\ tok = "LOGIN"      -> ngx_mail_imap_login(x)
      [] x.ms = "start" /\ tok \in AuthCmds   -> ngx_mail_auth_parse(x, tok)
      [] x.ms = "start" /\ tok = "CAPA"       -> Capability(x, TRUE)
      [] x.ms = "start" /\ tok = "QUIT"       -> Quits(x, "bye")
      [] x.ms = "start" /\ tok = "NOOP"       -> With(x, "OK", "ok")
      [] x.ms = "start" /\ tok = "STARTTLS"   -> ngx_mail_imap_starttls(x)
      [] OTHER -> SessionInvalid(x)

SmtpCommand(x, tok) ==
    CASE x.ms # "start" -> Continuation(x, tok)
      [] x.ms = "start" /\ tok \in {"HELO", "EHLO"} -> ngx_mail_smtp_helo(x, tok)
      [] x.ms = "start" /\ tok \in AuthCmds -> ngx_mail_auth_parse(x, tok)
      [] x.ms = "start" /\ tok = "QUIT"     -> Quits(x, "bye")
      [] x.ms = "start" /\ tok = "MAIL"     -> ngx_mail_smtp_mail(x)
      [] x.ms = "start" /\ tok = "RCPT"     -> ngx_mail_smtp_rcpt(x)
      [] x.ms = "start" /\ tok = "RSET"     -> [With(x, "OK", "ok") EXCEPT !.from = 0, !.rcpt = 0]
      [] x.ms = "start" /\ tok = "NOOP"     -> With(x, "OK", "ok")
      [] x.ms = "start" /\ tok = "STARTTLS" -> ngx_mail_smtp_starttls(x)
      [] OTHER -> SessionInvalid(x)

\* A login attempt begins with a command, not with the lines that continue one.
Begins(x) == IF x.ms = "start" THEN [x EXCEPT !.att = x.cur] ELSE x

Ran(x, tok) ==
    CASE SessionProto = "pop3" -> Pop3Command(Begins(x), tok)
      [] SessionProto = "imap" -> ImapCommand(Begins(x), tok)
      [] SessionProto = "smtp" -> SmtpCommand(Begins(x), tok)

\* The end of the three auth_state handlers.
Finished(x, full) ==
    LET y == [x EXCEPT !.ms = IF x.rc = "INVALID" THEN "start" ELSE @, !.rc = ""]
    IN IF x.rc = "DONE" THEN ngx_mail_auth([y EXCEPT !.out = None])
       ELSE ngx_mail_send(
              IF SessionProto = "smtp" THEN y
              ELSE [y EXCEPT !.dropped = @ \cup ToSet(x.buf), !.buf = <<>>, !.off = FALSE], full)

Executed(x, full) ==
    LET i == Head(x.buf)
        r == Ran([x EXCEPT !.cur = i, !.buf = Tail(@), !.secure = @ /\ (x.tls => sent[i].tls),
                           !.fresh = FALSE], sent[i].cmd)
    IN Finished([r EXCEPT !.blocked = SessionProto = "smtp" /\ r.buf # <<>>], full)

auth_state(x, full) ==
    IF x.rto THEN Closed(x)
    ELSE IF x.out # None THEN [x EXCEPT !.blocked = TRUE]
    ELSE IF x.eof /\ x.kernel = <<>> THEN Closed(x)
    ELSE LET y == Received([x EXCEPT !.blocked = FALSE])
         IN IF y.buf = <<>> THEN y ELSE Executed(y, full)

init_protocol(x, full) ==
    IF x.rto THEN Closed(x)
    ELSE auth_state([x EXCEPT !.ms = "start", !.h = "auth_state"], full)

-----------------------------------------------------------------------------

(* The start of a session. *)

Waiting(x) == [x EXCEPT !.rt = TRUE, !.redge = x.kernel # <<>> \/ x.eof]

ngx_mail_smtp_greeting(x, full) ==
    IF conf.delay THEN [Waiting(x) EXCEPT !.h = "pipelining", !.ph = "client"]
    ELSE ngx_mail_send([Waiting(x) EXCEPT !.h = "init_protocol", !.ph = "client",
                                          !.out = Reply(0, "greeting")], full)

\* POP3 and IMAP greet at once; APOP and CRAM-MD5 of POP3 need the salt of the greeting.
ngx_mail_pop3_init_session(x, full) ==
    ngx_mail_send([Waiting(x) EXCEPT !.h = "init_protocol", !.ph = "client",
                     !.salt = conf.methods \cap {"apop", "cram"} # {},
                     !.out = Reply(0, "greeting")], full)

ngx_mail_imap_init_session(x, full) ==
    ngx_mail_send([Waiting(x) EXCEPT !.h = "init_protocol", !.ph = "client",
                     !.out = Reply(0, "greeting")], full)

InitSession(full) ==
    /\ s.ph = "start"
    /\ s' = CASE SessionProto = "pop3" -> ngx_mail_pop3_init_session(s, full)
              [] SessionProto = "imap" -> ngx_mail_imap_init_session(s, full)
              [] SessionProto = "smtp" /\ conf.resolver -> [s EXCEPT !.ph = "addr"]
              [] SessionProto = "smtp" /\ ~conf.resolver -> ngx_mail_smtp_greeting(s, full)
    /\ UNCHANGED <<conf, sent>>

\* The name of the client's address, then the addresses of that name.
ngx_mail_smtp_resolve_addr_handler(found, full) ==
    /\ s.ph = "addr"
    /\ s' = IF found THEN [s EXCEPT !.ph = "name", !.host = TRUE]
            ELSE ngx_mail_smtp_greeting(s, full)
    /\ UNCHANGED <<conf, sent>>

ngx_mail_smtp_resolve_name_handler(found, full) ==
    /\ s.ph = "name"
    /\ s' = ngx_mail_smtp_greeting([s EXCEPT !.host = found], full)
    /\ UNCHANGED <<conf, sent>>

\* Input before the delayed greeting is an error; the end of the delay sends it.
ngx_mail_smtp_invalid_pipelining(x, full) ==
    IF x.rto
    THEN ngx_mail_send([x EXCEPT !.rto = FALSE, !.h = "init_protocol", !.rt = TRUE,
                                 !.out = Reply(0, "greeting")], full)
    ELSE IF x.kernel = <<>> THEN IF x.eof THEN Closed(x) ELSE x
    ELSE ngx_mail_send([x EXCEPT !.kernel = <<>>, !.quit = TRUE,
                                 !.out = Reply(0, "pipelining")], full)

\* The client hello completes the handshake, anything else fails it.  A required and
\* missing certificate ends the session.
ngx_mail_ssl_handshake_handler(x, full) ==
    IF sent[Head(x.kernel)].cmd \notin {"HELLO", "HELLONC"} THEN Closed(x)
    ELSE LET y == [x EXCEPT !.kernel = Tail(@), !.tls = TRUE, !.fresh = TRUE]
         IN IF conf.verify /\ sent[Head(x.kernel)].cmd = "HELLONC"
            THEN ngx_mail_send([y EXCEPT !.out = Reply(Head(x.kernel), "no_cert"), !.quit = TRUE],
                               full)
            ELSE init_protocol([y EXCEPT !.h = "init_protocol"], full)

\* Whatever the event, the handshake begins, and waits with a timer of its own.
ngx_mail_starttls_handler(x, full) ==
    IF x.kernel # <<>> THEN ngx_mail_ssl_handshake_handler(x, full)
    ELSE IF x.eof THEN Closed(x) ELSE [x EXCEPT !.h = "handshake", !.rt = TRUE]

\* The handler of the TLS library while it waits.
Handshake(x, full) ==
    IF x.rto \/ (x.kernel = <<>> /\ x.eof) THEN Closed(x)
    ELSE IF x.kernel = <<>> THEN x ELSE ngx_mail_ssl_handshake_handler(x, full)

-----------------------------------------------------------------------------

(* ngx_mail_auth_http_module.c. *)

\* The request forgets the password when a salt goes with it.
ngx_mail_auth_http_create_request(x) ==
    [x EXCEPT !.asked = [meth |-> x.meth, login |-> x.login, pass |-> x.pass, tls |-> x.tls,
                         att |-> x.att, n |-> IF @.att = x.att THEN @.n + 1 ELSE 1],
              !.pass = IF x.meth # "plain" /\ x.salt THEN 0 ELSE @]

ngx_mail_auth_http_init(connected, full) ==
    /\ s.call = "auth"
    /\ LET y == ngx_mail_auth_http_create_request([s EXCEPT !.call = "", !.rc = ""])
       IN s' = IF connected THEN [y EXCEPT !.h = "block", !.ph = "auth", !.pw = TRUE]
               ELSE ngx_mail_session_internal_server_error(y, full)
    /\ UNCHANGED <<conf, sent>>

ngx_mail_auth_http_write_handler(ok, full) ==
    /\ s.ph = "auth" /\ s.call = "" /\ ~s.after /\ s.pw /\ s.open
    /\ s' = IF ok THEN [s EXCEPT !.pw = FALSE]
            ELSE ngx_mail_session_internal_server_error([s EXCEPT !.ph = "client"], full)
    /\ UNCHANGED <<conf, sent>>

Sleeps(x) == [x EXCEPT !.rt = TRUE, !.h = "sleep", !.ph = "sleep"]

\* The end of the response headers.
ngx_mail_auth_http_process_headers(x, a, full) ==
    LET y == [x EXCEPT !.ph = "client", !.last = a,
                       !.aw = @ \/ a \in {"wait0", "wait1"},
                       !.pass = IF a = "okpass" THEN x.att ELSE @]
    IN CASE a = "fail" ->
              ngx_mail_send([y EXCEPT !.out = Reply(x.cur, "denied"), !.quit = TRUE], full)
         [] a = "failsleep" -> Sleeps([y EXCEPT !.out = Reply(x.cur, "denied")])
         [] a = "wait1" -> Sleeps(y)
         [] a \notin {"fail", "failsleep", "wait1"} /\ y.aw -> [y EXCEPT !.call = "auth"]
         [] a \in {"noserver", "bad"} /\ ~y.aw -> ngx_mail_session_internal_server_error(y, full)
         [] a \in {"ok", "okpass"} /\ ~y.aw ->
              IF y.pass = 0 /\ SessionProto # "smtp"
              THEN ngx_mail_session_internal_server_error(y, full)
              ELSE [y EXCEPT !.call = "dial"]

ngx_mail_auth_http_read_handler(a, full) ==
    /\ s.ph = "auth" /\ s.call = "" /\ ~s.after /\ s.open
    /\ a \in {"wait0", "wait1"} => s.asked.n <= MaxWaits
    /\ s' = IF a = "bad" THEN ngx_mail_session_internal_server_error([s EXCEPT !.ph = "client"], full)
            ELSE ngx_mail_auth_http_process_headers(s, a, full)
    /\ UNCHANGED <<conf, sent>>

\* What follows the send of the sleep handler waits for what the send calls.
ngx_mail_auth_sleep_handler(x, full) ==
    IF ~x.rto THEN x
    ELSE IF x.aw THEN [x EXCEPT !.rto = FALSE, !.aw = FALSE, !.call = "auth"]
    ELSE LET y == ngx_mail_send([x EXCEPT !.rto = FALSE, !.h = "auth_state", !.ms = "start",
                                          !.meth = "plain", !.ph = "client"], full)
         IN IF y.open THEN [y EXCEPT !.after = TRUE] ELSE y

AfterSleep ==
    /\ s.after /\ s.call = ""
    /\ s' = [s EXCEPT !.after = FALSE, !.rt = TRUE,
                      !.call = IF s.kernel # <<>> \/ s.eof THEN "read" ELSE ""]
    /\ UNCHANGED <<conf, sent>>

-----------------------------------------------------------------------------

(* ngx_mail_proxy_module.c. *)

\* The lines of the login dialog, in the order of the handler's states.
Dialog(x) ==
    CASE SessionProto = "pop3" -> <<"USER", "PASS">>
      [] SessionProto = "imap" -> <<"LOGIN", "user", "password">>
      [] SessionProto = "smtp" ->
                  <<IF x.esmtp \/ conf.xclient THEN "EHLO" ELSE "HELO">>
                  \o (IF conf.xclient THEN <<"XCLIENT">> ELSE <<>>)
                  \o (IF conf.xclient /\ x.helo # 0 THEN <<IF x.esmtp THEN "EHLO" ELSE "HELO">> ELSE <<>>)
                  \o (IF x.meth = "none" THEN <<"MAIL", "RCPT">> ELSE <<>>)

ngx_mail_proxy_init(connected, full) ==
    /\ s.call = "dial"
    /\ s' = IF connected
            THEN [s EXCEPT !.call = "", !.h = "proxy_block", !.out = None, !.ms = "start",
                           !.ph = "dial", !.lines = Dialog(s)]
            ELSE ngx_mail_session_internal_server_error([s EXCEPT !.call = ""], full)
    /\ UNCHANGED <<conf, sent>>

\* The backend's answer to the last line, or its greeting.  The last answer goes to
\* the client (as 235 after an SMTP login); the answer to RCPT is not looked at.
LoggedIn(x) ==
    [x EXCEPT !.ph = "proxy", !.h = "proxy", !.rt = TRUE, !.lines = <<>>,
              !.pbuf = <<Reply(x.cur, "logged_in")>>,
              !.call = IF SessionProto = "smtp" /\ x.buf # <<>> THEN "pwrite" ELSE "cwrite"]

UpstreamAnswer(good, wrote, full) ==
    /\ s.ph = "dial" /\ s.call = "" /\ s.open
    /\ s' = IF ~good /\ ~(s.lines = <<>> /\ SessionProto = "smtp" /\ s.meth = "none")
            THEN IF conf.passerr
                 THEN ngx_mail_send([s EXCEPT !.out = Reply(s.cur, "backend_error"),
                                              !.quit = TRUE, !.ph = "client"], full)
                 ELSE ngx_mail_session_internal_server_error([s EXCEPT !.ph = "client"], full)
            ELSE IF s.lines = <<>> THEN LoggedIn(s)
            ELSE IF wrote THEN [s EXCEPT !.lines = Tail(@)]
            ELSE ngx_mail_session_internal_server_error([s EXCEPT !.ph = "client"], full)
    /\ UNCHANGED <<conf, sent>>

\* The end of ngx_mail_proxy_handler(): a side that is gone and drained.
Ended(x) == IF x.eof /\ x.kernel = <<>> /\ x.buf = <<>> THEN Closed(x) ELSE x

\* To the backend: what is buffered, then what the client has sent.
ToUpstream(x) ==
    Ended([x EXCEPT !.up = @ \o x.buf \o x.kernel, !.buf = <<>>, !.kernel = <<>>, !.rt = TRUE])

\* To the client.
ToClient(x, full) ==
    IF full THEN Ended([x EXCEPT !.replies = @ \o x.pbuf, !.pbuf = <<>>])
    ELSE Ended([x EXCEPT !.wact = TRUE])

\* The client's read event while proxying.
ngx_mail_proxy_handler(x) ==
    IF x.rto THEN Closed(x) ELSE ToUpstream(x)

ProxyCall(full) ==
    /\ s.call \in {"pwrite", "cwrite"}
    /\ s' = IF s.call = "pwrite" THEN ToUpstream([s EXCEPT !.call = ""])
            ELSE ToClient([s EXCEPT !.call = ""], full)
    /\ UNCHANGED <<conf, sent>>

\* The backend answers the oldest line it holds.
UpstreamReplies(full) ==
    /\ s.ph = "proxy" /\ s.call = "" /\ s.up # <<>>
    /\ s' = ToClient([s EXCEPT !.up = Tail(@), !.pbuf = Append(@, Reply(Head(s.up), "backend"))],
                     full)
    /\ UNCHANGED <<conf, sent>>

-----------------------------------------------------------------------------

(* Events. *)

ReadHandler(x, full) ==
    CASE x.h = "init_protocol" -> init_protocol(x, full)
      [] x.h = "auth_state"    -> auth_state(x, full)
      [] x.h = "pipelining"    -> ngx_mail_smtp_invalid_pipelining(x, full)
      [] x.h = "starttls"      -> ngx_mail_starttls_handler(x, full)
      [] x.h = "handshake"     -> Handshake(x, full)
      [] x.h = "sleep"         -> ngx_mail_auth_sleep_handler(x, full)
      [] x.h = "proxy"         -> ngx_mail_proxy_handler(x)
      [] x.h \in {"block", "proxy_block"} -> x

Idle == s.call = "" /\ ~s.after /\ s.open

Called(full) ==
    /\ s.call = "read"
    /\ s' = ReadHandler([s EXCEPT !.call = ""], full)
    /\ UNCHANGED <<conf, sent>>

\* A handler that sees `timedout` set by an older timer takes the event for it.
ReadEvent(full) ==
    /\ Idle /\ s.redge
    /\ s' = ReadHandler([s EXCEPT !.redge = FALSE,
                                  !.lied = @ \/ (s.rto /\ s.h \in {"auth_state", "proxy"})], full)
    /\ UNCHANGED <<conf, sent>>

\* A write event, whenever epoll watches for one.
WriteEvent(full) ==
    /\ Idle /\ s.wact
    /\ IF s.ph = "proxy" THEN s' = ToClient(s, full) ELSE s.out # None /\ s' = ngx_mail_send(s, full)
    /\ UNCHANGED <<conf, sent>>

ReadTimer(full) ==
    /\ Idle /\ s.rt
    /\ s' = ReadHandler([s EXCEPT !.rt = FALSE, !.rto = TRUE], full)
    /\ UNCHANGED <<conf, sent>>

WriteTimer ==
    /\ Idle /\ s.wt
    /\ s' = Closed(s)
    /\ UNCHANGED <<conf, sent>>

\* The timers of the connections to the authentication server and the backend.
PeerTimer(full) ==
    /\ Idle /\ s.ph \in {"auth", "dial"}
    /\ s' = ngx_mail_session_internal_server_error([s EXCEPT !.ph = "client"], full)
    /\ UNCHANGED <<conf, sent>>

-----------------------------------------------------------------------------

(* The client. *)

Replied == {s.replies[k].to : k \in DOMAIN s.replies}

Secured == \E k \in DOMAIN sent : sent[k].cmd \in {"HELLO", "HELLONC"}

Offered == \E k \in DOMAIN s.replies : s.replies[k].code = "starttls"

MaySend ==
    /\ s.open /\ ~s.eof /\ Len(sent) < MaxCmds
    /\ s.ph \in {"addr", "name"} \/ s.h = "pipelining" => Pipelining
    /\ Pipelining \/ (s.replies # <<>> /\ DOMAIN sent \subseteq Replied \cup
                         {k \in DOMAIN sent : sent[k].cmd \in {"HELLO", "HELLONC"}})
    /\ PastLogin \/ \A k \in DOMAIN sent \ Replied : sent[k].cmd \notin LoginCmds

ClientSends(c) ==
    /\ MaySend
    /\ (Offered /\ ~Secured) <=> (c \in {"HELLO", "HELLONC"})
    /\ sent' = Append(sent, [cmd |-> c, tls |-> Secured])
    /\ s' = [s EXCEPT !.kernel = Append(@, Len(sent) + 1), !.redge = s.ph \notin {"start", "addr", "name"}]
    /\ UNCHANGED conf

ClientCloses ==
    /\ s.open /\ ~s.eof /\ s.ph \notin {"start", "addr", "name"}
    /\ s' = [s EXCEPT !.eof = TRUE, !.redge = TRUE]
    /\ UNCHANGED <<conf, sent>>

-----------------------------------------------------------------------------

SessionInit ==
           /\ conf \in [starttls : Starttls, methods : Methods, delay : Delays, resolver : Resolvers,
                        verify : Verifies, xclient : Xclients, passerr : PassErrors]
           /\ sent = <<>>
           /\ s = [h |-> "", out |-> None, blocked |-> FALSE, quit |-> FALSE, buf |-> <<>>,
                   kernel |-> <<>>, off |-> FALSE, ms |-> "start", rc |-> "", cur |-> 0, tls |-> FALSE,
                   login |-> 0, pass |-> 0, helo |-> 0, from |-> 0, rcpt |-> 0, esmtp |-> FALSE,
                   meth |-> "plain", salt |-> FALSE, host |-> FALSE, aw |-> FALSE, rt |-> FALSE,
                   wt |-> FALSE, rto |-> FALSE, wact |-> FALSE, redge |-> FALSE, eof |-> FALSE,
                   call |-> "", after |-> FALSE, open |-> TRUE, ph |-> "start", pw |-> FALSE,
                   lines |-> <<>>, up |-> <<>>, pbuf |-> <<>>, replies |-> <<>>,
                   dropped |-> {}, secure |-> TRUE, fresh |-> FALSE, lied |-> FALSE, att |-> 0,
                   last |-> "",
                   asked |-> [meth |-> "", login |-> 0, pass |-> 0, tls |-> FALSE, att |-> 0, n |-> 0]]

SessionNext ==
           \/ \E c \in Cmds : ClientSends(c)
           \/ ClientCloses
           \/ WriteTimer
           \/ AfterSleep
           \/ \E full \in Flushes :
                \/ InitSession(full)
                \/ \E found \in BOOLEAN : ngx_mail_smtp_resolve_addr_handler(found, full)
                \/ \E found \in BOOLEAN : ngx_mail_smtp_resolve_name_handler(found, full)
                \/ \E connected \in BOOLEAN : ngx_mail_auth_http_init(connected, full)
                \/ \E ok \in BOOLEAN : ngx_mail_auth_http_write_handler(ok, full)
                \/ \E a \in Answers : ngx_mail_auth_http_read_handler(a, full)
                \/ \E connected \in BOOLEAN : ngx_mail_proxy_init(connected, full)
                \/ \E good, wrote \in BOOLEAN : UpstreamAnswer(good, wrote, full)
                \/ ProxyCall(full)
                \/ UpstreamReplies(full)
                \/ Called(full)
                \/ ReadEvent(full)
                \/ WriteEvent(full)
                \/ ReadTimer(full)
                \/ PeerTimer(full)

SessionSpec == SessionInit /\ [][SessionNext]_sessionVars

-----------------------------------------------------------------------------

(* Properties. *)

\* Replies reach the client in the order of the lines they answer and none twice,
\* whatever is pipelined, delayed by a refused login or left to the backend.
InOrder ==
    \A j, k \in DOMAIN s.replies : j < k => s.replies[j].to < s.replies[k].to

\* When nginx and the backend have nothing left to do for an open session, every line
\* the client sent has its reply: no pipelined line is left in the buffer or in the
\* socket without an event that would make nginx look at it.
Answered ==
    (/\ Idle /\ ~s.redge /\ s.out = None /\ s.up = <<>> /\ (s.pbuf = <<>> \/ ~s.wact)
     /\ s.h \in {"init_protocol", "auth_state", "proxy"})
        => \A k \in DOMAIN sent : k \in Replied \cup s.dropped \cup
                                      {i \in DOMAIN sent : sent[i].cmd \in {"HELLO", "HELLONC"}}

\* No line that arrived in the clear is executed after the TLS handshake: STARTTLS
\* discards what the client pipelined behind it.
TlsClean == s.secure

\* Under "starttls only" no password leaves for the authentication server before TLS.
StarttlsOnly ==
    s.asked.n > 0 /\ conf.starttls = "only" /\ s.asked.meth # "none" => s.asked.tls

\* The user name and the password of a request belong to the same login attempt,
\* after any mixture of refused, abandoned and malformed attempts.
OneAttempt ==
    s.asked.n = 1 /\ s.asked.meth \in {"plain", "cram", "apop"}
        => s.asked.login >= s.asked.att /\ s.asked.pass >= s.asked.login

\* The authentication server is asked only for methods the configuration enables.
MethodEnabled ==
    s.asked.meth \in {"cram", "external", "apop", "none"} => s.asked.meth \in conf.methods

\* A positive answer of the authentication server ends the authentication.
OkProceeds == s.call = "auth" => s.last \notin {"ok", "okpass"}

\* "client timed out" is logged only when the timer of the current wait has expired.
TimeoutTrue == ~s.lied

\* An open session that waits for anything has a timer that ends the wait.
TimerSet ==
    Idle /\ s.ph \in {"client", "sleep", "proxy"} /\ s.h # "" => s.rt \/ s.wt
=============================================================================
