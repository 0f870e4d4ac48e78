---------------------------- MODULE HttpExchange ----------------------------
(***************************************************************************)
(* What a client may rely on, whatever happens behind nginx: a request is  *)
(* answered by at most one response, whose status line is never replaced   *)
(* and whose body only grows; when the request is over its response is     *)
(* final, and only then does the connection serve another one.             *)
(***************************************************************************)
EXTENDS Naturals

CONSTANT Codes          \* the status codes that can be sent

VARIABLES reply,        \* the status sent, 0 before that
          body,         \* "none", "cut" (a part was sent) or "whole"
          open          \* the request is being served

vars == <<reply, body, open>>

Init == reply = 0 /\ body = "none" /\ open = TRUE

(* The status line and all or a part of the body.  The request may be over *)
(* at once, but not with a part of the body only.                          *)
Answer ==
    /\ open /\ reply = 0
    /\ reply' \in Codes
    /\ body' \in {"cut", "whole"}
    /\ open' \in BOOLEAN
    /\ body' = "cut" => open'

Flush ==
    /\ open /\ body = "cut"
    /\ body' = "whole"
    /\ open' \in BOOLEAN
    /\ UNCHANGED reply

Finish ==
    /\ open = TRUE /\ open' = FALSE
    /\ UNCHANGED <<reply, body>>

Again ==
    /\ open = FALSE /\ open' = TRUE
    /\ reply' = 0 /\ body' = "none"

Next == Answer \/ Flush \/ Finish \/ Again

Spec == Init /\ [][Next]_vars
=============================================================================
