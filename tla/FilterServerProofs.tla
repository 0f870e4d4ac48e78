------------------------- MODULE FilterServerProofs -------------------------
(***************************************************************************)
(* The answers of the filter on a channel, for any number of requests: a   *)
(* client that matches answers with requests by their order is right until *)
(* a handler is left by an exception, and is then off by the number of     *)
(* exceptions; while the channel stays open no request is forgotten.       *)
(***************************************************************************)
EXTENDS FilterServer, FiniteSetTheorems, TLAPS

Answers == [id : Nat, status : Nat,
            content : {"error", "null", "seek", "review", "none"}, last : BOOLEAN]

(* The requests taken out of the inbox, and those whose handler is over.   *)
Taken == sent - Len(inbox)

Over == IF call = NoCall THEN Taken ELSE Taken - 1

Written == got \o out

TypeOK ==
    /\ channel \in {"open", "closing", "closed"}
    /\ sent \in Nat
    /\ inbox \in Seq([id : Nat, req : Requests])
    /\ call \in {NoCall} \cup [id : Nat \ {0}, req : Requests, file : Files]
    /\ out \in Seq(Answers) /\ got \in Seq(Answers)
    /\ failed \in SUBSET Nat /\ IsFiniteSet(failed)

(* Requests are numbered as they come and taken in that order.             *)
Numbered ==
    /\ Len(inbox) <= sent
    /\ \A i \in 1 .. Len(inbox) : inbox[i].id = Taken + i
    /\ call # NoCall => call.id = Taken

Before(F, k) == Cardinality({f \in F : f < k})

(* The answers W to the first n requests, of which those of F failed.      *)
Placed(W, F, n) ==
    \A i \in 1 .. Len(W) :
        /\ W[i].id \in 1 .. n /\ W[i].id \notin F
        /\ W[i].id = i + Before(F, W[i].id)

Complete(W, F, n) == \A k \in 1 .. n : k \in F \/ \E i \in 1 .. Len(W) : W[i].id = k

(* Each request that is over has failed or has an answer at its place,     *)
(* and until the channel is closed none is missing.                        *)
Accounted ==
    /\ failed \subseteq 1 .. Over
    /\ Placed(Written, failed, Over)
    /\ channel # "closed" => Len(Written) + Cardinality(failed) = Over
    /\ channel = "open" =>
          Complete(Written, failed, Over) /\ \A i \in 1 .. Len(out) : ~out[i].last

Inv == TypeOK /\ Numbered /\ Accounted

-----------------------------------------------------------------------------
LEMMA BeforeAll ==
    ASSUME NEW n \in Nat, NEW F, F \subseteq 1 .. n
    PROVE  Before(F, n + 1) = Cardinality(F)
  <1>1. \A f \in F : f < n + 1
    OBVIOUS
  <1>2. {f \in F : f < n + 1} = F
    BY <1>1, Zenon
  <1> QED
    BY <1>2 DEF Before

LEMMA BeforeLater ==
    ASSUME NEW n \in Nat, NEW F, F \subseteq 1 .. n, NEW k \in 1 .. n
    PROVE  Before(F \cup {n + 1}, k) = Before(F, k)
  <1>1. ~(n + 1 < k)
    OBVIOUS
  <1>2. {f \in F \cup {n + 1} : f < k} = {f \in F : f < k}
    BY <1>1, Zenon
  <1> QED
    BY <1>2 DEF Before

(* One more answer, to the request after the last one that is over.        *)
LEMMA Appends ==
    ASSUME NEW W \in Seq(Answers), NEW F, IsFiniteSet(F), NEW n \in Nat,
           F \subseteq 1 .. n, Placed(W, F, n),
           NEW a \in Answers, a.id = n + 1
    PROVE  /\ Len(W) + Cardinality(F) = n => Placed(Append(W, a), F, n + 1)
           /\ Complete(W, F, n) => Complete(Append(W, a), F, n + 1)
  <1> DEFINE V == Append(W, a)
  <1>1. /\ Len(V) = Len(W) + 1 /\ V[Len(W) + 1] = a /\ Len(W) \in Nat
        /\ \A i \in 1 .. Len(W) : V[i] = W[i]
    OBVIOUS
  <1>2. Cardinality(F) \in Nat
    BY FS_CardinalityType
  <1> HIDE DEF V
  <1>3. ASSUME Len(W) + Cardinality(F) = n, NEW i \in 1 .. Len(V)
        PROVE  /\ V[i].id \in 1 .. (n + 1) /\ V[i].id \notin F
               /\ V[i].id = i + Before(F, V[i].id)
    <2>1. CASE i = Len(W) + 1
      <3>1. V[i].id = n + 1
        BY <1>1, <2>1
      <3>2. n + 1 \in 1 .. (n + 1) /\ n + 1 \notin F
        OBVIOUS
      <3>3. Before(F, n + 1) = Cardinality(F)
        BY BeforeAll
      <3>4. n + 1 = i + Cardinality(F)
        BY <1>1, <1>2, <1>3, <2>1
      <3> QED
        BY <3>1, <3>2, <3>3, <3>4
    <2>2. CASE i \in 1 .. Len(W)
      <3>1. V[i] = W[i]
        BY <1>1, <2>2
      <3>2. W[i].id \in 1 .. n /\ W[i].id \notin F /\ W[i].id = i + Before(F, W[i].id)
        BY <2>2 DEF Placed
      <3>3. W[i].id \in 1 .. (n + 1)
        BY <3>2
      <3> QED
        BY <3>1, <3>2, <3>3
    <2> QED
      BY <1>1, <2>1, <2>2
  <1>4. ASSUME Complete(W, F, n), NEW k \in 1 .. (n + 1)
        PROVE  k \in F \/ \E i \in 1 .. Len(V) : V[i].id = k
    <2>1. CASE k = n + 1
      BY <1>1, <2>1
    <2>2. CASE k \in 1 .. n
      BY <1>1, <1>4, <2>2 DEF Complete
    <2> QED
      BY <2>1, <2>2
  <1> QED
    BY <1>3, <1>4 DEF Placed, Complete, V

(* The next request fails instead.                                         *)
LEMMA Fails ==
    ASSUME NEW W \in Seq(Answers), NEW F, IsFiniteSet(F), NEW n \in Nat,
           F \subseteq 1 .. n, Placed(W, F, n)
    PROVE  LET G == F \cup {n + 1}
           IN  /\ IsFiniteSet(G) /\ G \subseteq 1 .. (n + 1)
               /\ Cardinality(G) = Cardinality(F) + 1
               /\ Placed(W, G, n + 1)
               /\ Complete(W, F, n) => Complete(W, G, n + 1)
  <1> DEFINE G == F \cup {n + 1}
  <1>1. n + 1 \notin F /\ G \subseteq 1 .. (n + 1)
    OBVIOUS
  <1>2. IsFiniteSet(G) /\ Cardinality(G) = Cardinality(F) + 1
    BY <1>1, FS_AddElement
  <1>3. ASSUME NEW i \in 1 .. Len(W)
        PROVE  /\ W[i].id \in 1 .. (n + 1) /\ W[i].id \notin G
               /\ W[i].id = i + Before(G, W[i].id)
    <2>1. W[i].id \in 1 .. n /\ W[i].id \notin F /\ W[i].id = i + Before(F, W[i].id)
      BY DEF Placed
    <2>2. Before(G, W[i].id) = Before(F, W[i].id)
      BY <2>1, BeforeLater
    <2>3. W[i].id \in 1 .. (n + 1) /\ W[i].id \notin G
      BY <2>1
    <2> QED
      BY <2>1, <2>2, <2>3
  <1>4. Placed(W, G, n + 1)
    BY <1>3 DEF Placed
  <1>5. Complete(W, F, n) => Complete(W, G, n + 1)
    BY DEF Complete
  <1> QED
    BY <1>1, <1>2, <1>4, <1>5

(* The beginning of what was written stays in its place.                   *)
LEMMA PlacedPrefix ==
    ASSUME NEW W \in Seq(Answers), NEW V \in Seq(Answers), NEW F, NEW n \in Nat,
           Placed(W, F, n), Len(V) <= Len(W), \A i \in 1 .. Len(V) : V[i] = W[i]
    PROVE  Placed(V, F, n)
  <1> SUFFICES ASSUME NEW i \in 1 .. Len(V)
               PROVE  /\ V[i].id \in 1 .. n /\ V[i].id \notin F
                      /\ V[i].id = i + Before(F, V[i].id)
    BY DEF Placed
  <1>1. i \in 1 .. Len(W) /\ V[i] = W[i]
    OBVIOUS
  <1> QED
    BY <1>1 DEF Placed

LEMMA WrittenType ==
    ASSUME TypeOK
    PROVE  /\ Written \in Seq(Answers)
           /\ Len(Written) = Len(got) + Len(out)
           /\ \A i \in 1 .. Len(got) : Written[i] = got[i]
           /\ Taken \in Int /\ Over \in Int
  BY DEF TypeOK, Written, Taken, Over

LEMMA OverType ==
    ASSUME TypeOK, Numbered
    PROVE  Taken \in Nat /\ Over \in Nat /\ (call = NoCall => Over = Taken)
           /\ (call # NoCall => Taken = Over + 1 /\ call.id = Over + 1)
  BY DEF TypeOK, Numbered, Taken, Over, NoCall

-----------------------------------------------------------------------------
(* Steps that change neither what is over nor what was written.            *)
LEMMA Untouched ==
    ASSUME Accounted, Over' = Over, UNCHANGED <<failed, got, out, channel>>
    PROVE  Accounted'
  BY DEF Accounted, Written, Placed, Complete

(* channel_response: the answer to the next request is written.            *)
LEMMA Responds ==
    ASSUME TypeOK, Numbered, Accounted, NEW req \in Requests,
           NEW code \in Nat,
           NEW text \in {"error", "null", "seek", "review", "none"},
           Respond(Over + 1, req, code, text),
           Over' = Over + 1, UNCHANGED <<failed, got>>
    PROVE  Accounted' /\ out' \in Seq(Answers) /\ channel' \in {"open", "closing", "closed"}
  <1>0. PICK answer : answer = [id |-> Over + 1, status |-> code, content |-> text,
                                last |-> ~req.keepalive]
    OBVIOUS
  <1>1. Over \in Nat /\ answer \in Answers /\ answer.id = Over + 1 /\ answer.last = ~req.keepalive
    BY <1>0, OverType DEF Answers, Requests
  <1>2. /\ Written \in Seq(Answers) /\ Len(Written) = Len(got) + Len(out)
        /\ IsFiniteSet(failed) /\ failed \subseteq 1 .. Over /\ Placed(Written, failed, Over)
    BY WrittenType DEF TypeOK, Accounted
  <1>3. /\ Len(Written) + Cardinality(failed) = Over => Placed(Append(Written, answer), failed, Over + 1)
        /\ Complete(Written, failed, Over) => Complete(Append(Written, answer), failed, Over + 1)
    BY <1>1, <1>2, Appends
  <1>4. CASE channel = "closed"
    <2>1. out' = out /\ channel' = "closed"
      BY <1>4 DEF Respond
    <2>2. Placed(Written, failed, Over + 1)
      BY <1>1, <1>2 DEF Placed
    <2>3. failed \subseteq 1 .. (Over + 1)
      BY <1>1, <1>2
    <2> QED
      BY <1>4, <2>1, <2>2, <2>3 DEF Accounted, Written, TypeOK
  <1>5. CASE channel # "closed"
    <2>1. out' = Append(out, answer) /\ channel' \in {"open", "closing"}
          /\ (channel' = "open" => channel = "open" /\ req.keepalive)
      BY <1>0, <1>5 DEF Respond, TypeOK
    <2>2. out' \in Seq(Answers) /\ Len(out') = Len(out) + 1
          /\ \A i \in 1 .. Len(out') : out'[i] = IF i = Len(out) + 1 THEN answer ELSE out[i]
      BY <1>1, <2>1 DEF TypeOK
    <2>3. Written' = Append(Written, answer)
      BY <1>1, <2>1 DEF TypeOK, Written
    <2>4. Len(Written) + Cardinality(failed) = Over
      BY <1>5 DEF Accounted
    <2>5. Placed(Written', failed', Over')
      BY <1>3, <2>3, <2>4
    <2>6. failed \subseteq 1 .. (Over + 1)
      BY <1>1, <1>2
    <2>7. Len(Written') + Cardinality(failed') = Over'
      BY <1>1, <1>2, <2>3, <2>4, FS_CardinalityType
    <2>8. ASSUME channel' = "open"
          PROVE  Complete(Written', failed', Over') /\ \A i \in 1 .. Len(out') : ~out'[i].last
      <3>1. channel = "open" /\ req.keepalive
        BY <2>1, <2>8
      <3>2. Complete(Written, failed, Over) /\ \A i \in 1 .. Len(out) : ~out[i].last
        BY <3>1 DEF Accounted
      <3>3. ~answer.last
        BY <1>1, <3>1
      <3>4. Len(out) \in Nat
        BY DEF TypeOK
      <3>5. \A i \in 1 .. Len(out') : i = Len(out) + 1 \/ i \in 1 .. Len(out)
        BY <2>2, <3>4
      <3>6. \A i \in 1 .. Len(out') : ~out'[i].last
        BY <2>2, <3>2, <3>3, <3>5
      <3> QED
        BY <1>3, <2>3, <3>2, <3>6
    <2> QED
      BY <2>1, <2>2, <2>5, <2>6, <2>7, <2>8 DEF Accounted
  <1> QED
    BY <1>4, <1>5

(* exceptionCaught: the next request stays without an answer.              *)
LEMMA Throws ==
    ASSUME TypeOK, Numbered, Accounted, failed' = failed \cup {Over + 1},
           Over' = Over + 1, UNCHANGED <<channel, out, got>>
    PROVE  Accounted' /\ failed' \in SUBSET Nat /\ IsFiniteSet(failed')
  <1>1. Over \in Nat
    BY OverType
  <1>2. /\ Written \in Seq(Answers) /\ Len(Written) \in Nat
        /\ IsFiniteSet(failed) /\ failed \subseteq 1 .. Over /\ Placed(Written, failed, Over)
    BY WrittenType DEF TypeOK, Accounted
  <1>3. /\ IsFiniteSet(failed') /\ failed' \subseteq 1 .. (Over + 1)
        /\ Cardinality(failed') = Cardinality(failed) + 1
        /\ Placed(Written, failed', Over + 1)
        /\ Complete(Written, failed, Over) => Complete(Written, failed', Over + 1)
    BY <1>1, <1>2, Fails
  <1>4. Written' = Written
    BY DEF Written
  <1>5. channel' # "closed" => Len(Written') + Cardinality(failed') = Over'
    BY <1>1, <1>2, <1>3, <1>4, FS_CardinalityType DEF Accounted
  <1>6. channel' = "open" => Complete(Written', failed', Over')
                             /\ \A i \in 1 .. Len(out') : ~out'[i].last
    BY <1>3, <1>4 DEF Accounted
  <1> QED
    BY <1>1, <1>3, <1>4, <1>5, <1>6 DEF Accounted

-----------------------------------------------------------------------------
LEMMA InitInv == Init => Inv
  <1> SUFFICES ASSUME Init PROVE Inv
    OBVIOUS
  <1>1. TypeOK
    BY FS_EmptySet DEF Init, TypeOK
  <1>2. Taken = 0 /\ Over = 0 /\ Len(Written) = 0 /\ Cardinality(failed) = 0
    <2>1. Cardinality(failed) = 0
      BY FS_EmptySet DEF Init
    <2>2. Taken = 0
      <3>1. sent = 0 /\ Len(inbox) = 0
        BY DEF Init
      <3> QED
        BY <3>1 DEF Taken
    <2>3. Len(Written) = 0
      BY DEF Init, Written
    <2>4. Over = 0
      BY <2>2 DEF Init, Over
    <2> QED
      BY <2>1, <2>2, <2>3, <2>4
  <1>3. Numbered
    BY <1>2 DEF Init, Numbered
  <1>4. Accounted
    BY <1>2 DEF Init, Accounted, Placed, Complete
  <1> QED
    BY <1>1, <1>3, <1>4 DEF Inv

LEMMA OfTail ==
    ASSUME NEW S, NEW q \in Seq(S), q # <<>>
    PROVE  /\ Head(q) = q[1] /\ Head(q) \in S
           /\ Tail(q) \in Seq(S) /\ Len(Tail(q)) = Len(q) - 1
           /\ \A i \in 1 .. Len(Tail(q)) : Tail(q)[i] = q[i + 1]
  OBVIOUS

(* The request at the head of the inbox is taken.                          *)
LEMMA Takes ==
    ASSUME TypeOK, Numbered, call = NoCall, inbox # <<>>, inbox' = Tail(inbox), UNCHANGED sent
    PROVE  /\ Head(inbox) \in [id : Nat, req : Requests] /\ Head(inbox).id = Over + 1
           /\ inbox' \in Seq([id : Nat, req : Requests]) /\ Len(inbox') <= sent
           /\ Taken' = Taken + 1 /\ Over = Taken
           /\ \A i \in 1 .. Len(inbox') : inbox'[i].id = Taken' + i
  <1>1. /\ inbox \in Seq([id : Nat, req : Requests]) /\ Len(inbox) > 0 /\ sent \in Nat
        /\ Len(inbox) <= sent /\ \A i \in 1 .. Len(inbox) : inbox[i].id = sent - Len(inbox) + i
    BY DEF TypeOK, Numbered, Taken
  <1>2. /\ Head(inbox) = inbox[1] /\ Head(inbox) \in [id : Nat, req : Requests]
        /\ inbox' \in Seq([id : Nat, req : Requests]) /\ Len(inbox') = Len(inbox) - 1
        /\ \A i \in 1 .. Len(inbox') : inbox'[i] = inbox[i + 1]
    BY <1>1, OfTail
  <1>3. Head(inbox).id = sent - Len(inbox) + 1
    BY <1>1, <1>2
  <1>4. ASSUME NEW i \in 1 .. Len(inbox')
        PROVE  inbox'[i].id = sent - Len(inbox') + i
    <2>1. i + 1 \in 1 .. Len(inbox) /\ inbox'[i] = inbox[i + 1]
      BY <1>1, <1>2
    <2> QED
      BY <1>1, <1>2, <2>1
  <1> QED
    BY <1>1, <1>2, <1>3, <1>4 DEF Taken, Over

LEMMA PlayModes == \A r \in Requests : PlayMode(r) \in {"seek", "review", "none"}
  BY DEF Requests, Modes, PlayMode

LEMMA SendInv == Inv /\ Send => Inv'
  <1> SUFFICES ASSUME Inv, Send PROVE Inv'
    OBVIOUS
  <1> USE DEF Inv
  <1>1. PICK r \in Requests : inbox' = Append(inbox, [id |-> sent + 1, req |-> r])
    BY DEF Send
  <1>2. sent' = sent + 1 /\ UNCHANGED <<channel, call, out, got, failed>>
    BY DEF Send
  <1>3. /\ inbox \in Seq([id : Nat, req : Requests]) /\ sent \in Nat /\ Len(inbox) <= sent
        /\ \A i \in 1 .. Len(inbox) : inbox[i].id = sent - Len(inbox) + i
    BY DEF TypeOK, Numbered, Taken
  <1>4. /\ inbox' \in Seq([id : Nat, req : Requests]) /\ Len(inbox') = Len(inbox) + 1
        /\ inbox'[Len(inbox) + 1].id = sent + 1
        /\ \A i \in 1 .. Len(inbox) : inbox'[i] = inbox[i]
    BY <1>1, <1>3
  <1>5. Taken' = Taken /\ Over' = Over
    BY <1>2, <1>3, <1>4 DEF Taken, Over
  <1>6. TypeOK'
    BY <1>2, <1>3, <1>4 DEF TypeOK
  <1>7. ASSUME NEW i \in 1 .. Len(inbox')
        PROVE  inbox'[i].id = Taken' + i
    <2>1. CASE i = Len(inbox) + 1
      BY <1>3, <1>4, <1>5, <2>1 DEF Taken
    <2>2. CASE i \in 1 .. Len(inbox)
      BY <1>3, <1>4, <1>5, <2>2 DEF Taken
    <2> QED
      BY <1>3, <1>4, <2>1, <2>2
  <1>8. Numbered'
    BY <1>2, <1>3, <1>4, <1>5, <1>7 DEF Numbered
  <1>9. Accounted'
    BY <1>2, <1>5, Untouched
  <1> QED
    BY <1>6, <1>8, <1>9

LEMMA ChannelReadInv == Inv /\ ChannelRead => Inv'
  <1> SUFFICES ASSUME Inv, ChannelRead PROVE Inv'
    OBVIOUS
  <1> USE DEF Inv
  <1> DEFINE id == Head(inbox).id
             r == Head(inbox).req
  <1>1. /\ call = NoCall /\ inbox # <<>> /\ inbox' = Tail(inbox)
        /\ UNCHANGED <<sent, got, failed>>
    BY DEF ChannelRead
  <1>2. /\ r \in Requests /\ id = Over + 1
        /\ inbox' \in Seq([id : Nat, req : Requests]) /\ Len(inbox') <= sent
        /\ Taken' = Taken + 1 /\ Over = Taken /\ Taken \in Nat
        /\ \A i \in 1 .. Len(inbox') : inbox'[i].id = Taken' + i
    BY <1>1, Takes, OverType
  <1> HIDE DEF id, r
  <1>3. ASSUME UNCHANGED call, NEW code \in Nat, Respond(id, r, code, "error")
        PROVE  Inv'
    <2>1. Over' = Over + 1
      BY <1>1, <1>2, <1>3 DEF Over
    <2>2. Accounted' /\ out' \in Seq(Answers) /\ channel' \in {"open", "closing", "closed"}
      BY <1>1, <1>2, <1>3, <2>1, Responds
    <2>3. TypeOK'
      BY <1>1, <1>2, <1>3, <2>2 DEF TypeOK
    <2>4. Numbered'
      BY <1>1, <1>2, <1>3 DEF Numbered
    <2> QED
      BY <2>2, <2>3, <2>4
  <1>4. ASSUME call' = [id |-> id, req |-> r, file |-> ChooseFile], UNCHANGED <<channel, out>>
        PROVE  Inv'
    <2>1. call' \in [id : Nat \ {0}, req : Requests, file : Files] /\ call'.id = id
      BY <1>2, <1>4 DEF ChooseFile, Files
    <2>2. call' # NoCall
      BY <1>2, <2>1 DEF NoCall
    <2>3. Over' = Over
      BY <1>2, <2>2 DEF Over
    <2>4. Accounted'
      BY <1>1, <1>4, <2>3, Untouched
    <2>5. TypeOK'
      BY <1>1, <1>2, <1>4, <2>1 DEF TypeOK
    <2>6. Numbered'
      BY <1>1, <1>2, <2>1 DEF Numbered
    <2> QED
      BY <2>4, <2>5, <2>6
  <1>5. \/ Respond(id, r, 403, "error") /\ UNCHANGED call
        \/ Respond(id, r, 404, "error") /\ UNCHANGED call
        \/ call' = [id |-> id, req |-> r, file |-> ChooseFile] /\ UNCHANGED <<channel, out>>
    BY DEF ChannelRead, id, r
  <1> QED
    BY <1>3, <1>4, <1>5

LEMMA UriSyntaxInv == Inv /\ UriSyntax => Inv'
  <1> SUFFICES ASSUME Inv, UriSyntax PROVE Inv'
    OBVIOUS
  <1> USE DEF Inv
  <1>1. /\ call = NoCall /\ inbox # <<>> /\ inbox' = Tail(inbox)
        /\ failed' = failed \cup {Head(inbox).id}
        /\ UNCHANGED <<channel, sent, call, out, got>>
    BY DEF UriSyntax
  <1>2. /\ Head(inbox).id = Over + 1
        /\ inbox' \in Seq([id : Nat, req : Requests]) /\ Len(inbox') <= sent
        /\ Taken' = Taken + 1 /\ Over = Taken
        /\ \A i \in 1 .. Len(inbox') : inbox'[i].id = Taken' + i
    BY <1>1, Takes
  <1>3. Over' = Over + 1
    BY <1>1, <1>2 DEF Over
  <1>4. Accounted' /\ failed' \in SUBSET Nat /\ IsFiniteSet(failed')
    BY <1>1, <1>2, <1>3, Throws
  <1>5. TypeOK'
    BY <1>1, <1>2, <1>4 DEF TypeOK
  <1>6. Numbered'
    BY <1>1, <1>2 DEF Numbered
  <1> QED
    BY <1>4, <1>5, <1>6

(* The handler of the present call returns or is left.                     *)
LEMMA CallEnds ==
    ASSUME TypeOK, Numbered, call # NoCall, call' = NoCall, UNCHANGED <<inbox, sent>>
    PROVE  /\ call.id = Over + 1 /\ call.req \in Requests
           /\ Over' = Over + 1 /\ Numbered'
  <1>1. call \in [id : Nat \ {0}, req : Requests, file : Files]
    BY DEF TypeOK
  <1>2. Taken' = Taken /\ Taken = Over + 1 /\ call.id = Over + 1
    BY OverType DEF Taken
  <1>3. Over' = Taken'
    BY DEF Over
  <1>4. Numbered'
    BY <1>2 DEF Numbered
  <1> QED
    BY <1>1, <1>2, <1>3, <1>4

LEMMA HandlerInv == Inv /\ (Finish \/ IoError \/ ExceptionCaught) => Inv'
  <1> SUFFICES ASSUME Inv, Finish \/ IoError \/ ExceptionCaught PROVE Inv'
    OBVIOUS
  <1> USE DEF Inv
  <1>1. call # NoCall /\ call' = NoCall /\ UNCHANGED <<inbox, sent, got>>
    BY DEF Finish, IoError, ExceptionCaught
  <1>2. /\ call.id = Over + 1 /\ call.req \in Requests
        /\ Over' = Over + 1 /\ Numbered'
    BY <1>1, CallEnds
  <1>3. ASSUME NEW text \in {"error", "null", "seek", "review", "none"},
               Respond(call.id, call.req, 200, text), UNCHANGED failed
        PROVE  Inv'
    <2>1. Accounted' /\ out' \in Seq(Answers) /\ channel' \in {"open", "closing", "closed"}
      BY <1>1, <1>2, <1>3, Responds
    <2>2. TypeOK'
      BY <1>1, <1>3, <2>1 DEF TypeOK
    <2> QED
      BY <1>2, <2>1, <2>2
  <1>4. ASSUME failed' = failed \cup {call.id}, UNCHANGED <<channel, out>>
        PROVE  Inv'
    <2>1. Accounted' /\ failed' \in SUBSET Nat /\ IsFiniteSet(failed')
      BY <1>1, <1>2, <1>4, Throws
    <2>2. TypeOK'
      BY <1>1, <1>4, <2>1 DEF TypeOK
    <2> QED
      BY <1>2, <2>1, <2>2
  <1>5. CASE Finish
    <2>1. PlayMode(call.req) \in {"seek", "review", "none"}
      BY <1>2, PlayModes
    <2>2. Respond(call.id, call.req, 200, PlayMode(call.req)) /\ UNCHANGED failed
      BY <1>5 DEF Finish
    <2> QED
      BY <1>3, <2>1, <2>2
  <1>6. CASE IoError
    <2>1. \/ Respond(call.id, call.req, 200, "null") /\ UNCHANGED failed
          \/ failed' = failed \cup {call.id} /\ UNCHANGED <<channel, out>>
      BY <1>6 DEF IoError
    <2> QED
      BY <1>3, <1>4, <2>1
  <1>7. CASE ExceptionCaught
    BY <1>4, <1>7 DEF ExceptionCaught
  <1> QED
    BY <1>5, <1>6, <1>7

LEMMA FlushInv == Inv /\ (Flush \/ ClientCloses) => Inv'
  <1> SUFFICES ASSUME Inv, Flush \/ ClientCloses PROVE Inv'
    OBVIOUS
  <1> USE DEF Inv
  <1>1. /\ UNCHANGED <<inbox, sent, call, failed>> /\ Taken' = Taken /\ Over' = Over
        /\ channel # "closed" /\ Numbered'
    BY DEF Flush, ClientCloses, Taken, Over, Numbered
  <1>2. /\ out \in Seq(Answers) /\ got \in Seq(Answers) /\ Over \in Nat
        /\ Written \in Seq(Answers) /\ Placed(Written, failed, Over)
        /\ failed \subseteq 1 .. Over
    BY OverType, WrittenType DEF TypeOK, Accounted
  <1>3. ASSUME got' \in Seq(Answers), out' = <<>>, channel' = "closed",
               Len(got') <= Len(Written), \A i \in 1 .. Len(got') : got'[i] = Written[i]
        PROVE  Inv'
    <2>1. Written' = got'
      BY <1>3 DEF Written
    <2>2. Placed(got', failed, Over)
      BY <1>2, <1>3, PlacedPrefix
    <2>3. Accounted'
      BY <1>1, <1>2, <1>3, <2>1, <2>2 DEF Accounted
    <2>4. TypeOK'
      BY <1>1, <1>3 DEF TypeOK
    <2> QED
      BY <1>1, <2>3, <2>4
  <1>4. CASE ClientCloses
    <2>1. /\ got' = got /\ out' = <<>> /\ channel' = "closed"
      BY <1>4 DEF ClientCloses
    <2>2. Len(got) <= Len(Written) /\ \A i \in 1 .. Len(got) : got[i] = Written[i]
      BY <1>2 DEF Written
    <2> QED
      BY <1>2, <1>3, <2>1, <2>2
  <1>5. CASE Flush
    <2>1. out # <<>> /\ got' = Append(got, Head(out))
      BY <1>5 DEF Flush
    <2>2. /\ Head(out) = out[1] /\ Head(out) \in Answers /\ Tail(out) \in Seq(Answers)
          /\ Len(out) > 0
      BY <1>2, <2>1
    <2>3. CASE Head(out).last
      <3>1. out' = <<>> /\ channel' = "closed" /\ got' \in Seq(Answers)
        BY <1>2, <1>5, <2>1, <2>2, <2>3 DEF Flush
      <3>2. Len(got') <= Len(Written) /\ \A i \in 1 .. Len(got') : got'[i] = Written[i]
        BY <1>2, <2>1, <2>2 DEF Written
      <3> QED
        BY <1>3, <3>1, <3>2
    <2>4. CASE ~Head(out).last
      <3>1. out' = Tail(out) /\ UNCHANGED channel /\ got' \in Seq(Answers)
        BY <1>2, <1>5, <2>1, <2>2, <2>4 DEF Flush
      <3>2. Written' = Written
        BY <1>2, <2>1, <2>2, <3>1 DEF Written
      <3>3. \A i \in 1 .. Len(out') : i + 1 \in 1 .. Len(out) /\ out'[i] = out[i + 1]
        BY <1>2, <2>1, <3>1
      <3>4. Accounted'
        BY <1>1, <3>1, <3>2, <3>3 DEF Accounted
      <3>5. TypeOK'
        BY <1>1, <2>2, <3>1 DEF TypeOK
      <3> QED
        BY <1>1, <3>4, <3>5
    <2> QED
      BY <2>3, <2>4
  <1> QED
    BY <1>4, <1>5

LEMMA NextInv == Inv /\ [Next]_vars => Inv'
  <1> SUFFICES ASSUME Inv, [Next]_vars PROVE Inv'
    OBVIOUS
  <1>1. CASE Touch \/ UNCHANGED vars
    <2>1. UNCHANGED <<channel, inbox, sent, call, out, got, failed>>
      BY <1>1 DEF Touch, vars
    <2> QED
      BY <2>1 DEF Inv, TypeOK, Numbered, Accounted, Taken, Over, Written, Placed, Complete
  <1> QED
    BY <1>1, SendInv, ChannelReadInv, UriSyntaxInv, HandlerInv, FlushInv DEF Next

LEMMA Invariant == Spec => []Inv
  BY InitInv, NextInv, PTL DEF Spec

-----------------------------------------------------------------------------
(* channelRead, exceptionCaught: at any time the k-th answer written to    *)
(* the channel belongs to the request whose number is k and the number of  *)
(* handlers that were left by an exception before it.                      *)
THEOREM AnswersInOrder == Spec => []MatchedByOrder
  <1>1. Inv => MatchedByOrder
    <2> SUFFICES ASSUME Inv, NEW i \in 1 .. Len(Written)
                 PROVE  Written[i].id = i + Cardinality({f \in failed : f < Written[i].id})
      BY DEF MatchedByOrder, Written
    <2>1. Written[i].id = i + Before(failed, Written[i].id)
      BY DEF Inv, Accounted, Placed
    <2> QED
      BY <2>1 DEF Before
  <1> QED
    BY <1>1, Invariant, PTL

IdSet(q) == {q[i].id : i \in 1 .. Len(q)}

LEMMA IdsOf ==
    ASSUME NEW S, NEW q \in Seq(S)
    PROVE  ToSet(Ids(q)) = IdSet(q)
  BY DEF ToSet, Ids, IdSet

LEMMA IdsOfConcat ==
    ASSUME NEW S, NEW p \in Seq(S), NEW q \in Seq(S)
    PROVE  IdSet(p \o q) = IdSet(p) \cup IdSet(q)
  <1> DEFINE w == p \o q
  <1>1. /\ Len(w) = Len(p) + Len(q) /\ Len(p) \in Nat /\ Len(q) \in Nat
        /\ \A i \in 1 .. Len(p) : w[i] = p[i]
        /\ \A i \in 1 .. Len(q) : w[i + Len(p)] = q[i]
    OBVIOUS
  <1> HIDE DEF w
  <1>2. ASSUME NEW i \in 1 .. Len(w)
        PROVE  w[i].id \in {p[j].id : j \in 1 .. Len(p)} \cup {q[j].id : j \in 1 .. Len(q)}
    <2>1. CASE i \in 1 .. Len(p)
      BY <1>1, <2>1
    <2>2. CASE i \notin 1 .. Len(p)
      <3>1. PICK j \in 1 .. Len(q) : i = j + Len(p)
        <4>1. i - Len(p) \in 1 .. Len(q) /\ i = (i - Len(p)) + Len(p)
          BY <1>1, <2>2
        <4> QED
          BY <4>1
      <3> QED
        BY <1>1, <3>1
    <2> QED
      BY <2>1, <2>2
  <1>3. \A i \in 1 .. Len(p) : p[i].id \in {w[j].id : j \in 1 .. Len(w)}
    BY <1>1
  <1>4. \A i \in 1 .. Len(q) : q[i].id \in {w[j].id : j \in 1 .. Len(w)}
    <2>1. \A i \in 1 .. Len(q) : i + Len(p) \in 1 .. Len(w)
      BY <1>1
    <2> QED
      BY <1>1, <2>1
  <1>5. IdSet(w) = IdSet(p) \cup IdSet(q)
    BY <1>2, <1>3, <1>4 DEF IdSet
  <1> QED
    BY <1>5 DEF w

(* channelRead and the handlers: while the channel is open each request    *)
(* that was decoded waits in the inbox or in the present call, or has its  *)
(* answer, or its handler was left by an exception, and only one of these. *)
THEOREM NoneForgotten == Spec => []NothingForgotten
  <1>1. Inv => NothingForgotten
    <2> SUFFICES ASSUME Inv, channel = "open"
                 PROVE  LET answered == ToSet(Ids(got)) \cup ToSet(Ids(out))
                        IN  /\ (Unhandled \ {0}) \cup answered \cup failed = 1 .. sent
                            /\ (Unhandled \cap answered) = {} /\ answered \cap failed = {}
      BY DEF NothingForgotten
    <2> DEFINE answered == IdSet(Written)
    <2>1. /\ out \in Seq(Answers) /\ got \in Seq(Answers) /\ sent \in Nat
          /\ Over \in Nat /\ Taken \in Nat
          /\ inbox \in Seq([id : Nat, req : Requests]) /\ Len(inbox) <= sent
          /\ failed \subseteq 1 .. Over
      BY OverType DEF Inv, TypeOK, Numbered, Accounted
    <2>2. ToSet(Ids(got)) \cup ToSet(Ids(out)) = answered
      BY <2>1, IdsOf, IdsOfConcat DEF Written
    <2>3. Unhandled \ {0} = (Over + 1) .. sent
      <3>1. ToSet(Ids(inbox)) = {inbox[i].id : i \in 1 .. Len(inbox)}
        BY <2>1, IdsOf DEF IdSet
      <3>2. \A i \in 1 .. Len(inbox) : inbox[i].id = Taken + i
        BY DEF Inv, Numbered
      <3>3. \A k \in (Taken + 1) .. sent : k - Taken \in 1 .. Len(inbox) /\ Taken + (k - Taken) = k
        BY <2>1 DEF Taken
      <3>4. \A i \in 1 .. Len(inbox) : Taken + i \in (Taken + 1) .. sent
        BY <2>1 DEF Taken
      <3>5. ToSet(Ids(inbox)) = (Taken + 1) .. sent
        BY <3>1, <3>2, <3>3, <3>4
      <3>6. CASE call = NoCall
        BY <2>1, <3>5, <3>6, OverType DEF Inv, Unhandled, NoCall
      <3>7. CASE call # NoCall
        <4>1. call.id = Over + 1 /\ Taken = Over + 1 /\ Taken <= sent
          BY <2>1, <3>7, OverType DEF Inv, Taken
        <4> QED
          BY <2>1, <3>5, <4>1 DEF Unhandled
      <3> QED
        BY <3>6, <3>7
    <2>4. /\ Complete(Written, failed, Over)
          /\ \A i \in 1 .. Len(Written) : Written[i].id \in 1 .. Over /\ Written[i].id \notin failed
      BY DEF Inv, Accounted, Placed
    <2>5. Over <= sent
      BY <2>1, OverType DEF Inv, Taken
    <2>6. answered \cap failed = {} /\ answered \subseteq 1 .. Over
      BY <2>4 DEF IdSet
    <2>7. 1 .. Over = answered \cup failed
      BY <2>1, <2>4, <2>6 DEF Complete, IdSet
    <2>8. Unhandled \cap answered = {}
      <3> SUFFICES ASSUME NEW k \in Unhandled, k \in answered PROVE FALSE
        OBVIOUS
      <3>1. k \in 1 .. Over
        BY <2>6
      <3>2. k \in (Over + 1) .. sent
        BY <2>1, <2>3, <3>1
      <3> QED
        BY <2>1, <3>1, <3>2
    <2>9. (Unhandled \ {0}) \cup answered \cup failed = 1 .. sent
      <3>1. 1 .. sent = (1 .. Over) \cup ((Over + 1) .. sent)
        BY <2>1, <2>5
      <3> QED
        BY <2>3, <2>7, <3>1
    <2> QED
      BY <2>2, <2>6, <2>8, <2>9
  <1> QED
    BY <1>1, Invariant, PTL

(* Both together: what the run of the filter server checks.                *)
THEOREM ChannelAnswers == Spec => []AnswersMatched
  <1>1. MatchedByOrder /\ NothingForgotten => AnswersMatched
    BY DEF AnswersMatched
  <1> QED
    BY <1>1, AnswersInOrder, NoneForgotten, PTL

=============================================================================
