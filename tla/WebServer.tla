----------------------------- MODULE WebServer -----------------------------
(***************************************************************************)
(* startServer (main.cpp) and what it uses of SimpleWeb::Server            *)
(* (libs/server_http.hpp): one thread runs the completion handlers of all  *)
(* connections, every one of them from beginning to end.                   *)
(*                                                                         *)
(* A connection has at most one read or write under way ("op"); it         *)
(* completes at some time ("done": its handler is queued) and the handler  *)
(* runs later.  A timer that goes off queues a handler too ("expired"); it *)
(* can no longer be cancelled then.  An operation, its handler and the     *)
(* handler's session hold the only references to a connection: a handler   *)
(* that returns without starting another one ends it ("gone").             *)
(*                                                                         *)
(* What a client sends is cut into tokens: the head of a request, bytes of *)
(* content, the line with the size of a chunk, the CR and LF after a       *)
(* chunk.  Tokens arrive one by one, so every way TCP can cut the stream   *)
(* is among the behaviours, although a read takes all that is there.       *)
(***************************************************************************)
EXTENDS Integers, Sequences, FiniteSets

CONSTANTS
  Conns,    \* connections, each with its client
  Plans     \* what clients do: functions from Conns to [patient, requests]

VARIABLES
  running,  \* "starting", "running", or "ended" with the process
  conn,     \* the server's side of every connection
  plan, toSend, left, got,    \* the clients: the next token to send, who has left, the answers
  incoming  \* tokens that arrived and were not read

vars == <<running, conn, plan, toSend, left, got, incoming>>

\* A request has "ends": where its chunks end in its content.  A content that is
\* not chunked is one piece.  The last chunk has size 0.
Begins(r, part) == IF part - 1 \in DOMAIN r.ends THEN r.ends[part - 1] ELSE 0
Ends(r, part) == IF part \in DOMAIN r.ends THEN r.ends[part] ELSE Begins(r, part)
ContentLength(r) == Begins(r, Len(r.ends) + 1)

Increasing(s) == \A i, j \in DOMAIN s : i < j => s[i] < s[j]

Requests ==
  {r \in [method : {"GET", "POST", "malformed"}, framing : {"none", "length", "chunked", "broken"},
          ends : Seq(Nat), connection : {"keep-alive", "close", "none"}, version : Nat,
          query : {"route", "unreadable", "nowhere"}] :
     CASE r.framing = "length" -> Len(r.ends) = 1
       [] r.framing = "chunked" -> Increasing(<<0>> \o r.ends)
       [] OTHER -> r.ends = << >>}

Clients == [patient : BOOLEAN, requests : Seq(Requests)]

ASSUME PlansAssumption == \A p \in Plans : p \in [Conns -> Clients]

\* A token of request n: "val" is the size in the line before a chunk, and the
\* place of a byte in the content.
Token(kind, n, part, val) == [kind |-> kind, n |-> n, part |-> part, val |-> val]
NoToken == Token("none", 0, 0, 0)

HeadOf(rs, n) == IF n \in DOMAIN rs THEN Token("head", n, 1, 0) ELSE NoToken
SizeLine(r, n, part) == Token("size", n, part, Ends(r, part) - Begins(r, part))

\* What a client with requests rs sends after token t: a chunk is its size, its
\* bytes, CR and LF, and a request ends with its content or its last chunk.
After(rs, t) ==
  LET r == rs[t.n]
      sent == IF t.kind = "byte" THEN t.val ELSE Begins(r, t.part)
  IN IF t.kind = "head" /\ r.framing = "chunked" THEN SizeLine(r, t.n, 1)
     ELSE IF t.kind \in {"head", "size", "byte"} /\ sent < Ends(r, t.part)
          THEN Token("byte", t.n, t.part, sent + 1)
     ELSE IF t.kind \in {"size", "byte"} /\ r.framing = "chunked" THEN Token("cr", t.n, t.part, 0)
     ELSE IF t.kind = "cr" THEN Token("lf", t.n, t.part, 0)
     ELSE IF t.kind = "lf" /\ t.part \in DOMAIN r.ends THEN SizeLine(r, t.n, t.part + 1)
     ELSE HeadOf(rs, t.n + 1)

\* How many requests were begun when t is the next token to send.
Asked(rs, t) ==
  CASE t.kind = "none" -> Len(rs) [] t.kind = "head" -> t.n - 1 [] OTHER -> t.n

Unaccepted ==
  [state |-> "unaccepted", op |-> "none", done |-> "no", need |-> 0, buf |-> << >>,
   chunks |-> << >>, cur |-> 0, shut |-> FALSE, timer |-> "off", expired |-> {}]

Init ==
  /\ running = "starting"
  /\ conn = [c \in Conns |-> Unaccepted]
  /\ plan \in Plans
  /\ toSend = [c \in Conns |-> HeadOf(plan[c].requests, 1)]
  /\ left = [c \in Conns |-> FALSE]
  /\ got = [c \in Conns |-> << >>]
  /\ incoming = [c \in Conns |-> << >>]

clientVars == <<plan, toSend, left, got>>
-----------------------------------------------------------------------------
\* The methods of a connection, as functions of its state k.

SetTimeout(k, seconds) == [k EXCEPT !.timer = seconds]
CancelTimeout(k) == [k EXCEPT !.timer = "off"]

\* What is under way completes with an error; what has completed stays.
Close(k) ==
  [k EXCEPT !.shut = TRUE, !.done = IF k.op # "none" /\ k.done = "no" THEN "error" ELSE k.done]

Start(k, op, need) == [k EXCEPT !.op = op, !.done = "no", !.need = need]

\* The last reference is gone: the deleter of create_connection.
Drop(k) == [Unaccepted EXCEPT !.state = "gone", !.shut = k.shut]

\* A new session: the buffers of the one before go with it.
\* A faulty variant: the timer of the request before is left as it was.
Read_Untimed(k) == Start([k EXCEPT !.buf = << >>, !.chunks = << >>], "head", 0)
Read(k) == Start([SetTimeout(k, "request") EXCEPT !.buf = << >>, !.chunks = << >>], "head", 0)

\* Only GET has a resource; its response is sent when the handler lets go of it.
FindResource(k, r) == IF r.method = "GET" THEN Start(k, "write", 0) ELSE Drop(k)

\* The head was read, with what came after it; content and chunks follow.
DispatchHead(k, r) ==
  LET rest == Tail(k.buf)
      j == [SetTimeout(k, "content") EXCEPT !.buf = rest, !.cur = k.buf[1].n]
  IN IF r.method = "malformed" \/ r.framing = "broken" THEN Drop(k)
     ELSE IF r.framing = "length" /\ ContentLength(r) > Len(rest)
          THEN Start(j, "content", ContentLength(r) - Len(rest))
     ELSE IF r.framing = "chunked"
          THEN Start([j EXCEPT !.buf = << >>, !.chunks = rest], "size", 0)
     ELSE FindResource(j, r)

\* The line with a chunk's size was read, with some of the chunk and its end.
\* A faulty variant: all that came with the line is taken for the chunk.
NextChunk_AllMoved(k, r) ==
  LET size == k.chunks[1].val
      rest == Tail(k.chunks)
      j == [k EXCEPT !.buf = @ \o rest, !.chunks = << >>]
  IN IF k.chunks[1].kind # "size" THEN Drop(k)
     ELSE IF size = 0 THEN FindResource(k, r)
     ELSE IF size > Len(rest) THEN Start(j, "data", size - Len(rest))
     ELSE IF size + 2 > Len(rest) THEN Start(j, "end", size + 2 - Len(rest))
     ELSE Start(j, "size", 0)

NextChunk(k, r) ==
  LET size == k.chunks[1].val
      rest == Tail(k.chunks)
      moved == IF size < Len(rest) THEN size ELSE Len(rest)
      j == [k EXCEPT !.buf = @ \o SubSeq(rest, 1, moved),
                     !.chunks = SubSeq(rest, moved + 1, Len(rest))]
  IN IF k.chunks[1].kind # "size" THEN Drop(k)
     ELSE IF size = 0 THEN FindResource(k, r)
     ELSE IF size > Len(rest) THEN Start(j, "data", size - Len(rest))
     ELSE IF size + 2 > Len(rest)
          THEN Start([j EXCEPT !.chunks = << >>], "end", size + 2 - Len(rest))
     ELSE Start([j EXCEPT !.chunks = SubSeq(@, 3, Len(@))], "size", 0)

KeepsAlive(r) == r.connection = "keep-alive" \/ (r.connection = "none" /\ r.version >= 11)

\* The response is out: the next request, or the end of the connection.
\* A faulty variant: the session, with what it has buffered, is used again.
Answered_SameSession(k, r) ==
  IF KeepsAlive(r) THEN [Read(CancelTimeout(k)) EXCEPT !.buf = k.buf] ELSE Drop(k)

Answered(k, r) == IF KeepsAlive(r) THEN Read(CancelTimeout(k)) ELSE Drop(k)

\* What the handler of main.cpp makes of a query: numbers it cannot read are
\* answered too; a point with no node in reach is index -1, where a vector is
\* read outside of its bounds.
Answer(r) ==
  CASE r.query = "route" -> "path" [] r.query = "unreadable" -> "bad request"
    [] r.query = "nowhere" -> "anything"
-----------------------------------------------------------------------------
Request(c) == plan[c].requests[conn[c].cur]

\* The client sends on; a patient one waits for an answer before it asks again.
ClientSend(c) ==
  LET t == toSend[c]
      rs == plan[c].requests
  IN /\ ~left[c] /\ t.kind # "none" /\ conn[c].state # "gone"
     /\ plan[c].patient /\ t.kind = "head" => Len(got[c]) = Asked(rs, t)
     /\ toSend' = [toSend EXCEPT ![c] = After(rs, t)]
     /\ incoming' = [incoming EXCEPT ![c] = Append(@, t)]
     /\ UNCHANGED <<running, conn, plan, left, got>>

ClientLeave(c) ==
  /\ ~left[c]
  /\ left' = [left EXCEPT ![c] = TRUE]
  /\ UNCHANGED <<running, conn, plan, toSend, got, incoming>>

\* start(), in a thread of its own; the port may be taken, which nothing catches.
StartServer ==
  /\ running = "starting"
  /\ running' \in {"running", "ended"}
  /\ UNCHANGED <<conn, clientVars, incoming>>

Accept(c) ==
  /\ running = "running" /\ conn[c].state = "unaccepted"
  /\ conn' = [conn EXCEPT ![c] = Read([Unaccepted EXCEPT !.state = "open"])]
  /\ UNCHANGED <<running, clientVars, incoming>>

Waiting(c, op) == running = "running" /\ conn[c].op = op /\ conn[c].done = "no"
Queued(c, op) == running = "running" /\ conn[c].op = op /\ conn[c].done = "ok"

\* "\r\n\r\n", as the end of a head or as that of the last chunk.
EndsHead(s) ==
  \E k \in DOMAIN s :
    \/ s[k].kind = "head"
    \/ k > 2 /\ s[k].kind = "lf" /\ s[k - 1].kind = "cr" /\ s[k - 2].kind \in {"size", "lf"}
EndsLine(s) == \E k \in DOMAIN s : s[k].kind \in {"head", "size", "lf"}

HeadArrives(c) ==
  /\ Waiting(c, "head")
  /\ LET s == conn[c].buf \o incoming[c]
     IN EndsHead(s) /\ conn' = [conn EXCEPT ![c].buf = s, ![c].done = "ok"]
  /\ incoming' = [incoming EXCEPT ![c] = << >>]
  /\ UNCHANGED <<running, clientVars>>

LineArrives(c) ==
  /\ Waiting(c, "size")
  /\ LET s == conn[c].chunks \o incoming[c]
     IN EndsLine(s) /\ conn' = [conn EXCEPT ![c].chunks = s, ![c].done = "ok"]
  /\ incoming' = [incoming EXCEPT ![c] = << >>]
  /\ UNCHANGED <<running, clientVars>>

\* transfer_exactly; the end of a chunk goes into a buffer nobody reads.
BytesArrive(c) ==
  \E op \in {"content", "data", "end"} :
    LET need == conn[c].need
    IN /\ Waiting(c, op) /\ Len(incoming[c]) >= need
       /\ conn' = [conn EXCEPT ![c].done = "ok",
                     ![c].buf = IF op = "end" THEN @ ELSE @ \o SubSeq(incoming[c], 1, need)]
       /\ incoming' = [incoming EXCEPT ![c] = SubSeq(@, need + 1, Len(@))]
       /\ UNCHANGED <<running, clientVars>>

ResponseGoes(c) ==
  /\ Waiting(c, "write") /\ ~conn[c].shut
  /\ conn' = [conn EXCEPT ![c].done = "ok"]
  /\ got' = [got EXCEPT ![c] = IF left[c] THEN @
                               ELSE Append(@, [n |-> conn[c].cur, answer |-> Answer(Request(c))])]
  /\ UNCHANGED <<running, plan, toSend, left, incoming>>

Breaks(c) ==
  /\ running = "running" /\ conn[c].op # "none" /\ conn[c].done = "no"
  /\ left[c] \/ conn[c].shut
  /\ conn' = [conn EXCEPT ![c].done = "error"]
  /\ UNCHANGED <<running, clientVars, incoming>>

Expire(c) ==
  /\ running = "running" /\ conn[c].timer # "off"
  /\ conn' = [conn EXCEPT ![c].timer = "off", ![c].expired = @ \cup {conn[c].timer}]
  /\ UNCHANGED <<running, clientVars, incoming>>
-----------------------------------------------------------------------------
\* The handlers.  One that answers "nowhere" may end the process.
Resume(c, k) ==
  /\ conn' = [conn EXCEPT ![c] = k]
  /\ IF k.op = "write" /\ plan[c].requests[k.cur].query = "nowhere"
     THEN running' \in {"running", "ended"}
     ELSE UNCHANGED running
  /\ UNCHANGED <<clientVars, incoming>>

HeadRead(c) ==
  /\ Queued(c, "head")
  /\ LET first == conn[c].buf[1]
     IN Resume(c, IF first.kind = "head"
                  THEN DispatchHead(conn[c], plan[c].requests[first.n])
                  ELSE Drop(conn[c]))

ContentRead(c) == Queued(c, "content") /\ Resume(c, FindResource(conn[c], Request(c)))
SizeRead(c) == Queued(c, "size") /\ Resume(c, NextChunk(conn[c], Request(c)))
DataRead(c) == Queued(c, "data") /\ Resume(c, Start(conn[c], "end", 2))
EndRead(c) == Queued(c, "end") /\ Resume(c, Start(conn[c], "size", 0))
Written(c) == Queued(c, "write") /\ Resume(c, Answered(conn[c], Request(c)))

\* on_error is not set, which is tested before it is called, except after the
\* end of a chunk.
\* A faulty variant: the test is missing after the content as well.
Failed_Untested(c) ==
  /\ running = "running" /\ conn[c].done = "error"
  /\ conn' = [conn EXCEPT ![c] = Drop(@)]
  /\ running' = IF conn[c].op \in {"content", "end"} THEN "ended" ELSE running
  /\ UNCHANGED <<clientVars, incoming>>

Failed(c) ==
  /\ running = "running" /\ conn[c].done = "error"
  /\ conn' = [conn EXCEPT ![c] = Drop(@)]
  /\ running' = IF conn[c].op = "end" THEN "ended" ELSE running
  /\ UNCHANGED <<clientVars, incoming>>

\* The handler of a timer that went off, be it the one set last or not.
\* A faulty variant: forgets to close.
TimedOut_Ignored(c) ==
  /\ running = "running"
  /\ \E t \in conn[c].expired : conn' = [conn EXCEPT ![c].expired = @ \ {t}]
  /\ UNCHANGED <<running, clientVars, incoming>>

TimedOut(c) ==
  /\ running = "running"
  /\ \E t \in conn[c].expired :
       conn' = [conn EXCEPT ![c] = [Close(conn[c]) EXCEPT !.expired = @ \ {t}]]
  /\ UNCHANGED <<running, clientVars, incoming>>

Completes(c) == HeadArrives(c) \/ LineArrives(c) \/ BytesArrive(c) \/ ResponseGoes(c) \/ Breaks(c)
Handles(c) ==
  HeadRead(c) \/ ContentRead(c) \/ SizeRead(c) \/ DataRead(c) \/ EndRead(c) \/ Written(c) \/ Failed(c)

Next ==
  \/ StartServer
  \/ \E c \in Conns :
       ClientSend(c) \/ ClientLeave(c) \/ Accept(c) \/ Completes(c) \/ Handles(c)
         \/ Expire(c) \/ TimedOut(c)

\* The thread runs whatever is queued and timers go off; clients need not send.
Fairness ==
  \A c \in Conns :
    WF_vars(Completes(c)) /\ WF_vars(Handles(c)) /\ WF_vars(Expire(c)) /\ WF_vars(TimedOut(c))

Spec == Init /\ [][Next]_vars /\ Fairness
-----------------------------------------------------------------------------
\* However TCP cuts the stream and whatever timers do: when the response to a
\* request of a patient client is on its way, the request's buffer holds its
\* content, all of it and nothing else, no size line and no CR LF.
ContentWhole ==
  \A c \in Conns :
    conn[c].op = "write" /\ plan[c].patient =>
      /\ Len(conn[c].buf) = ContentLength(Request(c))
      /\ \A i \in DOMAIN conn[c].buf :
           LET t == conn[c].buf[i] IN t.kind = "byte" /\ t.n = conn[c].cur /\ t.val = i

\* Requests the server should answer, all of them: none asks to close but the
\* last.  After a chunked one the CR LF behind the last chunk may be taken for
\* the start of the next head, so it has to be the last as well.
Plain(rs) ==
  \A n \in DOMAIN rs :
    /\ rs[n].method = "GET" /\ rs[n].framing # "broken"
    /\ rs[n].framing = "chunked" => ~KeepsAlive(rs[n])
    /\ n < Len(rs) => KeepsAlive(rs[n])

\* A connection that ends, not by a timer and not because the client left, has
\* answered everything it was asked, in order, each with its own answer.
NothingLost ==
  \A c \in Conns :
    LET rs == plan[c].requests
    IN conn[c].state = "gone" /\ ~conn[c].shut /\ ~left[c] /\ plan[c].patient /\ Plain(rs) =>
         got[c] = [n \in 1 .. Asked(rs, toSend[c]) |-> [n |-> n, answer |-> Answer(rs[n])]]

\* No client can hold a connection by silence: a timer runs, or has gone off, or
\* the connection is closed already.
AlwaysTimed ==
  \A c \in Conns :
    conn[c].op # "none" => conn[c].timer # "off" \/ conn[c].expired # {} \/ conn[c].shut

\* Once it has started, the server goes on, whatever clients do with their
\* connections, unless one sends chunks or asks for a place without nodes.
StaysUp ==
  running = "ended" =>
    \/ \A c \in Conns : conn[c].state = "unaccepted"
    \/ \E c \in Conns : \E n \in DOMAIN plan[c].requests :
         LET r == plan[c].requests[n] IN r.framing = "chunked" \/ r.query = "nowhere"

\* Every connection is given back in the end, also if its client never sends
\* anything, stops in the middle or never goes away.
ConnectionsEnd ==
  \A c \in Conns :
    conn[c].state = "open" ~> conn[c].state = "gone" \/ running = "ended"
=============================================================================
