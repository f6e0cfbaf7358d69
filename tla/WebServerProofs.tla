-------------------------- MODULE WebServerProofs --------------------------
(***************************************************************************)
(* For any number of connections and whatever their clients ask, however   *)
(* the stream is cut and whenever timers go off: the server holds a        *)
(* connection exactly as long as something is under way on it, no client   *)
(* can keep one by silence, what is answered is the whole of a request and *)
(* nothing of the next one, and everything is answered, in order.          *)
(*                                                                         *)
(* The invariant follows the stream: what the server has read, what has    *)
(* arrived and the next token to send are consecutive tokens of what the   *)
(* client sends (Chain), and the first of them is the one that belongs     *)
(* behind what is in the buffer (Place).                                   *)
(***************************************************************************)
EXTENDS WebServer, SequenceTheorems, WellFoundedInduction, TLAPS

\* The library's well-founded induction, for a set of numbers.
LEMMA Induction ==
  ASSUME NEW S, 0 \in S, \A n \in Nat : n \in S => n + 1 \in S
  PROVE  Nat \subseteq S
<1> SUFFICES ASSUME Nat \ S # {} PROVE FALSE
  OBVIOUS
<1> DEFINE R == {p \in Nat \X Nat : p[1] < p[2]}
<1>1. IsWellFoundedOn(R, Nat)
  BY NatLessThanWellFounded DEF OpToRel
<1>2. PICK x \in Nat \ S : \A y \in Nat \ S : ~ (<<y, x>> \in R)
  BY <1>1, WFMin
<1>3. x # 0 /\ x - 1 \in Nat /\ x - 1 + 1 = x /\ x - 1 < x
  BY <1>2
<1>4. <<x - 1, x>> \in R
  BY <1>3
<1> HIDE DEF R
<1>5. x - 1 \in S
  BY <1>2, <1>3, <1>4
<1> QED BY <1>2, <1>3, <1>5

Ops == {"none", "head", "content", "size", "data", "end", "write"}

\* A record with the fields of a connection; only some have a type that matters.
IsConnection(k) ==
  k \in [state : {k.state}, op : {k.op}, done : {k.done}, need : {k.need}, buf : {k.buf},
         chunks : {k.chunks}, cur : {k.cur}, shut : {k.shut}, timer : {k.timer},
         expired : {k.expired}]

\* A connection is held exactly while a read or a write is under way.
Held(k) ==
  /\ k.state \in {"unaccepted", "open", "gone"} /\ k.op \in Ops
  /\ k.state = "open" <=> k.op # "none"

Timed(k) == k.op # "none" => k.timer # "off" \/ k.expired # {} \/ k.shut

Good(k) == IsConnection(k) /\ Held(k) /\ Timed(k)

\* The connections of the server, one for each of Conns.
Inv == conn = [c \in Conns |-> conn[c]] /\ \A c \in Conns : Good(conn[c])

LEMMA UnacceptedGood == Good(Unaccepted)
BY DEF Unaccepted, Good, IsConnection, Held, Timed, Ops

LEMMA DropGood == ASSUME NEW k PROVE Good(Drop(k))
BY DEF Drop, Unaccepted, Good, IsConnection, Held, Timed, Ops

\* A new session starts the timer, so it needs nothing of the one before.
LEMMA ReadGood ==
  ASSUME NEW k, IsConnection(k), k.state = "open"
  PROVE  Good(Read(k))
BY DEF Read, Start, SetTimeout, Good, IsConnection, Held, Timed, Ops

\* The next operation of a session runs on the timer of the one before.
LEMMA StartGood ==
  ASSUME NEW k, Good(k), k.state = "open", NEW op \in Ops \ {"none"}, NEW need
  PROVE  Good(Start(k, op, need))
BY DEF Start, Good, IsConnection, Held, Timed

LEMMA CloseGood == ASSUME NEW k, Good(k) PROVE Good(Close(k))
BY DEF Close, Good, IsConnection, Held, Timed

LEMMA FindResourceGood ==
  ASSUME NEW k, NEW r, Good(k), k.state = "open"
  PROVE  Good(FindResource(k, r))
BY StartGood, DropGood DEF FindResource, Ops

LEMMA DispatchHeadGood ==
  ASSUME NEW k, NEW r, Good(k), k.state = "open"
  PROVE  Good(DispatchHead(k, r))
<1> DEFINE j(b, m) == [SetTimeout(k, "content") EXCEPT !.buf = b, !.cur = m]
           i(b, m, s) == [j(b, m) EXCEPT !.buf = << >>, !.chunks = s]
<1>1. ASSUME NEW b, NEW m PROVE Good(j(b, m)) /\ j(b, m).state = "open"
  BY DEF SetTimeout, Good, IsConnection, Held, Timed
<1>2. ASSUME NEW b, NEW m, NEW s PROVE Good(i(b, m, s)) /\ i(b, m, s).state = "open"
  BY DEF SetTimeout, Good, IsConnection, Held, Timed
<1> HIDE DEF i, j
<1>3. ASSUME NEW b, NEW m, NEW s, NEW n
      PROVE  /\ Good(Start(j(b, m), "content", n)) /\ Good(Start(i(b, m, s), "size", 0))
             /\ Good(FindResource(j(b, m), r))
  BY <1>1, <1>2, StartGood, FindResourceGood DEF Ops
<1> DEFINE rest == Tail(k.buf)
           J == j(rest, k.buf[1].n)
           I == i(rest, k.buf[1].n, rest)
<1>4. \/ DispatchHead(k, r) = Drop(k) \/ DispatchHead(k, r) = Start(J, "content", ContentLength(r) - Len(rest))
      \/ DispatchHead(k, r) = Start(I, "size", 0) \/ DispatchHead(k, r) = FindResource(J, r)
  BY DEF DispatchHead, i, j
<1> QED BY <1>3, <1>4, DropGood

LEMMA NextChunkGood ==
  ASSUME NEW k, NEW r, Good(k), k.state = "open"
  PROVE  Good(NextChunk(k, r))
<1> DEFINE j(b, s) == [k EXCEPT !.buf = b, !.chunks = s]
<1>1. ASSUME NEW b, NEW s
      PROVE /\ Good(j(b, s)) /\ j(b, s).state = "open"
            /\ \A t : [j(b, s) EXCEPT !.chunks = t] = j(b, t)
  BY DEF Good, IsConnection, Held, Timed
<1> HIDE DEF j
<1>2. ASSUME NEW b, NEW s, NEW n
      PROVE  /\ Good(Start(j(b, s), "data", n)) /\ Good(Start(j(b, s), "end", n))
             /\ Good(Start(j(b, s), "size", 0))
  BY <1>1, StartGood DEF Ops
<1> DEFINE size == k.chunks[1].val
           rest == Tail(k.chunks)
           moved == IF size < Len(rest) THEN size ELSE Len(rest)
           B == k.buf \o SubSeq(rest, 1, moved)
           S == SubSeq(rest, moved + 1, Len(rest))
           T == SubSeq(j(B, S).chunks, 3, Len(j(B, S).chunks))
<1>3. [j(B, S) EXCEPT !.chunks = T] = j(B, T)
  BY <1>1
<1>4. [j(B, S) EXCEPT !.chunks = << >>] = j(B, << >>)
  BY <1>1
<1>5. \/ NextChunk(k, r) = Drop(k) \/ NextChunk(k, r) = FindResource(k, r)
      \/ NextChunk(k, r) = Start(j(B, S), "data", size - Len(rest))
      \/ NextChunk(k, r) = Start([j(B, S) EXCEPT !.chunks = << >>], "end", size + 2 - Len(rest))
      \/ NextChunk(k, r) = Start([j(B, S) EXCEPT !.chunks = T], "size", 0)
  BY DEF NextChunk, j
<1> HIDE DEF size, rest, moved, B, S
<1>6. CASE NextChunk(k, r) = Drop(k) \/ NextChunk(k, r) = FindResource(k, r)
  BY <1>6, DropGood, FindResourceGood
<1>7. CASE NextChunk(k, r) = Start(j(B, S), "data", size - Len(rest))
  BY <1>2, <1>7
<1>8. CASE NextChunk(k, r) = Start([j(B, S) EXCEPT !.chunks = << >>], "end", size + 2 - Len(rest))
  BY <1>2, <1>4, <1>8
<1>9. CASE NextChunk(k, r) = Start([j(B, S) EXCEPT !.chunks = T], "size", 0)
  <2> HIDE DEF T
  <2> QED BY <1>2, <1>3, <1>9
<1> QED BY <1>5, <1>6, <1>7, <1>8, <1>9

LEMMA AnsweredGood ==
  ASSUME NEW k, NEW r, Good(k), k.state = "open"
  PROVE  Good(Answered(k, r))
<1>1. IsConnection(CancelTimeout(k)) /\ CancelTimeout(k).state = "open"
  BY DEF CancelTimeout, Good, IsConnection
<1> QED BY <1>1, ReadGood, DropGood DEF Answered

\* Every step of the server on connection c leaves it good, and the others alone.
LEMMA UpdateInv ==
  ASSUME Inv, NEW c \in Conns, NEW k, Good(k), conn' = [conn EXCEPT ![c] = k]
  PROVE  Inv'
BY DEF Inv

LEMMA InitInv == Init => Inv
BY UnacceptedGood DEF Init, Inv

LEMMA CompletesInv ==
  ASSUME Inv, NEW c \in Conns, Completes(c)
  PROVE  Inv'
<1> DEFINE k == conn[c]
           read(s) == [k EXCEPT !.buf = s, !.done = "ok"]
           line(s) == [k EXCEPT !.chunks = s, !.done = "ok"]
           got1(s) == [k EXCEPT !.done = "ok", !.buf = s]
           ended(s) == [k EXCEPT !.done = s]
<1>1. Good(k) /\ DOMAIN conn = Conns
  BY DEF Inv
<1>2. ASSUME NEW s
      PROVE Good(read(s)) /\ Good(line(s)) /\ Good(got1(s)) /\ Good(ended(s))
  BY <1>1 DEF Good, IsConnection, Held, Timed
<1>3. CASE HeadArrives(c)
  <2>1. \E s : conn' = [conn EXCEPT ![c] = read(s)]
    BY <1>3, <1>1 DEF HeadArrives
  <2> QED BY <2>1, <1>2, UpdateInv
<1>4. CASE LineArrives(c)
  <2>1. \E s : conn' = [conn EXCEPT ![c] = line(s)]
    BY <1>4, <1>1 DEF LineArrives
  <2> QED BY <2>1, <1>2, UpdateInv
<1>5. CASE BytesArrive(c)
  <2>1. \E s : conn' = [conn EXCEPT ![c] = got1(s)]
    BY <1>5, <1>1 DEF BytesArrive
  <2> QED BY <2>1, <1>2, UpdateInv
<1>6. CASE ResponseGoes(c)
  <2>1. conn' = [conn EXCEPT ![c] = ended("ok")]
    BY <1>6, <1>1 DEF ResponseGoes
  <2> QED BY <2>1, <1>2, UpdateInv
<1>7. CASE Breaks(c)
  <2>1. conn' = [conn EXCEPT ![c] = ended("error")]
    BY <1>7, <1>1 DEF Breaks
  <2> QED BY <2>1, <1>2, UpdateInv
<1> QED BY <1>3, <1>4, <1>5, <1>6, <1>7 DEF Completes

LEMMA HandlesInv ==
  ASSUME Inv, NEW c \in Conns, Handles(c)
  PROVE  Inv'
<1> DEFINE k == conn[c]
<1>1. Good(k)
  BY DEF Inv
<1>2. ASSUME NEW op \in Ops \ {"none"}, Queued(c, op) PROVE k.state = "open"
  BY <1>1, <1>2 DEF Queued, Good, Held
<1>3. ASSUME NEW j, Resume(c, j), Good(j) PROVE Inv'
  BY <1>3, UpdateInv DEF Resume
<1>4. CASE HeadRead(c)
  <2> DEFINE first == k.buf[1]
  <2>1. \/ Resume(c, DispatchHead(k, plan[c].requests[first.n]))
        \/ Resume(c, Drop(k))
    BY <1>4 DEF HeadRead
  <2> QED BY <1>1, <1>2, <1>3, <1>4, <2>1, DispatchHeadGood, DropGood DEF HeadRead, Ops
<1>5. CASE ContentRead(c)
  BY <1>1, <1>2, <1>3, <1>5, FindResourceGood DEF ContentRead, Ops
<1>6. CASE SizeRead(c)
  BY <1>1, <1>2, <1>3, <1>6, NextChunkGood DEF SizeRead, Ops
<1>7. CASE DataRead(c)
  BY <1>1, <1>2, <1>3, <1>7, StartGood DEF DataRead, Ops
<1>8. CASE EndRead(c)
  BY <1>1, <1>2, <1>3, <1>8, StartGood DEF EndRead, Ops
<1>9. CASE Written(c)
  BY <1>1, <1>2, <1>3, <1>9, AnsweredGood DEF Written, Ops
<1>10. CASE Failed(c)
  BY <1>10, DropGood, UpdateInv DEF Failed, Inv
<1> QED BY <1>4, <1>5, <1>6, <1>7, <1>8, <1>9, <1>10 DEF Handles

\* A timer that goes off leaves a handler behind, and that handler closes.
LEMMA TimersInv ==
  ASSUME Inv, NEW c \in Conns, Expire(c) \/ TimedOut(c)
  PROVE  Inv'
<1> DEFINE k == conn[c]
<1>1. Good(k) /\ DOMAIN conn = Conns
  BY DEF Inv
<1>2. CASE Expire(c)
  <2> DEFINE j == [k EXCEPT !.timer = "off", !.expired = k.expired \cup {k.timer}]
  <2>1. conn' = [conn EXCEPT ![c] = j]
    BY <1>1, <1>2 DEF Expire
  <2>2. Good(j)
    BY <1>1 DEF Good, IsConnection, Held, Timed
  <2> QED BY <2>1, <2>2, UpdateInv
<1>3. CASE TimedOut(c)
  <2>1. PICK t : conn' = [conn EXCEPT ![c] = [Close(k) EXCEPT !.expired = Close(k).expired \ {t}]]
    BY <1>3 DEF TimedOut
  <2>2. Good(Close(k)) /\ Close(k).shut
    BY <1>1, CloseGood DEF Close, Good, IsConnection
  <2> DEFINE i == Close(k)
             j == [i EXCEPT !.expired = i.expired \ {t}]
  <2> HIDE DEF i
  <2>3. Good(i) /\ i.shut
    BY <2>2 DEF i
  <2>4. Good(j)
    BY <2>3 DEF Good, IsConnection, Held, Timed
  <2>5. conn' = [conn EXCEPT ![c] = j]
    BY <2>1 DEF i
  <2> QED BY <2>4, <2>5, UpdateInv
<1> QED BY <1>2, <1>3

LEMMA StepInv == Inv /\ [Next]_vars => Inv'
<1> SUFFICES ASSUME Inv, [Next]_vars PROVE Inv'
  OBVIOUS
<1>1. CASE StartServer \/ UNCHANGED vars
  BY <1>1 DEF StartServer, vars, Inv
<1>2. ASSUME NEW c \in Conns, ClientSend(c) \/ ClientLeave(c) PROVE Inv'
  BY <1>2 DEF ClientSend, ClientLeave, Inv
<1>3. ASSUME NEW c \in Conns, Accept(c) PROVE Inv'
  <2> DEFINE k == [Unaccepted EXCEPT !.state = "open"]
  <2>1. IsConnection(k) /\ k.state = "open"
    BY DEF Unaccepted, IsConnection
  <2> HIDE DEF k
  <2>2. conn' = [conn EXCEPT ![c] = Read(k)]
    BY <1>3 DEF Accept, k
  <2> QED BY <2>1, <2>2, ReadGood, UpdateInv
<1> QED BY <1>1, <1>2, <1>3, CompletesInv, HandlesInv, TimersInv DEF Next

\* A connection without a read or write under way is not held, and one with it
\* always has a timer that will end it: running, gone off with its handler still
\* to come, or over with the connection closed (set_timeout, cancel_timeout and
\* close of server_http.hpp:315-345 at every place where they are called).
THEOREM NoSilentHold == Spec => [](AlwaysTimed /\ \A c \in Conns : Held(conn[c]))
<1>1. Inv => AlwaysTimed /\ \A c \in Conns : Held(conn[c])
  BY DEF Inv, Good, Timed, AlwaysTimed
<1> QED BY InitInv, StepInv, <1>1, PTL DEF Spec
-----------------------------------------------------------------------------
\* The tokens of the requests rs.
Kinds == {"head", "size", "byte", "cr", "lf"}
Tokens(rs) ==
  {t \in [kind : Kinds, n : Nat, part : Nat, val : Nat] :
     /\ t.n \in DOMAIN rs
     /\ t.kind = "head" => t = HeadOf(rs, t.n)
     /\ t.kind = "size" => t = SizeLine(rs[t.n], t.n, t.part)
     /\ t.kind \in {"size", "cr", "lf"} =>
          rs[t.n].framing = "chunked" /\ t.part \in 1 .. Len(rs[t.n].ends) + 1
     /\ t.kind = "byte" =>
          /\ rs[t.n].framing \in {"length", "chunked"} /\ t.part \in DOMAIN rs[t.n].ends
          /\ Begins(rs[t.n], t.part) < t.val /\ t.val <= Ends(rs[t.n], t.part)}

LEMMA RequestFacts ==
  ASSUME NEW r \in Requests, NEW part \in 1 .. Len(r.ends) + 1
  PROVE  /\ r.ends \in Seq(Nat) /\ DOMAIN r.ends = 1 .. Len(r.ends) /\ Len(r.ends) \in Nat
         /\ Begins(r, part) \in Nat /\ Ends(r, part) \in Nat
         /\ part \in DOMAIN r.ends => Begins(r, part + 1) = Ends(r, part)
         /\ part = Len(r.ends) + 1 => Ends(r, part) = Begins(r, part)
         /\ part \in DOMAIN r.ends /\ r.framing = "chunked" => Begins(r, part) < Ends(r, part)
         /\ Begins(r, part) <= Ends(r, part)
         /\ Begins(r, 1) = 0 /\ ContentLength(r) \in Nat
         /\ r.framing = "length" => Len(r.ends) = 1 /\ ContentLength(r) = Ends(r, 1)
         /\ r.framing \in {"none", "broken"} => r.ends = << >>
<1> DEFINE s == r.ends
<1>1. s \in Seq(Nat) /\ r.framing \in {"none", "length", "chunked", "broken"}
  BY DEF Requests
<1>2. r.framing = "length" => Len(s) = 1
  BY DEF Requests
<1>3. r.framing = "chunked" => Increasing(<<0>> \o s)
  BY DEF Requests
<1>4. r.framing \in {"none", "broken"} => s = << >>
  BY DEF Requests
<1> HIDE DEF s
<1>5. Len(s) \in Nat /\ DOMAIN s = 1 .. Len(s) /\ \A i \in 1 .. Len(s) : s[i] \in Nat
  BY <1>1
<1>6. \A i \in 1 .. Len(s) + 1 : Begins(r, i) = IF i = 1 THEN 0 ELSE s[i - 1]
  BY <1>5 DEF Begins, s
<1>7. \A i \in 1 .. Len(s) + 1 : Ends(r, i) = IF i <= Len(s) THEN s[i] ELSE Begins(r, i)
  BY <1>5 DEF Ends, s
<1>8. ASSUME r.framing = "chunked", NEW i \in 1 .. Len(s)
      PROVE  Begins(r, i) < Ends(r, i)
  <2> DEFINE q == <<0>> \o s
  <2>1. q \in Seq(Nat) /\ Len(q) = Len(s) + 1 /\ q[1] = 0 /\ \A j \in 1 .. Len(s) : q[j + 1] = s[j]
    BY <1>1, <1>5
  <2>2. \A j, k \in DOMAIN q : j < k => q[j] < q[k]
    BY <1>3, <1>8 DEF Increasing
  <2> HIDE DEF q
  <2>3. DOMAIN q = 1 .. Len(s) + 1
    BY <2>1
  <2>4. q[i] < q[i + 1]
    BY <2>2, <2>3, <1>5
  <2>5. q[i + 1] = s[i] /\ (i # 1 => q[i] = s[i - 1])
    BY <2>1, <1>5
  <2> QED BY <2>1, <2>4, <2>5, <1>6, <1>7, <1>5
<1>9. ContentLength(r) = Begins(r, Len(s) + 1)
  BY DEF ContentLength, s
<1>10. part \in 1 .. Len(s) + 1
  BY DEF s
<1>11. Begins(r, part) \in Nat /\ Ends(r, part) \in Nat /\ ContentLength(r) \in Nat
  BY <1>5, <1>6, <1>7, <1>9, <1>10
<1>12. part \in 1 .. Len(s) => Begins(r, part + 1) = Ends(r, part)
  BY <1>5, <1>6, <1>7
<1>13. part = Len(s) + 1 => Ends(r, part) = Begins(r, part)
  BY <1>5, <1>7
<1>14. Begins(r, part) <= Ends(r, part)
  <2>1. CASE part = Len(s) + 1
    BY <2>1, <1>11, <1>13
  <2>2. CASE part \in 1 .. Len(s) /\ r.framing = "chunked"
    BY <2>2, <1>8, <1>11
  <2>3. CASE part \in 1 .. Len(s) /\ r.framing = "length"
    <3>1. part = 1 /\ Begins(r, 1) = 0
      BY <2>3, <1>2, <1>5, <1>6
    <3> QED BY <3>1, <1>11
  <2>4. CASE part \in 1 .. Len(s) /\ r.framing \in {"none", "broken"}
    BY <2>4, <1>4, <1>5
  <2> QED BY <2>1, <2>2, <2>3, <2>4, <1>1, <1>5, <1>10
<1>15. Begins(r, 1) = 0
  BY <1>5, <1>6
<1>16. r.framing = "length" => ContentLength(r) = Ends(r, 1)
  BY <1>2, <1>5, <1>6, <1>7, <1>9
<1> QED BY <1>1, <1>2, <1>4, <1>5, <1>8, <1>11, <1>12, <1>13, <1>14, <1>15, <1>16 DEF s

\* What a client sends next, token by token.
LEMMA AfterFacts ==
  ASSUME NEW rs \in Seq(Requests), NEW t \in Tokens(rs)
  PROVE  LET r == rs[t.n]
         IN /\ t.kind = "head" /\ r.framing = "chunked" => After(rs, t) = SizeLine(r, t.n, 1)
            /\ t.kind = "head" /\ r.framing # "chunked" =>
                 After(rs, t) = IF 0 < ContentLength(r) THEN Token("byte", t.n, 1, 1)
                                ELSE HeadOf(rs, t.n + 1)
            /\ t.kind = "size" =>
                 After(rs, t) = IF t.val > 0 THEN Token("byte", t.n, t.part, Begins(r, t.part) + 1)
                                ELSE Token("cr", t.n, t.part, 0)
            /\ t.kind = "byte" =>
                 After(rs, t) = IF t.val < Ends(r, t.part) THEN Token("byte", t.n, t.part, t.val + 1)
                                ELSE IF r.framing = "chunked" THEN Token("cr", t.n, t.part, 0)
                                ELSE HeadOf(rs, t.n + 1)
            /\ t.kind = "cr" => After(rs, t) = Token("lf", t.n, t.part, 0)
            /\ t.kind = "lf" =>
                 After(rs, t) = IF t.part \in DOMAIN r.ends THEN SizeLine(r, t.n, t.part + 1)
                                ELSE HeadOf(rs, t.n + 1)
<1> DEFINE r == rs[t.n]
<1>1. r \in Requests /\ t.n \in Nat /\ t.part \in Nat /\ t.val \in Nat /\ t.n \in DOMAIN rs
  BY DEF Tokens
<1>2. CASE t.kind = "head"
  <2>1. t.part = 1
    BY <1>1, <1>2 DEF Tokens, HeadOf, Token
  <2>2. /\ Begins(r, 1) = 0 /\ ContentLength(r) \in Nat
        /\ r.framing # "chunked" => Ends(r, 1) = ContentLength(r)
    <3>1. 1 \in 1 .. Len(r.ends) + 1
      BY <1>1 DEF Requests
    <3>2. /\ Begins(r, 1) = 0 /\ ContentLength(r) \in Nat
          /\ r.framing = "length" => Ends(r, 1) = ContentLength(r)
          /\ 1 = Len(r.ends) + 1 => Ends(r, 1) = Begins(r, 1)
          /\ r.framing \in {"none", "broken"} => r.ends = << >>
      BY <1>1, <3>1, RequestFacts
    <3>3. r.framing \in {"none", "length", "chunked", "broken"}
      BY <1>1 DEF Requests
    <3>4. r.framing \in {"none", "broken"} => Ends(r, 1) = ContentLength(r)
      BY <3>2 DEF ContentLength
    <3> QED BY <3>2, <3>3, <3>4
  <2> QED BY <1>2, <2>1, <2>2 DEF After, Token
<1>3. CASE t.kind = "size"
  <2>1. /\ t.val = Ends(r, t.part) - Begins(r, t.part) /\ r.framing = "chunked"
        /\ t.part \in 1 .. Len(r.ends) + 1
    BY <1>3 DEF Tokens, SizeLine, Token
  <2>2. Begins(r, t.part) \in Nat /\ Ends(r, t.part) \in Nat
    BY <1>1, <2>1, RequestFacts
  <2>3. t.val > 0 <=> Begins(r, t.part) < Ends(r, t.part)
    BY <2>1, <2>2
  <2> QED BY <1>3, <2>1, <2>3 DEF After
<1>4. CASE t.kind \in {"byte", "cr", "lf"}
  BY <1>4 DEF After
<1> QED BY <1>2, <1>3, <1>4 DEF Tokens, Kinds

LEMMA HeadOfFacts ==
  ASSUME NEW rs \in Seq(Requests), NEW n \in Nat
  PROVE  /\ n \in DOMAIN rs => HeadOf(rs, n) \in Tokens(rs) /\ HeadOf(rs, n).kind = "head" /\ HeadOf(rs, n).n = n
         /\ n \notin DOMAIN rs => HeadOf(rs, n) = NoToken /\ NoToken.kind = "none"
BY DEF HeadOf, Tokens, Kinds, Token, NoToken

LEMMA SizeLineFacts ==
  ASSUME NEW rs \in Seq(Requests), NEW n \in DOMAIN rs, rs[n].framing = "chunked",
         NEW part \in 1 .. Len(rs[n].ends) + 1
  PROVE  /\ SizeLine(rs[n], n, part) \in Tokens(rs) /\ SizeLine(rs[n], n, part).kind = "size"
         /\ SizeLine(rs[n], n, part).n = n /\ SizeLine(rs[n], n, part).part = part
<1>1. rs[n] \in Requests /\ n \in Nat /\ Len(rs[n].ends) \in Nat
  BY DEF Requests
<1>2. /\ Begins(rs[n], part) \in Nat /\ Ends(rs[n], part) \in Nat
      /\ Begins(rs[n], part) <= Ends(rs[n], part)
  BY <1>1, RequestFacts
<1>3. Ends(rs[n], part) - Begins(rs[n], part) \in Nat /\ part \in Nat
  BY <1>1, <1>2
<1> QED BY <1>1, <1>3 DEF SizeLine, Tokens, Kinds, Token

LEMMA AfterType ==
  ASSUME NEW rs \in Seq(Requests), NEW t \in Tokens(rs)
  PROVE  /\ After(rs, t) \in Tokens(rs) \cup {NoToken}
         /\ After(rs, t).kind \notin {"head", "none"} => After(rs, t).n = t.n
         /\ After(rs, t).kind = "head" => After(rs, t).n = t.n + 1
         /\ After(rs, t).kind = "none" => t.n = Len(rs)
<1> DEFINE r == rs[t.n]
           Result(u) == /\ u \in Tokens(rs) \cup {NoToken}
                        /\ u.kind \notin {"head", "none"} => u.n = t.n
                        /\ u.kind = "head" => u.n = t.n + 1
                        /\ u.kind = "none" => t.n = Len(rs)
<1>1. r \in Requests /\ t.n \in Nat /\ t.part \in Nat /\ t.val \in Nat /\ t.n \in DOMAIN rs
      /\ Len(r.ends) \in Nat /\ t.kind \in Kinds /\ DOMAIN rs = 1 .. Len(rs) /\ Len(rs) \in Nat
  BY DEF Tokens, Requests
<1>2. Result(HeadOf(rs, t.n + 1))
  BY <1>1, HeadOfFacts
<1>3. ASSUME r.framing = "chunked", NEW part \in 1 .. Len(r.ends) + 1
      PROVE  Result(SizeLine(r, t.n, part)) /\ Result(Token("cr", t.n, part, 0))
             /\ Result(Token("lf", t.n, part, 0))
  <2>1. Result(SizeLine(r, t.n, part))
    BY <1>1, <1>3, SizeLineFacts
  <2>2. part \in Nat
    BY <1>1
  <2> QED BY <1>1, <1>3, <2>1, <2>2 DEF Tokens, Kinds, Token
<1>4. ASSUME r.framing \in {"length", "chunked"}, NEW part \in DOMAIN r.ends, NEW i \in Nat,
             Begins(r, part) < i, i <= Ends(r, part)
      PROVE  Result(Token("byte", t.n, part, i))
  <2>1. part \in Nat
    BY <1>1 DEF Requests
  <2> QED BY <1>1, <1>4, <2>1 DEF Tokens, Kinds, Token
<1> HIDE DEF Result
<1>5. CASE t.kind = "head" /\ r.framing = "chunked"
  <2>1. After(rs, t) = SizeLine(r, t.n, 1)
    BY <1>5, AfterFacts
  <2> QED BY <1>1, <1>3, <1>5, <2>1 DEF Result
<1>6. CASE t.kind = "head" /\ r.framing # "chunked"
  <2>1. CASE 0 < ContentLength(r)
    <3>1. After(rs, t) = Token("byte", t.n, 1, 1)
      BY <1>6, <2>1, AfterFacts
    <3>2. 1 \in 1 .. Len(r.ends) + 1
      BY <1>1
    <3>3. /\ r.framing = "length" => Len(r.ends) = 1 /\ ContentLength(r) = Ends(r, 1)
          /\ r.framing \in {"none", "broken"} => r.ends = << >>
          /\ Begins(r, 1) = 0 /\ Ends(r, 1) \in Nat /\ DOMAIN r.ends = 1 .. Len(r.ends)
      BY <1>1, <3>2, RequestFacts
    <3>4. r.framing \in {"none", "length", "broken"}
      BY <1>1, <1>6 DEF Requests
    <3>5. r.framing = "length"
      <4>1. r.ends = << >> => ContentLength(r) = 0
        BY DEF ContentLength, Begins
      <4> QED BY <2>1, <3>3, <3>4, <4>1
    <3>6. 1 \in Nat /\ Begins(r, 1) < 1 /\ 1 <= Ends(r, 1) /\ 1 \in DOMAIN r.ends
      <4>1. ContentLength(r) = Ends(r, 1) /\ Len(r.ends) = 1
        BY <3>3, <3>5
      <4> QED BY <2>1, <3>3, <4>1
    <3>7. Result(Token("byte", t.n, 1, 1))
      BY <1>4, <3>5, <3>6
    <3> QED BY <3>1, <3>7 DEF Result
  <2>2. CASE ~(0 < ContentLength(r))
    <3>1. After(rs, t) = HeadOf(rs, t.n + 1)
      BY <1>6, <2>2, AfterFacts
    <3> QED BY <1>2, <3>1 DEF Result
  <2> QED BY <2>1, <2>2
<1>7. CASE t.kind \in {"size", "cr", "lf"}
  <2>1. r.framing = "chunked" /\ t.part \in 1 .. Len(r.ends) + 1 /\ DOMAIN r.ends = 1 .. Len(r.ends)
    BY <1>1, <1>7 DEF Tokens, Requests
  <2>2. CASE t.kind = "size" /\ t.val > 0
    <3>1. After(rs, t) = Token("byte", t.n, t.part, Begins(r, t.part) + 1)
      BY <2>2, AfterFacts
    <3>2. t.val = Ends(r, t.part) - Begins(r, t.part)
      BY <2>2 DEF Tokens, SizeLine, Token
    <3>3. /\ Begins(r, t.part) \in Nat /\ Ends(r, t.part) \in Nat
          /\ t.part = Len(r.ends) + 1 => Ends(r, t.part) = Begins(r, t.part)
      BY <1>1, <2>1, RequestFacts
    <3>4. t.part \in DOMAIN r.ends
      BY <1>1, <2>1, <2>2, <3>2, <3>3
    <3>5. Result(Token("byte", t.n, t.part, Begins(r, t.part) + 1))
      BY <1>4, <2>1, <2>2, <3>2, <3>3, <3>4
    <3> QED BY <3>1, <3>5 DEF Result
  <2>3. CASE t.kind = "size" /\ ~(t.val > 0)
    <3>1. After(rs, t) = Token("cr", t.n, t.part, 0)
      BY <2>3, AfterFacts
    <3> QED BY <1>3, <2>1, <3>1 DEF Result
  <2>4. CASE t.kind = "cr"
    <3>1. After(rs, t) = Token("lf", t.n, t.part, 0)
      BY <2>4, AfterFacts
    <3> QED BY <1>3, <2>1, <3>1 DEF Result
  <2>5. CASE t.kind = "lf" /\ t.part \in DOMAIN r.ends
    <3>1. After(rs, t) = SizeLine(r, t.n, t.part + 1)
      BY <2>5, AfterFacts
    <3>2. t.part + 1 \in 1 .. Len(r.ends) + 1
      BY <1>1, <2>1, <2>5
    <3> QED BY <1>3, <2>1, <3>1, <3>2 DEF Result
  <2>6. CASE t.kind = "lf" /\ t.part \notin DOMAIN r.ends
    <3>1. After(rs, t) = HeadOf(rs, t.n + 1)
      BY <2>6, AfterFacts
    <3> QED BY <1>2, <3>1 DEF Result
  <2> QED BY <1>7, <2>2, <2>3, <2>4, <2>5, <2>6
<1>8. CASE t.kind = "byte"
  <2>1. /\ r.framing \in {"length", "chunked"} /\ t.part \in DOMAIN r.ends
        /\ Begins(r, t.part) < t.val /\ t.val <= Ends(r, t.part)
        /\ t.part \in 1 .. Len(r.ends) + 1
    BY <1>1, <1>8 DEF Tokens, Requests
  <2>2. Begins(r, t.part) \in Nat /\ Ends(r, t.part) \in Nat
    BY <1>1, <2>1, RequestFacts
  <2>3. CASE t.val < Ends(r, t.part)
    <3>1. After(rs, t) = Token("byte", t.n, t.part, t.val + 1)
      BY <1>8, <2>3, AfterFacts
    <3>2. Result(Token("byte", t.n, t.part, t.val + 1))
      BY <1>1, <1>4, <2>1, <2>2, <2>3
    <3> QED BY <3>1, <3>2 DEF Result
  <2>4. CASE ~(t.val < Ends(r, t.part)) /\ r.framing = "chunked"
    <3>1. After(rs, t) = Token("cr", t.n, t.part, 0)
      BY <1>8, <2>4, AfterFacts
    <3> QED BY <1>3, <2>1, <2>4, <3>1 DEF Result
  <2>5. CASE ~(t.val < Ends(r, t.part)) /\ r.framing # "chunked"
    <3>1. After(rs, t) = HeadOf(rs, t.n + 1)
      BY <1>8, <2>5, AfterFacts
    <3> QED BY <1>2, <3>1 DEF Result
  <2> QED BY <2>3, <2>4, <2>5
<1> QED BY <1>1, <1>5, <1>6, <1>7, <1>8 DEF Result, Kinds

-----------------------------------------------------------------------------
\* A stretch of what a client sends: every token is followed by the next.
Chain(rs, q) == \A i \in 1 .. Len(q) - 1 : q[i + 1] = After(rs, q[i])

\* v is what is left of u when its first j elements are taken.
IsRest(u, v, j) ==
  /\ j \in 0 .. Len(u) /\ Len(v) = Len(u) - j
  /\ \A i \in 1 .. Len(v) : v[i] = u[i + j]

Quiet(q) == \A i \in 1 .. Len(q) : q[i].kind # "head"

LEMMA AppendFacts ==
  ASSUME NEW T, NEW q \in Seq(T), NEW t
  PROVE  /\ Len(q) \in Nat /\ Len(Append(q, t)) = Len(q) + 1
         /\ \A i \in 1 .. Len(q) : Append(q, t)[i] = q[i] /\ q[i] \in T
         /\ Append(q, t)[Len(q) + 1] = t
OBVIOUS

LEMMA ConcatFacts ==
  ASSUME NEW T, NEW u \in Seq(T), NEW v \in Seq(T)
  PROVE  /\ u \o v \in Seq(T) /\ Len(u \o v) = Len(u) + Len(v) /\ Len(u) \in Nat /\ Len(v) \in Nat
         /\ \A i \in 1 .. Len(u) : (u \o v)[i] = u[i]
         /\ \A i \in 1 .. Len(v) : (u \o v)[Len(u) + i] = v[i]
OBVIOUS

LEMMA EmptyConcat ==
  ASSUME NEW T, NEW u \in Seq(T)
  PROVE  << >> \o u = u /\ u \o << >> = u
BY EmptySeq, ConcatEmptySeq

LEMMA PrefixFacts ==
  ASSUME NEW T, NEW u \in Seq(T), NEW m \in Nat, m <= Len(u)
  PROVE  /\ SubSeq(u, 1, m) \in Seq(T) /\ Len(SubSeq(u, 1, m)) = m
         /\ \A i \in 1 .. m : SubSeq(u, 1, m)[i] = u[i]
OBVIOUS

LEMMA SuffixFacts ==
  ASSUME NEW T, NEW u \in Seq(T), NEW m \in Nat, m <= Len(u)
  PROVE  SubSeq(u, m + 1, Len(u)) \in Seq(T) /\ IsRest(u, SubSeq(u, m + 1, Len(u)), m)
<1> DEFINE v == SubSeq(u, m + 1, Len(u))
<1>1. /\ v \in Seq(T) /\ Len(v) = Len(u) - m /\ Len(u) \in Nat
      /\ \A i \in 1 .. Len(u) - m : v[i] = u[i + m]
  OBVIOUS
<1> HIDE DEF v
<1>2. m \in 0 .. Len(u)
  BY <1>1
<1> QED BY <1>1, <1>2 DEF IsRest, v

LEMMA TailFacts ==
  ASSUME NEW T, NEW u \in Seq(T), u # << >>
  PROVE  /\ Tail(u) \in Seq(T) /\ Len(Tail(u)) = Len(u) - 1 /\ Len(u) \in Nat \ {0}
         /\ u[1] \in T /\ \A i \in 1 .. Len(u) - 1 : Tail(u)[i] = u[i + 1]
OBVIOUS

\* What is left of a chain is a chain.
LEMMA RestFacts ==
  ASSUME NEW T, NEW q \in Seq(T), NEW r \in Seq(T), NEW j \in Nat, IsRest(q, r, j), NEW t, NEW rs
  PROVE  /\ IsRest(Append(q, t), Append(r, t), j)
         /\ Append(r, t)[1] = Append(q, t)[j + 1]
         /\ Chain(rs, Append(q, t)) => Chain(rs, Append(r, t))
         /\ Quiet(q) => Quiet(r)
<1> DEFINE u == Append(q, t)
           v == Append(r, t)
<1>1. /\ Len(q) \in Nat /\ Len(r) \in Nat /\ Len(u) = Len(q) + 1 /\ Len(v) = Len(r) + 1
      /\ \A i \in 1 .. Len(q) : u[i] = q[i]
      /\ \A i \in 1 .. Len(r) : v[i] = r[i]
      /\ u[Len(q) + 1] = t /\ v[Len(r) + 1] = t
  BY AppendFacts
<1> HIDE DEF u, v
<1>2. j \in 0 .. Len(q) /\ Len(r) = Len(q) - j /\ \A i \in 1 .. Len(r) : r[i] = q[i + j]
  BY DEF IsRest
<1>3. ASSUME NEW i \in 1 .. Len(r) + 1 PROVE v[i] = u[i + j]
  <2>1. CASE i = Len(r) + 1
    BY <2>1, <1>1, <1>2
  <2>2. CASE i \in 1 .. Len(r)
    <3>1. i + j \in 1 .. Len(q) /\ v[i] = r[i] /\ r[i] = q[i + j]
      BY <2>2, <1>1, <1>2
    <3> QED BY <3>1, <1>1
  <2> QED BY <2>1, <2>2, <1>1
<1>4. IsRest(u, v, j)
  BY <1>1, <1>2, <1>3 DEF IsRest
<1>5. v[1] = u[j + 1]
  BY <1>1, <1>2, <1>3
<1>6. ASSUME Chain(rs, u) PROVE Chain(rs, v)
  <2> SUFFICES ASSUME NEW i \in 1 .. Len(v) - 1 PROVE v[i + 1] = After(rs, v[i])
    BY DEF Chain
  <2>1. i \in 1 .. Len(r) + 1 /\ i + 1 \in 1 .. Len(r) + 1 /\ i + j \in 1 .. Len(u) - 1
    BY <1>1, <1>2
  <2>2. v[i] = u[i + j] /\ v[i + 1] = u[(i + 1) + j]
    BY <2>1, <1>3
  <2>3. (i + 1) + j = (i + j) + 1
    BY <2>1, <1>2
  <2>4. u[(i + j) + 1] = After(rs, u[i + j])
    BY <2>1, <1>6 DEF Chain
  <2> QED BY <2>2, <2>3, <2>4
<1>7. Quiet(q) => Quiet(r)
  <2> SUFFICES ASSUME Quiet(q), NEW i \in 1 .. Len(r) PROVE r[i].kind # "head"
    BY DEF Quiet
  <2>1. r[i] = q[i + j] /\ i + j \in 1 .. Len(q)
    BY <1>1, <1>2
  <2> QED BY <2>1 DEF Quiet
<1> QED BY <1>4, <1>5, <1>6, <1>7 DEF u, v

\* What is left of the first part, with the second behind it.
LEMMA RestConcat ==
  ASSUME NEW T, NEW c \in Seq(T), NEW d \in Seq(T), NEW s \in Seq(T), NEW j \in Nat, IsRest(c, d, j)
  PROVE  d \o s \in Seq(T) /\ IsRest(c \o s, d \o s, j)
<1> DEFINE u == c \o s
           v == d \o s
<1>1. /\ Len(u) = Len(c) + Len(s) /\ Len(c) \in Nat /\ Len(s) \in Nat
      /\ \A x \in 1 .. Len(c) : u[x] = c[x]
      /\ \A x \in 1 .. Len(s) : u[Len(c) + x] = s[x]
  BY ConcatFacts
<1>2. /\ v \in Seq(T) /\ Len(v) = Len(d) + Len(s) /\ Len(d) \in Nat
      /\ \A x \in 1 .. Len(d) : v[x] = d[x]
      /\ \A x \in 1 .. Len(s) : v[Len(d) + x] = s[x]
  BY ConcatFacts
<1>3. j \in 0 .. Len(c) /\ Len(d) = Len(c) - j /\ \A x \in 1 .. Len(d) : d[x] = c[x + j]
  BY DEF IsRest
<1> HIDE DEF u, v
<1>4. ASSUME NEW x \in 1 .. Len(v) PROVE v[x] = u[x + j]
  <2>1. CASE x \in 1 .. Len(d)
    <3>1. x + j \in 1 .. Len(c)
      BY <2>1, <1>1, <1>2, <1>3
    <3> QED BY <2>1, <3>1, <1>1, <1>2, <1>3
  <2>2. CASE x \notin 1 .. Len(d)
    <3> DEFINE y == x - Len(d)
    <3>1. y \in 1 .. Len(s) /\ x = Len(d) + y /\ x + j = Len(c) + y
      BY <2>2, <1>1, <1>2, <1>3
    <3> HIDE DEF y
    <3>2. v[x] = s[y] /\ u[x + j] = s[y]
      BY <3>1, <1>1, <1>2
    <3> QED BY <3>2
  <2> QED BY <2>1, <2>2
<1>5. j \in 0 .. Len(u) /\ Len(v) = Len(u) - j
  BY <1>1, <1>2, <1>3
<1> QED BY <1>2, <1>4, <1>5 DEF IsRest, u, v

\* Nothing is left of the first part.
LEMMA RestAll ==
  ASSUME NEW T, NEW c \in Seq(T), NEW s \in Seq(T)
  PROVE  IsRest(c \o s, s, Len(c))
<1> DEFINE e == << >>
           n == Len(c)
<1>1. e \in Seq(T) /\ n \in Nat /\ IsRest(c, e, n) /\ e \o s = s
  BY EmptySeq, EmptyConcat DEF IsRest
<1> HIDE DEF e, n
<1>2. IsRest(c \o s, e \o s, n)
  BY <1>1, RestConcat
<1> QED BY <1>1, <1>2 DEF n

\* A chain that is in a chunk goes on with the bytes of that chunk.
LEMMA RunFacts ==
  ASSUME NEW rs \in Seq(Requests), NEW q \in Seq(Tokens(rs)), NEW t \in Tokens(rs) \cup {NoToken},
         Chain(rs, Append(q, t)), NEW a \in 1 .. Len(q) + 1, Append(q, t)[a].kind = "byte"
  PROVE  LET b == Append(q, t)[a]
             m == Ends(rs[b.n], b.part) - b.val
         IN /\ b \in Tokens(rs) /\ m \in Nat
            /\ \A i \in 0 .. m : a + i <= Len(q) + 1 =>
                 Append(q, t)[a + i] = Token("byte", b.n, b.part, b.val + i)
            /\ a + m + 1 <= Len(q) + 1 =>
                 Append(q, t)[a + m + 1] =
                   IF rs[b.n].framing = "chunked" THEN Token("cr", b.n, b.part, 0)
                   ELSE HeadOf(rs, b.n + 1)
<1> DEFINE S == Append(q, t)
           b == S[a]
           m == Ends(rs[b.n], b.part) - b.val
           B(i) == Token("byte", b.n, b.part, b.val + i)
<1>1. Len(q) \in Nat /\ Len(S) = Len(q) + 1 /\ S[Len(q) + 1] = t
      /\ \A i \in 1 .. Len(q) : S[i] \in Tokens(rs)
  BY AppendFacts
<1>2. \A i \in 1 .. Len(q) : S[i + 1] = After(rs, S[i])
  BY <1>1 DEF Chain
<1>3. b \in Tokens(rs)
  BY <1>1 DEF NoToken, Token
<1>4. b.kind = "byte"
  OBVIOUS
<1> HIDE DEF S
<1>5. /\ b.n \in DOMAIN rs /\ b.n \in Nat /\ b.part \in Nat /\ b.val \in Nat
      /\ rs[b.n].framing \in {"length", "chunked"} /\ b.part \in DOMAIN rs[b.n].ends
      /\ Begins(rs[b.n], b.part) < b.val /\ b.val <= Ends(rs[b.n], b.part)
      /\ b = Token("byte", b.n, b.part, b.val)
  BY <1>3, <1>4 DEF Tokens, Token
<1>6. Ends(rs[b.n], b.part) \in Nat /\ Begins(rs[b.n], b.part) \in Nat
  <2>1. rs[b.n] \in Requests
    BY <1>5
  <2>2. b.part \in 1 .. Len(rs[b.n].ends) + 1
    <3>1. rs[b.n].ends \in Seq(Nat)
      BY <2>1 DEF Requests
    <3>2. Len(rs[b.n].ends) \in Nat /\ DOMAIN rs[b.n].ends = 1 .. Len(rs[b.n].ends)
      BY <3>1
    <3>3. b.part \in DOMAIN rs[b.n].ends
      BY <1>5
    <3> QED BY <3>2, <3>3
  <2> QED BY <2>1, <2>2, RequestFacts
<1>7. m \in Nat
  <2>1. b.val \in Nat /\ b.val <= Ends(rs[b.n], b.part)
    BY <1>5
  <2>2. Ends(rs[b.n], b.part) \in Nat
    BY <1>6
  <2> QED BY <2>1, <2>2
<1> DEFINE n == b.n
           p == b.part
           x == b.val
           e == Ends(rs[n], p)
<1>8. ASSUME NEW i \in 0 .. m PROVE B(i) \in Tokens(rs)
  <2>1. x + i \in Nat /\ x + i <= e /\ Begins(rs[n], p) < x + i
    <3>1. x \in Nat /\ Begins(rs[n], p) < x /\ Begins(rs[n], p) \in Nat /\ e \in Nat /\ m = e - x
      BY <1>5, <1>6
    <3>2. i \in Nat /\ i <= m
      BY <1>7
    <3> HIDE DEF m, e, x
    <3> QED BY <3>1, <3>2
  <2> QED BY <2>1, <1>5 DEF Tokens, Token, Kinds
<1>9. ASSUME NEW i \in 0 .. m
      PROVE  After(rs, B(i)) = IF i < m THEN B(i + 1)
                               ELSE IF rs[n].framing = "chunked" THEN Token("cr", n, p, 0)
                               ELSE HeadOf(rs, n + 1)
  <2> DEFINE u == B(i)
  <2>1. u.kind = "byte" /\ u.n = n /\ u.part = p /\ u.val = x + i
    BY DEF Token
  <2>2. x + i < e <=> i < m
    <3>1. x \in Nat /\ e \in Nat /\ m = e - x /\ m \in Nat /\ i \in Int
      BY <1>5, <1>6, <1>7
    <3> HIDE DEF x, e, m
    <3> QED BY <3>1
  <2>3. (x + i) + 1 = x + (i + 1)
    <3>1. x \in Int /\ i \in Int
      BY <1>5, <1>7
    <3> HIDE DEF x, m
    <3> QED BY <3>1
  <2>4. u \in Tokens(rs)
    BY <1>8
  <2> HIDE DEF u
  <2>5. After(rs, u) = IF x + i < e THEN Token("byte", n, p, (x + i) + 1)
                       ELSE IF rs[n].framing = "chunked" THEN Token("cr", n, p, 0)
                       ELSE HeadOf(rs, n + 1)
    BY <2>1, <2>4, AfterFacts
  <2> QED BY <2>2, <2>3, <2>5 DEF u
<1> HIDE DEF m, B
<1>10. \A i \in 0 .. m : a + i <= Len(q) + 1 => S[a + i] = B(i)
  <2> DEFINE I == {i \in Nat : i <= m /\ a + i <= Len(q) + 1 => S[a + i] = B(i)}
  <2>1. 0 \in I
    BY <1>5 DEF B
  <2>2. ASSUME NEW i \in Nat, i \in I PROVE i + 1 \in I
    <3> SUFFICES ASSUME i + 1 <= m, a + (i + 1) <= Len(q) + 1 PROVE S[a + (i + 1)] = B(i + 1)
      OBVIOUS
    <3>1. i \in 0 .. m /\ i < m /\ a + i \in 1 .. Len(q) /\ a + (i + 1) = (a + i) + 1
      BY <1>1, <1>7
    <3>2. S[a + i] = B(i)
      BY <2>2, <3>1, <1>1
    <3>3. S[(a + i) + 1] = After(rs, S[a + i])
      BY <1>2, <3>1
    <3>4. After(rs, B(i)) = B(i + 1)
      BY <1>9, <3>1
    <3> QED BY <3>1, <3>2, <3>3, <3>4
  <2> HIDE DEF I
  <2>3. Nat \subseteq I
    BY <2>1, <2>2, Induction
  <2> QED BY <2>3, <1>7 DEF I
<1>11. a + m + 1 <= Len(q) + 1 =>
         S[a + m + 1] = IF rs[n].framing = "chunked" THEN Token("cr", n, p, 0) ELSE HeadOf(rs, n + 1)
  <2> SUFFICES ASSUME a + m + 1 <= Len(q) + 1
               PROVE  S[a + m + 1] = IF rs[n].framing = "chunked" THEN Token("cr", n, p, 0)
                                     ELSE HeadOf(rs, n + 1)
    OBVIOUS
  <2>1. m \in 0 .. m /\ a + m \in 1 .. Len(q)
    BY <1>1, <1>7
  <2>2. S[a + m] = B(m)
    BY <2>1, <1>10, <1>1
  <2>3. S[(a + m) + 1] = After(rs, B(m))
    BY <2>1, <2>2, <1>2
  <2>4. After(rs, B(m)) = IF rs[n].framing = "chunked" THEN Token("cr", n, p, 0) ELSE HeadOf(rs, n + 1)
    BY <1>9, <2>1, <1>7
  <2> QED BY <2>3, <2>4
<1> QED BY <1>3, <1>7, <1>10, <1>11 DEF S, m, B

-----------------------------------------------------------------------------
\* A connection of a client with requests rs: the request it is at is one of them.
Sessions == {"content", "size", "data", "end", "write"}

Connections(rs) ==
  [state : {"unaccepted", "open", "gone"}, op : Ops, done : {"no", "ok", "error"}, need : Nat,
   buf : Seq(Tokens(rs)), chunks : Seq(Tokens(rs)), cur : Nat, shut : BOOLEAN,
   timer : {"off", "request", "content"}, expired : SUBSET {"request", "content"}]

Formed(rs, k) ==
  /\ k \in Connections(rs)
  /\ k.op \in Sessions => k.cur \in DOMAIN rs
  /\ k.op \in {"size", "data", "end"} => rs[k.cur].framing = "chunked"
  /\ k.op \in {"data", "end"} => k.chunks = << >>
  /\ k.op = "head" /\ k.done = "ok" => k.buf # << >>
  /\ k.op = "size" /\ k.done = "ok" => k.chunks # << >>

Answers == [n : Nat, answer : {"path", "bad request", "anything"}]

\* The state of one connection: the client p, the server's side k, what arrived s,
\* the next token t, the answers g, and whether the client left, l.
Typed(p, k, s, t, g, l) ==
  /\ p \in Clients /\ Formed(p.requests, k) /\ s \in Seq(Tokens(p.requests))
  /\ t \in Tokens(p.requests) \cup {NoToken} /\ g \in Seq(Answers) /\ l \in BOOLEAN

\* What the server has read and not looked at, and what is behind it.
Taken(k) == IF k.op = "head" THEN k.buf ELSE IF k.op = "size" THEN k.chunks ELSE << >>
Unread(k, s) == Taken(k) \o s

\* A request was asked and is not answered yet: it is being read or answered, or
\* its head is the only one that was not looked at.
Busy(k) == k.op \in Sessions /\ ~(k.op = "write" /\ k.done = "ok")

OneHead(q, n) ==
  \E i \in 1 .. Len(q) :
    /\ q[i].kind = "head" /\ q[i].n = n
    /\ \A j \in 1 .. Len(q) : q[j].kind = "head" => j = i

Turn(rs, k, q, t, g, l) ==
  LET asked == Asked(rs, t)
  IN /\ Busy(k) => Quiet(q) /\ k.cur = asked /\ (l \/ Len(g) = asked - 1)
     /\ ~Busy(k) => \/ Quiet(q) /\ (l \/ Len(g) = asked)
                    \/ OneHead(q, asked) /\ (l \/ Len(g) = asked - 1)
     /\ k.op = "write" /\ k.done = "ok" => l \/ Len(g) = k.cur

\* The buffer holds the beginning of the content, and f is what comes next.
Boundary(f) == f.kind \in {"head", "none"}

Place(rs, k, f) ==
  LET r == rs[k.cur]
      b == Len(k.buf)
      ok == k.done = "ok"
      here == f.n = k.cur
  IN /\ k.op \in Sessions =>
          \A i \in 1 .. b : k.buf[i].kind = "byte" /\ k.buf[i].n = k.cur /\ k.buf[i].val = i
     /\ k.op \in {"none", "head"} /\ Plain(rs) => Boundary(f)
     /\ k.op = "content" =>
          /\ r.framing = "length"
          /\ IF ok THEN Boundary(f) /\ b = ContentLength(r)
             ELSE here /\ f.kind = "byte" /\ f.val = b + 1 /\ k.need = ContentLength(r) - b
     /\ k.op = "size" \/ (k.op = "end" /\ ok) =>
          here /\ f.kind = "size" /\ b = Begins(r, f.part)
     /\ k.op = "data" /\ ~ok =>
          here /\ f.kind = "byte" /\ f.val = b + 1 /\ k.need = Ends(r, f.part) - b
     /\ (k.op = "data" /\ ok) \/ (k.op = "end" /\ ~ok) =>
          /\ here /\ f.part \in DOMAIN r.ends /\ b = Ends(r, f.part)
          /\ \/ f.kind = "cr" /\ (k.op = "end" => k.need = 2)
             \/ f.kind = "lf" /\ k.op = "end" /\ k.need = 1
     /\ k.op = "write" => b = ContentLength(r) /\ (r.framing # "chunked" => Boundary(f))

Live(rs, k, s, t, g, l) ==
  LET q == Unread(k, s)
  IN /\ Chain(rs, Append(q, t))
     /\ Turn(rs, k, q, t, g, l)
     /\ Place(rs, k, Append(q, t)[1])

\* The connection of a patient client.
Right(rs, k, s, t, g, l) ==
  /\ \A n \in DOMAIN g : n \in DOMAIN rs /\ g[n] = [n |-> n, answer |-> Answer(rs[n])]
  /\ k.done = "error" => l \/ k.shut
  /\ k.state # "gone" => Live(rs, k, s, t, g, l)
  /\ k.state = "gone" /\ Plain(rs) => k.shut \/ l \/ Len(g) = Asked(rs, t)

Sound(p, k, s, t, g, l) ==
  Typed(p, k, s, t, g, l) /\ (p.patient => Right(p.requests, k, s, t, g, l))

\* The process ends only at a place without nodes, or in the middle of a chunk;
\* or it never starts.
EndsForReason ==
  /\ running = "starting" => \A c \in Conns : conn[c].state = "unaccepted"
  /\ running = "ended" =>
       \/ \A c \in Conns : conn[c].state = "unaccepted"
       \/ \E c \in Conns : \E n \in DOMAIN plan[c].requests :
            plan[c].requests[n].framing = "chunked" \/ plan[c].requests[n].query = "nowhere"

Shape ==
  /\ running \in {"starting", "running", "ended"} /\ plan \in [Conns -> Clients]
  /\ DOMAIN conn = Conns /\ DOMAIN incoming = Conns /\ DOMAIN toSend = Conns
  /\ DOMAIN got = Conns /\ DOMAIN left = Conns

SoundInv ==
  /\ Inv /\ Shape /\ EndsForReason
  /\ \A c \in Conns : Sound(plan[c], conn[c], incoming[c], toSend[c], got[c], left[c])

-----------------------------------------------------------------------------
LEMMA UnreadType ==
  ASSUME NEW rs, NEW k \in Connections(rs), NEW s \in Seq(Tokens(rs))
  PROVE  Taken(k) \in Seq(Tokens(rs)) /\ Unread(k, s) \in Seq(Tokens(rs))
<1>1. Taken(k) \in Seq(Tokens(rs))
  BY DEF Taken, Connections
<1> QED BY <1>1, ConcatFacts DEF Unread

LEMMA AskedFacts ==
  ASSUME NEW rs \in Seq(Requests), NEW t \in Tokens(rs) \cup {NoToken}
  PROVE  /\ Asked(rs, t) \in 0 .. Len(rs)
         /\ t.kind = "none" => Asked(rs, t) = Len(rs)
         /\ t \in Tokens(rs) => Asked(rs, t) = IF t.kind = "head" THEN t.n - 1 ELSE t.n
         /\ t \in Tokens(rs) => Asked(rs, After(rs, t)) = t.n
<1>1. Len(rs) \in Nat /\ DOMAIN rs = 1 .. Len(rs) /\ NoToken.kind = "none"
  BY DEF NoToken, Token
<1>2. ASSUME NEW u \in Tokens(rs) PROVE u.n \in 1 .. Len(rs) /\ u.kind \in Kinds
  BY <1>1 DEF Tokens
<1>3. ASSUME NEW u \in Tokens(rs) PROVE Asked(rs, u) = IF u.kind = "head" THEN u.n - 1 ELSE u.n
  BY <1>2 DEF Asked, Kinds
<1>4. ASSUME NEW u \in Tokens(rs) PROVE Asked(rs, u) \in 0 .. Len(rs)
  BY <1>1, <1>2, <1>3
<1>5. Asked(rs, NoToken) = Len(rs)
  BY <1>1 DEF Asked
<1>6. ASSUME t \in Tokens(rs) PROVE Asked(rs, After(rs, t)) = t.n
  <2> DEFINE u == After(rs, t)
  <2>1. /\ u \in Tokens(rs) \cup {NoToken}
        /\ u.kind \notin {"head", "none"} => u.n = t.n
        /\ u.kind = "head" => u.n = t.n + 1
        /\ u.kind = "none" => t.n = Len(rs)
    BY <1>6, AfterType
  <2> HIDE DEF u
  <2>2. ASSUME u \in Tokens(rs) PROVE Asked(rs, u) = t.n
    <3>1. u.kind # "none" /\ u.n \in Int
      BY <2>2, <1>2 DEF Kinds
    <3>2. Asked(rs, u) = IF u.kind = "head" THEN u.n - 1 ELSE u.n
      BY <2>2, <1>3
    <3>3. t.n \in Int
      BY <1>6, <1>2
    <3> QED BY <2>1, <3>1, <3>2, <3>3
  <2>3. ASSUME u = NoToken PROVE Asked(rs, u) = t.n
    BY <2>1, <2>3, <1>1, <1>5
  <2> QED BY <2>1, <2>2, <2>3 DEF u
<1>7. t.kind = "none" => t = NoToken
  BY <1>2 DEF Kinds
<1> QED BY <1>1, <1>3, <1>4, <1>5, <1>6, <1>7

\* The client sends its next token.
LEMMA SendSound ==
  ASSUME NEW p, NEW k, NEW s, NEW t, NEW g, NEW l, Sound(p, k, s, t, g, l),
         ~l, t.kind # "none", k.state # "gone",
         p.patient /\ t.kind = "head" => Len(g) = Asked(p.requests, t)
  PROVE  Sound(p, k, Append(s, t), After(p.requests, t), g, l)
<1> DEFINE rs == p.requests
           u == After(rs, t)
           q == Unread(k, s)
           S == Append(q, t)
           q2 == Unread(k, Append(s, t))
           S2 == Append(q2, u)
<1>1. /\ rs \in Seq(Requests) /\ k \in Connections(rs) /\ s \in Seq(Tokens(rs)) /\ g \in Seq(Answers)
      /\ t \in Tokens(rs) \cup {NoToken}
  BY DEF Sound, Typed, Clients, Formed
<1>2. t \in Tokens(rs)
  BY <1>1 DEF NoToken, Token
<1>3. u \in Tokens(rs) \cup {NoToken} /\ Append(s, t) \in Seq(Tokens(rs))
  BY <1>1, <1>2, AfterType
<1>4. Typed(p, k, Append(s, t), u, g, l)
  BY <1>3 DEF Sound, Typed
<1>5. q \in Seq(Tokens(rs)) /\ Taken(k) \in Seq(Tokens(rs))
  BY <1>1, UnreadType
<1>6. q2 = S /\ q2 \in Seq(Tokens(rs))
  <2>1. q2 = S
    BY <1>1, <1>2, <1>5 DEF Unread
  <2> QED BY <2>1, <1>2, <1>5
<1>7. ASSUME p.patient PROVE Right(rs, k, Append(s, t), u, g, l)
  <2>1. Right(rs, k, s, t, g, l) /\ Chain(rs, S) /\ Turn(rs, k, q, t, g, l) /\ Place(rs, k, S[1])
    BY <1>7 DEF Sound, Right, Live
  <2> HIDE DEF q2, q, u
  <2>2. /\ Len(q) \in Nat /\ Len(S) = Len(q) + 1 /\ S[Len(q) + 1] = t
        /\ \A i \in 1 .. Len(q) : S[i] = q[i]
    BY <1>5, AppendFacts
  <2>3. Len(q2) = Len(S) /\ Len(S2) = Len(S) + 1 /\ S2[Len(S) + 1] = u /\ \A i \in 1 .. Len(S) : S2[i] = S[i]
    BY <1>6, AppendFacts
  <2> HIDE DEF S, S2
  <2>4. Chain(rs, S2)
    <3> SUFFICES ASSUME NEW i \in 1 .. Len(S2) - 1 PROVE S2[i + 1] = After(rs, S2[i])
      BY DEF Chain
    <3>1. CASE i = Len(S)
      BY <3>1, <2>2, <2>3 DEF u
    <3>2. CASE i \in 1 .. Len(S) - 1
      <4>1. S2[i] = S[i] /\ S2[i + 1] = S[i + 1]
        BY <3>2, <2>2, <2>3
      <4> QED BY <4>1, <3>2, <2>1 DEF Chain
    <3> QED BY <3>1, <3>2, <2>2, <2>3
  <2>5. Place(rs, k, S2[1])
    <3>1. 1 \in 1 .. Len(S)
      BY <2>2
    <3>2. S2[1] = S[1]
      BY <3>1, <2>3, Zenon
    <3> QED BY <3>2, <2>1
  <2>6. /\ Asked(rs, u) = t.n /\ Asked(rs, t) = IF t.kind = "head" THEN t.n - 1 ELSE t.n
        /\ Asked(rs, u) \in Nat /\ t.n \in Nat
    BY <1>1, <1>2, <1>3, AskedFacts DEF u, Tokens
  <2>7. Len(g) \in Nat
    BY <1>1
  <2>8. Turn(rs, k, q2, u, g, l)
    <3>1. CASE t.kind = "head"
      <4>1. Len(g) = Asked(rs, t) /\ Asked(rs, u) = Asked(rs, t) + 1 /\ Len(g) # Asked(rs, t) - 1
        BY <3>1, <1>7, <2>6, <2>7
      <4>2. ~Busy(k) /\ Quiet(q)
        BY <2>1, <4>1 DEF Turn
      <4>3. OneHead(q2, Asked(rs, u))
        <5>1. S[Len(q) + 1].kind = "head" /\ S[Len(q) + 1].n = Asked(rs, u)
          BY <3>1, <2>2, <2>6
        <5>2. \A j \in 1 .. Len(S) : S[j].kind = "head" => j = Len(q) + 1
          BY <4>2, <2>2 DEF Quiet
        <5> QED BY <5>1, <5>2, <2>2, <1>6 DEF OneHead, S
      <4>4. Len(g) = Asked(rs, u) - 1
        BY <4>1, <2>7
      <4>5. k.op = "write" /\ k.done = "ok" => l \/ Len(g) = k.cur
        BY <2>1 DEF Turn
      <4> QED BY <4>2, <4>3, <4>4, <4>5 DEF Turn
    <3>2. CASE t.kind # "head"
      <4>1. Asked(rs, u) = Asked(rs, t)
        BY <3>2, <2>6
      <4>2. Quiet(q) => Quiet(S)
        BY <2>2, <3>2 DEF Quiet
      <4>3. ASSUME NEW n, OneHead(q, n) PROVE OneHead(S, n)
        <5>1. PICK i \in 1 .. Len(q) : /\ q[i].kind = "head" /\ q[i].n = n
                                       /\ \A j \in 1 .. Len(q) : q[j].kind = "head" => j = i
          BY <4>3 DEF OneHead
        <5>2. i \in 1 .. Len(S) /\ S[i] = q[i]
          BY <2>2
        <5>3. \A j \in 1 .. Len(S) : S[j].kind = "head" => j = i
          BY <5>1, <2>2, <3>2
        <5> QED BY <5>1, <5>2, <5>3 DEF OneHead
      <4>4. q2 = S
        BY <1>6 DEF S
      <4> QED BY <2>1, <4>1, <4>2, <4>3, <4>4 DEF Turn
    <3> QED BY <3>1, <3>2
  <2>9. Live(rs, k, Append(s, t), u, g, l)
    BY <2>4, <2>5, <2>8 DEF Live, S2, q2
  <2> QED BY <2>1, <2>9 DEF Right
<1> QED BY <1>4, <1>7 DEF Sound

\* The terminator of a head, or of a line, has arrived: what was read is longer.
LEMMA ReadMoreSound ==
  ASSUME NEW p, NEW k, NEW s, NEW t, NEW g, NEW l, Sound(p, k, s, t, g, l), k.state # "gone",
         NEW j,
         \/ k.op = "head" /\ k.buf \o s # << >> /\ j = [k EXCEPT !.buf = k.buf \o s, !.done = "ok"]
         \/ k.op = "size" /\ k.chunks \o s # << >> /\ j = [k EXCEPT !.chunks = k.chunks \o s, !.done = "ok"]
  PROVE  Sound(p, j, << >>, t, g, l)
<1> DEFINE rs == p.requests
           q == Taken(k) \o s
<1>1. k \in Connections(rs) /\ s \in Seq(Tokens(rs)) /\ Formed(rs, k)
  BY DEF Sound, Typed, Formed
<1>2. q \in Seq(Tokens(rs)) /\ << >> \in Seq(Tokens(rs))
  BY <1>1, UnreadType, EmptySeq DEF Unread
<1>3. \/ k.op = "head" /\ q # << >> /\ j = [k EXCEPT !.buf = q, !.done = "ok"]
      \/ k.op = "size" /\ q # << >> /\ j = [k EXCEPT !.chunks = q, !.done = "ok"]
  BY DEF Taken
<1>4. q \o << >> = q
  BY <1>2, EmptyConcat
<1> HIDE DEF q
<1>5. /\ j.state = k.state /\ j.op = k.op /\ j.cur = k.cur /\ j.need = k.need /\ j.shut = k.shut
      /\ j.done = "ok" /\ (k.op = "size" => j.buf = k.buf /\ j.chunks = q) /\ (k.op = "head" => j.buf = q)
  BY <1>1, <1>3 DEF Connections
<1>6. Formed(rs, j)
  BY <1>1, <1>2, <1>3 DEF Formed, Connections
<1>7. Taken(j) = q
  BY <1>3, <1>5 DEF Taken
<1>8. Unread(j, << >>) = Unread(k, s)
  BY <1>4, <1>7 DEF Unread, q
<1>9. ASSUME p.patient PROVE Right(rs, j, << >>, t, g, l)
  <2> DEFINE u == Unread(k, s)
             f == Append(u, t)[1]
  <2>1. Right(rs, k, s, t, g, l) /\ Chain(rs, Append(u, t)) /\ Turn(rs, k, u, t, g, l) /\ Place(rs, k, f)
    BY <1>9 DEF Sound, Right, Live
  <2> HIDE DEF u, f
  <2>2. Turn(rs, j, u, t, g, l)
    BY <2>1, <1>3, <1>5 DEF Turn, Busy, Sessions
  <2>3. Place(rs, j, f)
    BY <2>1, <1>3, <1>5 DEF Place, Sessions
  <2>4. Live(rs, j, << >>, t, g, l)
    BY <2>1, <2>2, <2>3, <1>8 DEF Live, u, f
  <2> QED BY <2>1, <2>4, <1>5 DEF Right
<1> QED BY <1>2, <1>6, <1>9 DEF Sound, Typed

-----------------------------------------------------------------------------
\* The bytes 1 to Len(buf) of the content of request n.
Piece(buf, n) == \A i \in 1 .. Len(buf) : buf[i].kind = "byte" /\ buf[i].n = n /\ buf[i].val = i

\* The piece can go on with v, which is the stream S from a on, in one chunk.
Continues(rs, q, t, S, a, buf, n, v) ==
  /\ rs \in Seq(Requests) /\ q \in Seq(Tokens(rs)) /\ t \in Tokens(rs) \cup {NoToken}
  /\ S = Append(q, t) /\ Chain(rs, S) /\ a \in 1 .. Len(q) + 1
  /\ buf \in Seq(Tokens(rs)) /\ Piece(buf, n) /\ v \in Seq(Tokens(rs))
  /\ S[a].kind = "byte" /\ S[a].n = n /\ S[a].val = Len(buf) + 1
  /\ Len(v) <= Ends(rs[n], S[a].part) - Len(buf)
  /\ a + Len(v) <= Len(q) + 1
  /\ \A i \in 1 .. Len(v) : v[i] = S[a + i - 1]

\* What is known when v, the next bytes of request n, is put behind buf: the
\* content goes on whole, and the token behind v is the next byte, or what
\* follows the last one.
Moved(rs, S, a, buf, n, v) ==
  LET part == S[a].part
      b == Len(buf)
  IN /\ buf \o v \in Seq(Tokens(rs)) /\ Len(buf \o v) = b + Len(v) /\ Piece(buf \o v, n)
     /\ part \in DOMAIN rs[n].ends /\ Ends(rs[n], part) \in Nat /\ Begins(rs[n], part) <= b
     /\ Len(v) < Ends(rs[n], part) - b =>
          S[a + Len(v)] = Token("byte", n, part, b + Len(v) + 1)
     /\ Len(v) = Ends(rs[n], part) - b =>
          S[a + Len(v)] = IF rs[n].framing = "chunked" THEN Token("cr", n, part, 0)
                          ELSE HeadOf(rs, n + 1)

\* Bytes v of a chunk are taken from the stream, behind those in the buffer.
LEMMA MovedFacts ==
  ASSUME NEW rs, NEW q, NEW t, NEW S, NEW a, NEW buf, NEW n, NEW v,
         Continues(rs, q, t, S, a, buf, n, v)
  PROVE  Moved(rs, S, a, buf, n, v)
<1> USE DEF Continues
<1> DEFINE f == S[a]
           b == Len(buf)
           e == Ends(rs[n], f.part)
           w == buf \o v
           len == Len(v)
           m == Ends(rs[f.n], f.part) - f.val
<1>1. /\ f \in Tokens(rs) /\ m \in Nat
      /\ \A i \in 0 .. m : a + i <= Len(q) + 1 => S[a + i] = Token("byte", f.n, f.part, f.val + i)
      /\ a + m + 1 <= Len(q) + 1 =>
           S[a + m + 1] = IF rs[f.n].framing = "chunked" THEN Token("cr", f.n, f.part, 0)
                          ELSE HeadOf(rs, f.n + 1)
  BY RunFacts
<1>2. /\ w \in Seq(Tokens(rs)) /\ Len(w) = b + len /\ b \in Nat /\ len \in Nat
      /\ \A i \in 1 .. b : w[i] = buf[i]
      /\ \A i \in 1 .. len : w[b + i] = v[i]
  BY ConcatFacts
<1>3. f.kind = "byte" /\ f.n = n /\ f.val = b + 1
  OBVIOUS
<1>4. len <= e - b /\ a + len <= Len(q) + 1 /\ \A i \in 1 .. len : v[i] = S[a + i - 1]
  OBVIOUS
<1>5. Len(q) \in Nat /\ a \in Nat
  OBVIOUS
<1>14. rs \in Seq(Requests)
  OBVIOUS
<1> HIDE DEF Continues
<1>6. /\ f.part \in DOMAIN rs[n].ends /\ f.n \in DOMAIN rs /\ Begins(rs[n], f.part) < f.val
      /\ f.val <= e /\ f.part \in Nat
  BY <1>1, <1>3 DEF Tokens
<1>7. e \in Nat /\ Begins(rs[n], f.part) \in Nat
  <2>1. rs[n] \in Requests
    BY <1>3, <1>6, <1>14
  <2>2. rs[n].ends \in Seq(Nat)
    BY <2>1 DEF Requests
  <2>3. f.part \in 1 .. Len(rs[n].ends) + 1
    <3>1. Len(rs[n].ends) \in Nat /\ DOMAIN rs[n].ends = 1 .. Len(rs[n].ends)
      BY <2>2
    <3>2. \A x \in DOMAIN rs[n].ends : x \in 1 .. Len(rs[n].ends) + 1
      BY <3>1
    <3> QED BY <3>2, <1>6
  <2> QED BY <2>1, <2>3, RequestFacts
<1>8. m = e - (b + 1)
  BY <1>3
<1> HIDE DEF m, e, b, w, len
<1>9. \A i \in 0 .. m : a + i <= Len(q) + 1 => S[a + i] = Token("byte", n, f.part, (b + 1) + i)
  BY <1>1, <1>3
<1> HIDE DEF f
<1>10. ASSUME NEW i \in 1 .. len PROVE v[i].kind = "byte" /\ v[i].n = n /\ v[i].val = b + i
  <2> DEFINE x == i - 1
  <2>1. x \in 0 .. m /\ a + x <= Len(q) + 1 /\ a + i - 1 = a + x /\ (b + 1) + x = b + i
    <3>1. len <= e - b /\ a + len <= Len(q) + 1
      BY <1>4
    <3>2. b \in Nat /\ len \in Nat /\ e \in Nat /\ m = e - (b + 1)
      BY <1>2, <1>7, <1>8
    <3> QED BY <3>1, <3>2, <1>5
  <2>2. v[i] = S[a + x]
    BY <2>1, <1>4
  <2> HIDE DEF x
  <2>3. v[i] = Token("byte", n, f.part, (b + 1) + x)
    BY <2>1, <2>2, <1>9
  <2> QED BY <2>1, <2>3 DEF Token
<1>11. Piece(w, n)
  <2> SUFFICES ASSUME NEW i \in 1 .. b + len PROVE w[i].kind = "byte" /\ w[i].n = n /\ w[i].val = i
    BY <1>2 DEF Piece
  <2>1. CASE i \in 1 .. b
    BY <2>1, <1>2 DEF Continues, Piece, b
  <2>2. CASE i \notin 1 .. b
    <3> DEFINE x == i - b
    <3>1. x \in 1 .. len /\ i = b + x
      BY <2>2, <1>2
    <3> HIDE DEF x
    <3> QED BY <3>1, <1>2, <1>10
  <2> QED BY <2>1, <2>2
<1>12. ASSUME len < e - b PROVE S[a + len] = Token("byte", n, f.part, b + len + 1)
  <2>1. len \in 0 .. m /\ (b + 1) + len = b + len + 1
    BY <1>12, <1>2, <1>7, <1>8
  <2>2. S[a + len] = Token("byte", n, f.part, (b + 1) + len)
    BY <2>1, <1>4, <1>9
  <2> QED BY <2>1, <2>2
<1>15. ASSUME len = e - b
       PROVE  S[a + len] = IF rs[n].framing = "chunked" THEN Token("cr", n, f.part, 0)
                           ELSE HeadOf(rs, n + 1)
  <2>1. a + m + 1 = a + len
    <3>1. a \in Nat /\ b \in Nat /\ len \in Nat /\ e \in Nat
      BY <1>2, <1>5, <1>7
    <3>2. m + 1 = len
      BY <3>1, <1>8, <1>15
    <3>3. m \in Int
      BY <3>1, <1>8
    <3> QED BY <3>1, <3>2, <3>3
  <2> QED BY <2>1, <1>1, <1>3, <1>4
<1>13. Begins(rs[n], f.part) <= b
  BY <1>2, <1>3, <1>6, <1>7
<1> QED BY <1>2, <1>6, <1>7, <1>11, <1>12, <1>13, <1>15 DEF Moved, w, len, b, e, f

\* Exactly the bytes that were asked for have arrived.
LEMMA BytesSound ==
  ASSUME NEW p, NEW k, NEW s, NEW t, NEW g, NEW l, Sound(p, k, s, t, g, l), k.state # "gone",
         k.op \in {"content", "data", "end"}, k.done = "no", Len(s) >= k.need
  PROVE  Sound(p, [k EXCEPT !.done = "ok",
                     !.buf = IF k.op = "end" THEN k.buf ELSE k.buf \o SubSeq(s, 1, k.need)],
               SubSeq(s, k.need + 1, Len(s)), t, g, l)
<1> DEFINE rs == p.requests
           r == rs[k.cur]
           b == Len(k.buf)
           need == k.need
           v == SubSeq(s, 1, need)
           w == k.buf \o v
           j == [k EXCEPT !.done = "ok", !.buf = IF k.op = "end" THEN k.buf ELSE w]
           s2 == SubSeq(s, need + 1, Len(s))
           S == Append(s, t)
           f == S[1]
           f2 == Append(s2, t)[1]
<1>1. /\ rs \in Seq(Requests) /\ k \in Connections(rs) /\ s \in Seq(Tokens(rs)) /\ Formed(rs, k)
      /\ t \in Tokens(rs) \cup {NoToken} /\ k.buf \in Seq(Tokens(rs)) /\ need \in Nat /\ need <= Len(s)
      /\ Len(s) \in Nat /\ b \in Nat
  BY DEF Sound, Typed, Clients, Formed, Connections
<1>2. v \in Seq(Tokens(rs)) /\ Len(v) = need /\ \A i \in 1 .. need : v[i] = s[i]
  BY <1>1, PrefixFacts
<1>3. s2 \in Seq(Tokens(rs)) /\ IsRest(s, s2, need)
  BY <1>1, SuffixFacts
<1>4. w \in Seq(Tokens(rs))
  BY <1>1, <1>2, ConcatFacts
<1> HIDE DEF v, w, s2
<1>5. /\ j.state = k.state /\ j.op = k.op /\ j.cur = k.cur /\ j.need = k.need /\ j.shut = k.shut
      /\ j.done = "ok" /\ j.buf = IF k.op = "end" THEN k.buf ELSE w
  BY <1>1 DEF Connections
<1>6. Typed(p, j, s2, t, g, l)
  <2>1. Formed(rs, j)
    BY <1>1, <1>4 DEF Formed, Connections
  <2> QED BY <2>1, <1>3 DEF Sound, Typed
<1>7. Taken(k) = << >> /\ Taken(j) = << >>
  BY <1>5 DEF Taken
<1>8. Unread(k, s) = s /\ Unread(j, s2) = s2
  BY <1>1, <1>3, <1>7, EmptyConcat DEF Unread
<1> HIDE DEF j
<1>9. ASSUME p.patient PROVE Right(rs, j, s2, t, g, l)
  <2>1. Right(rs, k, s, t, g, l) /\ Chain(rs, S) /\ Turn(rs, k, s, t, g, l) /\ Place(rs, k, f)
    BY <1>8, <1>9 DEF Sound, Right, Live
  <2>2. /\ f2 = S[need + 1] /\ Chain(rs, Append(s2, t)) /\ (Quiet(s) => Quiet(s2))
    BY <1>1, <1>3, <2>1, RestFacts
  <2>3. /\ Len(S) = Len(s) + 1 /\ \A i \in 1 .. Len(s) : S[i] = s[i] /\ s[i] \in Tokens(rs)
    BY <1>1, AppendFacts
  <2>4. Turn(rs, j, s2, t, g, l)
    BY <2>1, <2>2, <1>5 DEF Turn, Busy, Sessions
  <2>5. Piece(k.buf, k.cur) /\ k.cur \in DOMAIN rs /\ r \in Requests
    BY <2>1, <1>1 DEF Place, Piece, Sessions, Formed
  <2> HIDE DEF S, f2
  <2>6. ASSUME f.kind = "byte", f.n = k.cur, f.val = b + 1, need = Ends(r, f.part) - b
        PROVE  /\ Len(w) = b + need /\ Piece(w, k.cur)
               /\ f.part \in DOMAIN r.ends /\ Ends(r, f.part) \in Nat
               /\ f2 = IF r.framing = "chunked" THEN Token("cr", k.cur, f.part, 0)
                       ELSE HeadOf(rs, k.cur + 1)
    <3>1. \A i \in 1 .. need : v[i] = S[1 + i - 1]
      <4> SUFFICES ASSUME NEW i \in 1 .. need PROVE v[i] = S[1 + i - 1]
        OBVIOUS
      <4>1. i \in 1 .. Len(s) /\ 1 + i - 1 = i
        BY <1>1
      <4> QED BY <4>1, <1>2, <2>3
    <3>2. /\ 1 + need = need + 1 /\ need + 1 <= Len(s) + 1 /\ 1 \in 1 .. Len(s) + 1
          /\ need <= Ends(r, f.part) - b
      BY <1>1, <2>6
    <3>3. S = Append(s, t) /\ Chain(rs, S)
      BY <2>1 DEF S
    <3>4. Continues(rs, s, t, S, 1, k.buf, k.cur, v)
      BY <3>1, <3>2, <3>3, <2>5, <2>6, <1>1, <1>2 DEF Continues
    <3>5. Len(k.buf \o v) = Len(k.buf) + Len(v) /\ Piece(k.buf \o v, k.cur)
      BY <3>4, MovedFacts DEF Moved
    <3>6. f.part \in DOMAIN rs[k.cur].ends /\ Ends(rs[k.cur], f.part) \in Nat
      BY <3>4, MovedFacts DEF Moved
    <3>7. S[1 + Len(v)] = IF rs[k.cur].framing = "chunked" THEN Token("cr", k.cur, f.part, 0)
                          ELSE HeadOf(rs, k.cur + 1)
      <4>1. Len(v) = Ends(rs[k.cur], S[1].part) - Len(k.buf)
        BY <2>6, <1>2
      <4> QED BY <3>4, <4>1, MovedFacts DEF Moved
    <3> QED BY <3>2, <3>5, <3>6, <3>7, <1>2, <2>2 DEF w
  <2>7. Place(rs, j, f2)
    <3>1. CASE k.op = "content"
      <4>1. r.framing = "length" /\ f.n = k.cur /\ f.kind = "byte" /\ f.val = b + 1 /\ need = ContentLength(r) - b
        BY <3>1, <2>1 DEF Place
      <4>2. f \in Tokens(rs)
        <5>1. need > 0
          <6>1. f.kind # "none"
            BY <4>1
          <6>2. f = IF Len(s) = 0 THEN t ELSE s[1]
            BY <1>1, AppendFacts DEF S
          <6>3. f \in Tokens(rs)
            BY <6>1, <6>2, <1>1 DEF NoToken, Token
          <6>4. f.part \in DOMAIN r.ends /\ f.val <= Ends(r, f.part)
            BY <6>3, <4>1 DEF Tokens
          <6>5. 1 \in 1 .. Len(r.ends) + 1
            BY <2>5 DEF Requests
          <6>6. /\ DOMAIN r.ends = 1 .. Len(r.ends) /\ Len(r.ends) = 1
                /\ ContentLength(r) = Ends(r, 1) /\ Ends(r, 1) \in Nat
            BY <6>5, <4>1, <2>5, RequestFacts
          <6>7. f.part = 1
            BY <6>4, <6>6
          <6> QED BY <4>1, <6>4, <6>6, <6>7, <1>1
        <5> QED BY <5>1, <1>1, <2>3
      <4>3. f.part \in DOMAIN r.ends
        BY <4>1, <4>2 DEF Tokens
      <4>4. 1 \in 1 .. Len(r.ends) + 1
        BY <2>5 DEF Requests
      <4>5. /\ DOMAIN r.ends = 1 .. Len(r.ends) /\ Len(r.ends) = 1 /\ ContentLength(r) = Ends(r, 1)
            /\ ContentLength(r) \in Nat
        BY <4>1, <4>4, <2>5, RequestFacts
      <4>6. f.part = 1
        BY <4>3, <4>5
      <4>7. need = Ends(r, f.part) - b /\ b + need = ContentLength(r)
        BY <4>1, <4>5, <4>6, <1>1
      <4>8. Len(w) = b + need /\ Piece(w, k.cur) /\ f2 = HeadOf(rs, k.cur + 1)
        BY <2>6, <4>1, <4>7
      <4>9. Boundary(f2)
        BY <4>8 DEF Boundary, HeadOf, Token, NoToken
      <4> QED BY <3>1, <4>1, <4>7, <4>8, <4>9, <1>5 DEF Place, Piece, Sessions
    <3>2. CASE k.op = "data"
      <4>1. f.n = k.cur /\ f.kind = "byte" /\ f.val = b + 1 /\ need = Ends(r, f.part) - b
        BY <3>2, <2>1, <1>1 DEF Place
      <4>2. r.framing = "chunked"
        BY <3>2, <1>1 DEF Formed
      <4>3. Len(w) = b + need /\ Piece(w, k.cur) /\ f.part \in DOMAIN r.ends /\ Ends(r, f.part) \in Nat
            /\ f2 = Token("cr", k.cur, f.part, 0)
        BY <2>6, <4>1, <4>2, <1>1
      <4>4. f2.kind = "cr" /\ f2.n = k.cur /\ f2.part = f.part /\ b + need = Ends(r, f.part)
        BY <4>1, <4>3, <1>1 DEF Token
      <4> QED BY <3>2, <4>3, <4>4, <1>5 DEF Place, Piece, Sessions
    <3>3. CASE k.op = "end"
      <4>1. /\ f.n = k.cur /\ f.part \in DOMAIN r.ends /\ b = Ends(r, f.part)
            /\ \/ f.kind = "cr" /\ need = 2
               \/ f.kind = "lf" /\ need = 1
        BY <3>3, <2>1, <1>1 DEF Place
      <4>2. r.framing = "chunked"
        BY <3>3, <1>1 DEF Formed
      <4>3. \A i \in 1 .. need : S[i] \in Tokens(rs) /\ S[i + 1] = After(rs, S[i])
        <5> SUFFICES ASSUME NEW i \in 1 .. need PROVE S[i] \in Tokens(rs) /\ S[i + 1] = After(rs, S[i])
          OBVIOUS
        <5>1. i \in 1 .. Len(s) /\ i \in 1 .. Len(S) - 1
          BY <1>1, <2>3
        <5> QED BY <5>1, <2>1, <2>3 DEF Chain
      <4>4. ASSUME NEW x \in Tokens(rs), x.kind = "lf", x.n = k.cur, x.part = f.part
            PROVE  After(rs, x) = SizeLine(r, k.cur, f.part + 1)
        BY <4>1, <4>4, <1>1, AfterFacts
      <4>5. S[need + 1] = SizeLine(r, k.cur, f.part + 1)
        <5>1. CASE f.kind = "lf" /\ need = 1
          BY <5>1, <4>1, <4>3, <4>4
        <5>2. CASE f.kind = "cr" /\ need = 2
          <6>1. S[2] = Token("lf", k.cur, f.part, 0)
            BY <5>2, <4>1, <4>3, <1>1, AfterFacts
          <6>2. S[2] \in Tokens(rs) /\ S[3] = After(rs, S[2])
            BY <5>2, <4>3
          <6> QED BY <5>2, <6>1, <6>2, <4>4 DEF Token
        <5> QED BY <5>1, <5>2, <4>1
      <4>6. f2.kind = "size" /\ f2.n = k.cur /\ f2.part = f.part + 1
        BY <4>5, <2>2 DEF SizeLine, Token
      <4>7. Begins(r, f.part + 1) = Ends(r, f.part)
        <5>1. f.part \in 1 .. Len(r.ends) + 1
          <6>1. r.ends \in Seq(Nat)
            BY <2>5 DEF Requests
          <6>2. DOMAIN r.ends = 1 .. Len(r.ends) /\ Len(r.ends) \in Nat
            BY <6>1
          <6>3. \A x \in DOMAIN r.ends : x \in 1 .. Len(r.ends) + 1
            BY <6>2
          <6> QED BY <6>3, <4>1
        <5> QED BY <5>1, <4>1, <2>5, RequestFacts
      <4> QED BY <3>3, <4>1, <4>6, <4>7, <2>5, <1>5 DEF Place, Piece, Sessions
    <3> QED BY <3>1, <3>2, <3>3
  <2>8. Live(rs, j, s2, t, g, l)
    BY <2>2, <2>4, <2>7, <1>8 DEF Live, f2
  <2> QED BY <2>1, <2>8, <1>5 DEF Right
<1> QED BY <1>6, <1>9 DEF Sound, j, s2, w, v

\* The response is out; a client that is still there has its answer.
LEMMA ResponseSound ==
  ASSUME NEW p, NEW k, NEW s, NEW t, NEW g, NEW l, Sound(p, k, s, t, g, l), k.state # "gone",
         k.op = "write", k.done = "no"
  PROVE  LET r == p.requests[k.cur]
         IN Sound(p, [k EXCEPT !.done = "ok"], s, t,
                  IF l THEN g ELSE Append(g, [n |-> k.cur, answer |-> Answer(r)]), l)
<1> DEFINE rs == p.requests
           a == [n |-> k.cur, answer |-> Answer(rs[k.cur])]
           j == [k EXCEPT !.done = "ok"]
           g2 == IF l THEN g ELSE Append(g, a)
<1>1. /\ rs \in Seq(Requests) /\ k \in Connections(rs) /\ s \in Seq(Tokens(rs)) /\ Formed(rs, k)
      /\ t \in Tokens(rs) \cup {NoToken} /\ g \in Seq(Answers) /\ k.cur \in DOMAIN rs
  BY DEF Sound, Typed, Clients, Formed, Sessions
<1>2. a \in Answers
  <2>1. k.cur \in Nat /\ rs[k.cur].query \in {"route", "unreadable", "nowhere"}
    BY <1>1 DEF Connections, Requests
  <2> QED BY <2>1 DEF Answers, Answer
<1> HIDE DEF a
<1>3. g2 \in Seq(Answers)
  BY <1>1, <1>2
<1>4. Formed(rs, j)
  BY <1>1 DEF Formed, Connections, Sessions
<1>5. /\ j.state = k.state /\ j.op = k.op /\ j.cur = k.cur /\ j.need = k.need /\ j.shut = k.shut
      /\ j.done = "ok" /\ j.buf = k.buf /\ j.chunks = k.chunks
  BY <1>1 DEF Connections
<1>6. ASSUME p.patient PROVE Right(rs, j, s, t, g2, l)
  <2> DEFINE q == Unread(k, s)
             f == Append(q, t)[1]
  <2>1. Right(rs, k, s, t, g, l) /\ Chain(rs, Append(q, t)) /\ Turn(rs, k, q, t, g, l) /\ Place(rs, k, f)
    BY <1>6 DEF Sound, Right, Live
  <2>2. Unread(j, s) = q
    BY <1>5 DEF Unread, Taken
  <2>3. k.cur = Asked(rs, t) /\ (l \/ Len(g) = Asked(rs, t) - 1) /\ Quiet(q)
    BY <2>1 DEF Turn, Busy, Sessions
  <2>4. Len(g) \in Nat /\ Asked(rs, t) \in Nat
    BY <1>1, AskedFacts
  <2> HIDE DEF q, f
  <2>5. l \/ (Len(g2) = Asked(rs, t) /\ Len(g2) = k.cur)
    BY <2>3, <2>4, <1>1
  <2>6. Turn(rs, j, q, t, g2, l)
    BY <2>3, <2>5, <1>5 DEF Turn, Busy, Sessions
  <2>7. Place(rs, j, f)
    BY <2>1, <1>5 DEF Place, Sessions
  <2>8. Live(rs, j, s, t, g2, l)
    BY <2>1, <2>2, <2>6, <2>7 DEF Live, q, f
  <2>9. \A n \in DOMAIN g2 : n \in DOMAIN rs /\ g2[n] = [n |-> n, answer |-> Answer(rs[n])]
    <3>1. CASE l
      BY <2>1, <3>1 DEF Right
    <3>2. CASE ~l
      <4>1. /\ DOMAIN g2 = 1 .. Len(g) + 1 /\ g2[Len(g) + 1] = a /\ DOMAIN g = 1 .. Len(g)
            /\ \A n \in 1 .. Len(g) : g2[n] = g[n]
        BY <3>2, <1>1, <2>4
      <4>2. k.cur = Len(g) + 1
        BY <3>2, <2>3, <2>4
      <4> SUFFICES ASSUME NEW n \in 1 .. Len(g) + 1
                   PROVE  n \in DOMAIN rs /\ g2[n] = [n |-> n, answer |-> Answer(rs[n])]
        BY <4>1
      <4>3. CASE n = Len(g) + 1
        BY <4>1, <4>2, <4>3, <1>1 DEF a
      <4>4. CASE n \in 1 .. Len(g)
        BY <4>1, <4>4, <2>1 DEF Right
      <4> QED BY <4>3, <4>4, <2>4
    <3> QED BY <3>1, <3>2
  <2> QED BY <2>1, <2>8, <2>9, <1>5 DEF Right
<1>7. Sound(p, j, s, t, g2, l)
  BY <1>3, <1>4, <1>6 DEF Sound, Typed
<1> QED BY <1>7 DEF a

\* An operation fails, a timer goes off, its handler closes, or the client leaves:
\* only after a close or without the client does an operation fail.
LEMMA FailSound ==
  ASSUME NEW p, NEW k, NEW s, NEW t, NEW g, NEW l, Sound(p, k, s, t, g, l),
         NEW j \in Connections(p.requests), NEW l2 \in BOOLEAN,
         j.state = k.state, j.op = k.op, j.cur = k.cur, j.need = k.need, j.buf = k.buf,
         j.chunks = k.chunks, k.shut => j.shut, l => l2,
         j.done = k.done \/ (k.done = "no" /\ j.done = "error" /\ (l2 \/ j.shut))
  PROVE  Sound(p, j, s, t, g, l2)
<1> DEFINE rs == p.requests
<1>1. Formed(rs, j)
  BY DEF Sound, Typed, Formed
<1>2. ASSUME p.patient PROVE Right(rs, j, s, t, g, l2)
  <2> DEFINE q == Unread(k, s)
             f == Append(q, t)[1]
  <2>1. Right(rs, k, s, t, g, l)
    BY <1>2 DEF Sound
  <2>2. Unread(j, s) = q
    BY DEF Unread, Taken
  <2> HIDE DEF q, f
  <2>3. ASSUME k.state # "gone" PROVE Live(rs, j, s, t, g, l2)
    <3>1. Chain(rs, Append(q, t)) /\ Turn(rs, k, q, t, g, l) /\ Place(rs, k, f)
      BY <2>1, <2>3 DEF Right, Live, q, f
    <3>2. Turn(rs, j, q, t, g, l2)
      BY <3>1 DEF Turn, Busy
    <3>3. Place(rs, j, f)
      BY <3>1 DEF Place
    <3> QED BY <2>2, <3>1, <3>2, <3>3 DEF Live, f
  <2> QED BY <2>1, <2>3 DEF Right
<1> QED BY <1>1, <1>2 DEF Sound, Typed

\* A new session: nothing was read, and no request is being answered.
LEMMA ReadSound ==
  ASSUME NEW p, NEW k, NEW s, NEW t, NEW g, NEW l, Sound(p, k, s, t, g, l), k.state # "gone",
         k.op = "none" \/ (k.op = "write" /\ k.done = "ok"),
         k.op = "write" /\ Plain(p.requests) => p.requests[k.cur].framing # "chunked",
         NEW j \in Connections(p.requests), j.state = "open"
  PROVE  Sound(p, Read(j), s, t, g, l)
<1> DEFINE rs == p.requests
           i == Read(j)
<1>1. s \in Seq(Tokens(rs)) /\ << >> \in Seq(Tokens(rs))
  BY EmptySeq DEF Sound, Typed
<1>2. /\ i.op = "head" /\ i.done = "no" /\ i.state = "open" /\ i.buf = << >>
      /\ i \in Connections(rs)
  BY <1>1 DEF Read, Start, SetTimeout, Connections, Ops
<1> HIDE DEF i
<1>3. Unread(k, s) = s /\ Unread(i, s) = s
  BY <1>1, <1>2, EmptyConcat DEF Unread, Taken
<1>4. ASSUME p.patient PROVE Right(rs, i, s, t, g, l)
  <2> DEFINE f == Append(s, t)[1]
  <2>1. Right(rs, k, s, t, g, l) /\ Chain(rs, Append(s, t)) /\ Turn(rs, k, s, t, g, l) /\ Place(rs, k, f)
    BY <1>3, <1>4 DEF Sound, Right, Live
  <2> HIDE DEF f
  <2>2. Turn(rs, i, s, t, g, l)
    BY <2>1, <1>2 DEF Turn, Busy, Sessions
  <2>3. Place(rs, i, f)
    BY <2>1, <1>2 DEF Place, Sessions
  <2>4. Live(rs, i, s, t, g, l)
    BY <2>1, <2>2, <2>3, <1>3 DEF Live, f
  <2> QED BY <2>1, <2>4, <1>2 DEF Right
<1>5. Formed(rs, i)
  BY <1>2 DEF Formed, Sessions
<1> QED BY <1>4, <1>5 DEF Sound, Typed, i

\* The connection ends.
LEMMA DropSound ==
  ASSUME NEW p, NEW k, NEW s, NEW t, NEW g, NEW l,
         p \in Clients, k \in Connections(p.requests), s \in Seq(Tokens(p.requests)),
         t \in Tokens(p.requests) \cup {NoToken}, g \in Seq(Answers), l \in BOOLEAN,
         p.patient =>
           /\ \A n \in DOMAIN g : n \in DOMAIN p.requests /\ g[n] = [n |-> n, answer |-> Answer(p.requests[n])]
           /\ Plain(p.requests) => k.shut \/ l \/ Len(g) = Asked(p.requests, t)
  PROVE  Sound(p, Drop(k), s, t, g, l)
<1> DEFINE rs == p.requests
           i == Drop(k)
<1>1. << >> \in Seq(Tokens(rs))
  BY EmptySeq
<1>2. i \in Connections(rs) /\ i.state = "gone" /\ i.op = "none" /\ i.done = "no" /\ i.shut = k.shut
  BY <1>1 DEF Drop, Unaccepted, Connections, Ops
<1> HIDE DEF i
<1>3. Formed(rs, i)
  BY <1>2 DEF Formed, Sessions
<1>4. p.patient => Right(rs, i, s, t, g, l)
  BY <1>2 DEF Right
<1> QED BY <1>3, <1>4 DEF Sound, Typed, i

\* The next operation of a session.
Asking(rs, k, q, t, g, l) ==
  /\ \A n \in DOMAIN g : n \in DOMAIN rs /\ g[n] = [n |-> n, answer |-> Answer(rs[n])]
  /\ Chain(rs, Append(q, t)) /\ Quiet(q)
  /\ k.cur = Asked(rs, t) /\ (l \/ Len(g) = Asked(rs, t) - 1)

LEMMA StartSound ==
  ASSUME NEW p, NEW k, NEW s, NEW t, NEW g, NEW l,
         p \in Clients, k \in Connections(p.requests), s \in Seq(Tokens(p.requests)),
         t \in Tokens(p.requests) \cup {NoToken}, g \in Seq(Answers), l \in BOOLEAN,
         k.state = "open", NEW op \in Sessions, NEW need \in Nat, k.cur \in DOMAIN p.requests,
         op \in {"size", "data", "end"} => p.requests[k.cur].framing = "chunked",
         op \in {"data", "end"} => k.chunks = << >>,
         p.patient => LET j == Start(k, op, need)
                          q == Unread(j, s)
                      IN Asking(p.requests, k, q, t, g, l) /\ Place(p.requests, j, Append(q, t)[1])
  PROVE  Sound(p, Start(k, op, need), s, t, g, l)
<1> DEFINE rs == p.requests
           j == Start(k, op, need)
<1>1. /\ j \in Connections(rs) /\ j.state = "open" /\ j.op = op /\ j.done = "no" /\ j.cur = k.cur
      /\ j.chunks = k.chunks
  BY DEF Start, Connections, Sessions, Ops
<1>2. p.patient => Asking(rs, k, Unread(j, s), t, g, l) /\ Place(rs, j, Append(Unread(j, s), t)[1])
  OBVIOUS
<1> HIDE DEF j
<1>3. Formed(rs, j)
  BY <1>1 DEF Formed, Sessions
<1>4. Busy(j)
  BY <1>1 DEF Busy
<1>5. p.patient => Live(rs, j, s, t, g, l)
  BY <1>1, <1>2, <1>4 DEF Live, Asking, Turn
<1>6. p.patient => Right(rs, j, s, t, g, l)
  BY <1>1, <1>2, <1>5 DEF Right, Asking
<1> QED BY <1>3, <1>6 DEF Sound, Typed, j

-----------------------------------------------------------------------------
\* The content is whole: the answer goes out, or there is no resource.
LEMMA WriteSound ==
  ASSUME NEW p, NEW k, NEW s, NEW t, NEW g, NEW l,
         p \in Clients, k \in Connections(p.requests), s \in Seq(Tokens(p.requests)),
         t \in Tokens(p.requests) \cup {NoToken}, g \in Seq(Answers), l \in BOOLEAN,
         k.state = "open", k.cur \in DOMAIN p.requests,
         p.patient =>
           /\ Asking(p.requests, k, s, t, g, l) /\ Piece(k.buf, k.cur)
           /\ Len(k.buf) = ContentLength(p.requests[k.cur])
           /\ p.requests[k.cur].framing # "chunked" => Boundary(Append(s, t)[1])
  PROVE  Sound(p, FindResource(k, p.requests[k.cur]), s, t, g, l)
<1> DEFINE rs == p.requests
           r == rs[k.cur]
           j == Start(k, "write", 0)
<1>1. CASE r.method = "GET"
  <2>1. /\ j.op = "write" /\ j.done = "no" /\ j.buf = k.buf /\ j.cur = k.cur /\ Taken(j) = << >>
    BY DEF Start, Connections, Taken
  <2>2. Unread(j, s) = s
    BY <2>1, EmptyConcat DEF Unread
  <2> HIDE DEF j
  <2>3. p.patient => Asking(rs, k, s, t, g, l) /\ Place(rs, j, Append(s, t)[1])
    BY <2>1 DEF Place, Sessions, Piece
  <2>4. Sound(p, j, s, t, g, l)
    BY <2>2, <2>3, StartSound DEF Sessions, j
  <2> QED BY <1>1, <2>4 DEF FindResource, j
<1>2. CASE r.method # "GET"
  <2>1. FindResource(k, r) = Drop(k)
    BY <1>2 DEF FindResource
  <2>2. ~Plain(rs)
    BY <1>2 DEF Plain
  <2> QED BY <2>1, <2>2, DropSound DEF Asking
<1> QED BY <1>1, <1>2

LEMMA SoundFacts ==
  ASSUME NEW p, NEW k, NEW s, NEW t, NEW g, NEW l, Sound(p, k, s, t, g, l)
  PROVE  /\ p \in Clients /\ p.requests \in Seq(Requests) /\ k \in Connections(p.requests)
         /\ Formed(p.requests, k) /\ s \in Seq(Tokens(p.requests))
         /\ t \in Tokens(p.requests) \cup {NoToken} /\ g \in Seq(Answers) /\ l \in BOOLEAN
         /\ k.buf \in Seq(Tokens(p.requests)) /\ k.chunks \in Seq(Tokens(p.requests))
         /\ k.op \in Sessions =>
              k.cur \in DOMAIN p.requests /\ p.requests[k.cur] \in Requests /\ k.cur \in Nat
BY DEF Sound, Typed, Clients, Formed, Connections

LEMMA LiveFacts ==
  ASSUME NEW p, NEW k, NEW s, NEW t, NEW g, NEW l, Sound(p, k, s, t, g, l), p.patient,
         k.state = "open"
  PROVE  /\ Right(p.requests, k, s, t, g, l)
         /\ Chain(p.requests, Append(Unread(k, s), t))
         /\ Turn(p.requests, k, Unread(k, s), t, g, l)
         /\ Place(p.requests, k, Append(Unread(k, s), t)[1])
         /\ Busy(k) => Asking(p.requests, k, Unread(k, s), t, g, l)
<1>1. Right(p.requests, k, s, t, g, l) /\ Live(p.requests, k, s, t, g, l)
  BY DEF Sound, Right
<1> QED BY <1>1 DEF Live, Asking, Right, Turn

\* Content of a known length is complete.
LEMMA ContentReadSound ==
  ASSUME NEW p, NEW k, NEW s, NEW t, NEW g, NEW l, Sound(p, k, s, t, g, l),
         k.state = "open", k.op = "content", k.done = "ok"
  PROVE  Sound(p, FindResource(k, p.requests[k.cur]), s, t, g, l)
<1>1. Unread(k, s) = s
  BY SoundFacts, EmptyConcat DEF Unread, Taken
<1>2. p.patient =>
        /\ Asking(p.requests, k, s, t, g, l) /\ Piece(k.buf, k.cur)
        /\ Len(k.buf) = ContentLength(p.requests[k.cur]) /\ Boundary(Append(s, t)[1])
  BY <1>1, LiveFacts DEF Busy, Place, Piece, Sessions
<1> QED BY <1>2, SoundFacts, WriteSound DEF Sessions

\* A chunk is complete; the end of the chunk is complete.
LEMMA DataReadSound ==
  ASSUME NEW p, NEW k, NEW s, NEW t, NEW g, NEW l, Sound(p, k, s, t, g, l),
         k.state = "open", k.op = "data", k.done = "ok"
  PROVE  Sound(p, Start(k, "end", 2), s, t, g, l)
<1> DEFINE rs == p.requests
           j == Start(k, "end", 2)
<1>1. /\ j.op = "end" /\ j.done = "no" /\ j.buf = k.buf /\ j.cur = k.cur /\ j.need = 2
      /\ k.chunks = << >> /\ rs[k.cur].framing = "chunked"
  BY SoundFacts DEF Start, Connections, Formed
<1>2. Unread(k, s) = s /\ Unread(j, s) = s
  BY <1>1, SoundFacts, EmptyConcat DEF Unread, Taken
<1> HIDE DEF j
<1>3. ASSUME p.patient PROVE Asking(rs, k, s, t, g, l) /\ Place(rs, j, Append(s, t)[1])
  <2> DEFINE f == Append(s, t)[1]
  <2>1. Asking(rs, k, s, t, g, l) /\ Place(rs, k, f)
    BY <1>2, <1>3, LiveFacts DEF Busy, Sessions
  <2> HIDE DEF f
  <2>2. Place(rs, j, f)
    BY <2>1, <1>1 DEF Place, Sessions
  <2> QED BY <2>1, <2>2 DEF f
<1> QED BY <1>1, <1>2, <1>3, SoundFacts, StartSound DEF Sessions, j

LEMMA EndReadSound ==
  ASSUME NEW p, NEW k, NEW s, NEW t, NEW g, NEW l, Sound(p, k, s, t, g, l),
         k.state = "open", k.op = "end", k.done = "ok"
  PROVE  Sound(p, Start(k, "size", 0), s, t, g, l)
<1> DEFINE rs == p.requests
           j == Start(k, "size", 0)
<1>1. /\ j.op = "size" /\ j.done = "no" /\ j.buf = k.buf /\ j.cur = k.cur /\ j.chunks = k.chunks
      /\ k.chunks = << >> /\ rs[k.cur].framing = "chunked" /\ s \in Seq(Tokens(rs))
  BY SoundFacts DEF Start, Connections, Formed
<1>2. Unread(k, s) = s /\ Unread(j, s) = s
  BY <1>1, EmptyConcat DEF Unread, Taken
<1> HIDE DEF j
<1>3. ASSUME p.patient PROVE Asking(rs, k, s, t, g, l) /\ Place(rs, j, Append(s, t)[1])
  <2> DEFINE f == Append(s, t)[1]
  <2>1. Asking(rs, k, s, t, g, l) /\ Place(rs, k, f)
    BY <1>2, <1>3, LiveFacts DEF Busy, Sessions
  <2> HIDE DEF f
  <2>2. Place(rs, j, f)
    BY <2>1, <1>1 DEF Place, Sessions
  <2> QED BY <2>1, <2>2 DEF f
<1> QED BY <1>1, <1>2, <1>3, SoundFacts, StartSound DEF Sessions, j

\* The response is out: the next session, or the end of the connection.
LEMMA WrittenSound ==
  ASSUME NEW p, NEW k, NEW s, NEW t, NEW g, NEW l, Sound(p, k, s, t, g, l),
         k.state = "open", k.op = "write", k.done = "ok"
  PROVE  Sound(p, Answered(k, p.requests[k.cur]), s, t, g, l)
<1> DEFINE rs == p.requests
           r == rs[k.cur]
<1>1. k.cur \in DOMAIN rs /\ rs \in Seq(Requests) /\ k \in Connections(rs)
  BY SoundFacts DEF Sessions
<1>2. CASE KeepsAlive(r)
  <2> DEFINE j == CancelTimeout(k)
  <2>1. j \in Connections(rs) /\ j.state = "open"
    BY <1>1 DEF CancelTimeout, Connections
  <2> HIDE DEF j
  <2>2. Plain(rs) => r.framing # "chunked"
    BY <1>1, <1>2 DEF Plain
  <2>3. Sound(p, Read(j), s, t, g, l)
    BY <2>1, <2>2, ReadSound
  <2> QED BY <1>2, <2>3 DEF Answered, j
<1>3. CASE ~KeepsAlive(r)
  <2>1. ASSUME p.patient
        PROVE  /\ \A n \in DOMAIN g : n \in DOMAIN rs /\ g[n] = [n |-> n, answer |-> Answer(rs[n])]
               /\ Plain(rs) => k.shut \/ l \/ Len(g) = Asked(rs, t)
    <3>1. Right(rs, k, s, t, g, l) /\ Turn(rs, k, Unread(k, s), t, g, l)
      BY <2>1, LiveFacts
    <3>2. (l \/ Len(g) = k.cur) /\ (l \/ Len(g) = Asked(rs, t) \/ Len(g) = Asked(rs, t) - 1)
      BY <3>1 DEF Turn, Busy
    <3>3. Plain(rs) => k.cur >= Len(rs)
      BY <1>1, <1>3 DEF Plain
    <3>4. Asked(rs, t) \in 0 .. Len(rs) /\ Len(rs) \in Nat /\ Len(g) \in Nat /\ k.cur \in 1 .. Len(rs)
      BY <1>1, SoundFacts, AskedFacts
    <3>5. Plain(rs) => l \/ Len(g) = Asked(rs, t)
      BY <3>2, <3>3, <3>4
    <3> QED BY <3>1, <3>5 DEF Right
  <2>2. Sound(p, Drop(k), s, t, g, l)
    BY <2>1, SoundFacts, DropSound
  <2> QED BY <1>3, <2>2 DEF Answered
<1> QED BY <1>2, <1>3

LEMMA FailedSound ==
  ASSUME NEW p, NEW k, NEW s, NEW t, NEW g, NEW l, Sound(p, k, s, t, g, l), k.done = "error"
  PROVE  Sound(p, Drop(k), s, t, g, l)
<1>1. p.patient => Right(p.requests, k, s, t, g, l)
  BY DEF Sound
<1> QED BY <1>1, SoundFacts, DropSound DEF Right

\* A head was read, with what came after it.
LEMMA HeadReadSound ==
  ASSUME NEW p, NEW k, NEW s, NEW t, NEW g, NEW l, Sound(p, k, s, t, g, l),
         k.state = "open", k.op = "head", k.done = "ok"
  PROVE  Sound(p, IF k.buf[1].kind = "head" THEN DispatchHead(k, p.requests[k.buf[1].n]) ELSE Drop(k),
               s, t, g, l)
<1> DEFINE rs == p.requests
           n == k.buf[1].n
           r == rs[n]
           rest == Tail(k.buf)
           j == [SetTimeout(k, "content") EXCEPT !.buf = rest, !.cur = n]
           i == [j EXCEPT !.buf = << >>, !.chunks = rest]
           u == Unread(k, s)
           S == Append(u, t)
           C == ContentLength(r)
<1>1. /\ p \in Clients /\ rs \in Seq(Requests) /\ k \in Connections(rs) /\ s \in Seq(Tokens(rs))
      /\ t \in Tokens(rs) \cup {NoToken} /\ g \in Seq(Answers) /\ l \in BOOLEAN
      /\ k.buf \in Seq(Tokens(rs)) /\ k.buf # << >>
  BY SoundFacts DEF Formed
<1>2. /\ rest \in Seq(Tokens(rs)) /\ Len(k.buf) = Len(rest) + 1 /\ Len(rest) \in Nat
      /\ k.buf[1] \in Tokens(rs) /\ \A x \in 1 .. Len(rest) : rest[x] = k.buf[x + 1]
  <2>1. /\ rest \in Seq(Tokens(rs)) /\ Len(rest) = Len(k.buf) - 1 /\ Len(k.buf) \in Nat \ {0}
        /\ k.buf[1] \in Tokens(rs) /\ \A x \in 1 .. Len(k.buf) - 1 : rest[x] = k.buf[x + 1]
    BY <1>1, TailFacts
  <2> QED BY <2>1
<1>3. u \in Seq(Tokens(rs)) /\ u = k.buf \o s
  BY <1>1, UnreadType DEF Unread, Taken
<1>4. /\ Len(u) = Len(k.buf) + Len(s) /\ Len(s) \in Nat
      /\ \A x \in 1 .. Len(k.buf) : u[x] = k.buf[x]
      /\ \A x \in 1 .. Len(s) : u[Len(k.buf) + x] = s[x]
  BY <1>1, <1>3, ConcatFacts
<1>5. /\ Len(S) = Len(u) + 1 /\ \A x \in 1 .. Len(u) : S[x] = u[x] /\ u[x] \in Tokens(rs)
  BY <1>3, AppendFacts
<1>6. rest \o s \in Seq(Tokens(rs)) /\ IsRest(u, rest \o s, 1)
  <2>1. IsRest(k.buf, rest, 1)
    BY <1>2 DEF IsRest
  <2> QED BY <2>1, <1>1, <1>2, <1>3, RestConcat
<1>7. IsRest(u, s, Len(k.buf))
  BY <1>1, <1>3, RestAll
<1> HIDE DEF u, rest, S
<1>8. ASSUME k.buf[1].kind # "head" PROVE Sound(p, Drop(k), s, t, g, l)
  <2>1. ASSUME p.patient
        PROVE  /\ \A x \in DOMAIN g : x \in DOMAIN rs /\ g[x] = [n |-> x, answer |-> Answer(rs[x])]
               /\ ~Plain(rs)
    <3>1. Right(rs, k, s, t, g, l) /\ Place(rs, k, S[1])
      BY <2>1, LiveFacts DEF S, u
    <3>2. S[1] = k.buf[1] /\ k.buf[1].kind \in Kinds
      <4>1. 1 \in 1 .. Len(k.buf) /\ 1 \in 1 .. Len(u)
        BY <1>2, <1>4
      <4> QED BY <4>1, <1>2, <1>4, <1>5 DEF Tokens
    <3> QED BY <3>1, <3>2, <1>8 DEF Right, Place, Boundary, Kinds
  <2> QED BY <2>1, <1>1, DropSound
<1>9. ASSUME k.buf[1].kind = "head" PROVE Sound(p, DispatchHead(k, r), s, t, g, l)
  <2>1. n \in DOMAIN rs /\ n \in Nat /\ r \in Requests
    <3>1. n \in DOMAIN rs /\ n \in Nat
      BY <1>2 DEF Tokens
    <3> HIDE DEF n
    <3> QED BY <3>1, <1>1
  <2>2. /\ j \in Connections(rs) /\ j.state = "open" /\ j.cur = n /\ j.buf = rest
        /\ i \in Connections(rs) /\ i.state = "open" /\ i.cur = n /\ i.buf = << >> /\ i.chunks = rest
    <3>1. /\ j \in Connections(rs) /\ j.state = "open" /\ j.cur = n /\ j.buf = rest
      <4> HIDE DEF n
      <4> QED BY <1>1, <1>2, <2>1 DEF SetTimeout, Connections
    <3> HIDE DEF j, n
    <3>2. << >> \in Seq(Tokens(rs))
      BY EmptySeq
    <3> QED BY <3>1, <3>2, <1>2 DEF Connections
  <2>3. C \in Nat /\ Begins(r, 1) = 0
    <3>1. 1 \in 1 .. Len(r.ends) + 1
      BY <2>1 DEF Requests
    <3> QED BY <3>1, <2>1, RequestFacts
  <2>4. r.framing = "length" => Len(r.ends) = 1 /\ C = Ends(r, 1)
    <3>1. 1 \in 1 .. Len(r.ends) + 1
      BY <2>1 DEF Requests
    <3> QED BY <3>1, <2>1, RequestFacts
  <2> HIDE DEF C, i, j
  <2>5. ASSUME p.patient
        PROVE  /\ Right(rs, k, s, t, g, l) /\ Chain(rs, S)
               /\ n = Asked(rs, t) /\ (l \/ Len(g) = Asked(rs, t) - 1) /\ Quiet(rest \o s) /\ Quiet(s)
               /\ S[2] = After(rs, k.buf[1])
               /\ S[2] = IF r.framing = "chunked" THEN SizeLine(r, n, 1)
                         ELSE IF 0 < C THEN Token("byte", n, 1, 1) ELSE HeadOf(rs, n + 1)
    <3>1. Right(rs, k, s, t, g, l) /\ Chain(rs, S) /\ Turn(rs, k, u, t, g, l)
      BY <2>5, LiveFacts DEF S, u
    <3>2. 1 \in 1 .. Len(k.buf) /\ 1 \in 1 .. Len(u) /\ 1 \in 1 .. Len(S) - 1
      BY <1>2, <1>4, <1>5
    <3>3. u[1] = k.buf[1] /\ S[1] = k.buf[1]
      BY <3>2, <1>4, <1>5
    <3>4. ~Quiet(u) /\ ~Busy(k)
      BY <3>2, <3>3, <1>9 DEF Quiet, Busy, Sessions
    <3>5. OneHead(u, Asked(rs, t)) /\ (l \/ Len(g) = Asked(rs, t) - 1)
      BY <3>1, <3>4 DEF Turn
    <3>6. n = Asked(rs, t) /\ \A x \in 1 .. Len(u) : u[x].kind = "head" => x = 1
      BY <3>2, <3>3, <3>5, <1>9 DEF OneHead
    <3>7. Quiet(rest \o s)
      <4> SUFFICES ASSUME NEW x \in 1 .. Len(rest \o s) PROVE (rest \o s)[x].kind # "head"
        BY DEF Quiet
      <4>1. (rest \o s)[x] = u[x + 1] /\ x + 1 \in 1 .. Len(u) /\ x + 1 # 1
        BY <1>6 DEF IsRest
      <4> QED BY <4>1, <3>6
    <3>8. Quiet(s)
      <4> SUFFICES ASSUME NEW x \in 1 .. Len(s) PROVE s[x].kind # "head"
        BY DEF Quiet
      <4>1. s[x] = u[Len(k.buf) + x] /\ Len(k.buf) + x \in 1 .. Len(u) /\ Len(k.buf) + x # 1
        BY <1>2, <1>4
      <4> QED BY <4>1, <3>6
    <3>9. S[2] = After(rs, k.buf[1])
      BY <3>1, <3>2, <3>3 DEF Chain
    <3>10. After(rs, k.buf[1]) = IF r.framing = "chunked" THEN SizeLine(r, n, 1)
                                ELSE IF 0 < C THEN Token("byte", n, 1, 1) ELSE HeadOf(rs, n + 1)
      BY <1>1, <1>2, <1>9, AfterFacts DEF C
    <3> QED BY <3>1, <3>5, <3>6, <3>7, <3>8, <3>9, <3>10
  <2>6. ASSUME p.patient
        PROVE  /\ Chain(rs, Append(s, t)) /\ Append(s, t)[1] = S[Len(rest) + 2]
               /\ Chain(rs, Append(rest \o s, t)) /\ Append(rest \o s, t)[1] = S[2]
    <3>1. Chain(rs, Append(u, t))
      BY <2>5, <2>6 DEF S
    <3>2. Chain(rs, Append(s, t)) /\ Append(s, t)[1] = Append(u, t)[Len(k.buf) + 1]
      <4>1. Len(k.buf) \in Nat
        BY <1>2
      <4>2. Chain(rs, Append(s, t))
        BY <4>1, <3>1, <1>1, <1>3, <1>7, RestFacts
      <4>3. Append(s, t)[1] = Append(u, t)[Len(k.buf) + 1]
        BY <4>1, <1>1, <1>3, <1>7, RestFacts
      <4> QED BY <4>2, <4>3
    <3>3. Chain(rs, Append(rest \o s, t)) /\ Append(rest \o s, t)[1] = Append(u, t)[1 + 1]
      <4>2. Chain(rs, Append(rest \o s, t))
        BY <3>1, <1>3, <1>6, RestFacts
      <4> DEFINE d == 1
      <4>1. d \in Nat /\ IsRest(u, rest \o s, d)
        BY <1>6
      <4> HIDE DEF d
      <4>3. Append(rest \o s, t)[1] = Append(u, t)[d + 1]
        BY <4>1, <1>3, <1>6, RestFacts
      <4> USE DEF d
      <4> QED BY <4>2, <4>3
    <3>4. Len(k.buf) + 1 = Len(rest) + 2 /\ 1 + 1 = 2
      BY <1>2
    <3> QED BY <3>2, <3>3, <3>4 DEF S
  <2>7. ASSUME p.patient, r.framing = "length", 0 < C, Len(rest) <= C
        PROVE  /\ Piece(rest, n)
               /\ Len(rest) < C => S[Len(rest) + 2] = Token("byte", n, 1, Len(rest) + 1)
               /\ Len(rest) = C => S[Len(rest) + 2] = HeadOf(rs, n + 1)
    <3>1. S[2] = Token("byte", n, 1, 1)
      BY <2>5, <2>7
    <3> DEFINE e == << >>
    <3>2. e \in Seq(Tokens(rs)) /\ Len(e) = 0 /\ Piece(e, n) /\ e \o rest = rest
      BY <1>2, EmptySeq, EmptyConcat DEF Piece
    <3> HIDE DEF e
    <3>3. \A x \in 1 .. Len(rest) : rest[x] = S[2 + x - 1]
      <4> SUFFICES ASSUME NEW x \in 1 .. Len(rest) PROVE rest[x] = S[2 + x - 1]
        OBVIOUS
      <4>1. x + 1 \in 1 .. Len(k.buf) /\ x + 1 \in 1 .. Len(u) /\ 2 + x - 1 = x + 1
        BY <1>2, <1>4
      <4> QED BY <4>1, <1>2, <1>4, <1>5
    <3>4. /\ 2 \in 1 .. Len(u) + 1 /\ 2 + Len(rest) <= Len(u) + 1
          /\ Len(rest) <= C - 0 /\ C = Ends(r, 1)
      BY <1>2, <1>4, <2>3, <2>4, <2>7
    <3>5. S = Append(u, t) /\ Chain(rs, S)
      BY <2>5, <2>7 DEF S
    <3>6. S[2].kind = "byte" /\ S[2].n = n /\ S[2].val = 0 + 1 /\ S[2].part = 1
      BY <3>1 DEF Token
    <3>7. Continues(rs, u, t, S, 2, e, n, rest)
      BY <3>2, <3>3, <3>4, <3>5, <3>6, <1>1, <1>2, <1>3 DEF Continues
    <3>8. Piece(e \o rest, n)
      BY <3>7, MovedFacts DEF Moved
    <3>9. Len(rest) < C => S[2 + Len(rest)] = Token("byte", n, 1, Len(rest) + 1)
      <4>1. Len(rest) < Ends(rs[n], S[2].part) - Len(e) =>
              S[2 + Len(rest)] = Token("byte", n, S[2].part, Len(e) + Len(rest) + 1)
        BY <3>7, MovedFacts DEF Moved
      <4>2. Ends(rs[n], S[2].part) - Len(e) = C /\ Len(e) + Len(rest) + 1 = Len(rest) + 1 /\ S[2].part = 1
        BY <3>2, <3>4, <3>6, <1>2, <2>3
      <4> QED BY <4>1, <4>2
    <3>10. Len(rest) = C => S[2 + Len(rest)] = HeadOf(rs, n + 1)
      <4>1. Len(rest) = Ends(rs[n], S[2].part) - Len(e) =>
              S[2 + Len(rest)] = IF rs[n].framing = "chunked" THEN Token("cr", n, S[2].part, 0)
                                 ELSE HeadOf(rs, n + 1)
        BY <3>7, MovedFacts DEF Moved
      <4>2. Ends(rs[n], S[2].part) - Len(e) = C
        BY <3>2, <3>4, <3>6, <2>3
      <4> QED BY <4>1, <4>2, <2>7
    <3>11. 2 + Len(rest) = Len(rest) + 2
      BY <1>2
    <3> QED BY <3>2, <3>8, <3>9, <3>10, <3>11
  <2>8. ASSUME p.patient, NEW x \in 1 .. Len(rest) PROVE ~Boundary(S[x + 1])
    <3>1. (rest \o s)[x] = u[x + 1] /\ x \in 1 .. Len(rest \o s) /\ x + 1 \in 1 .. Len(u)
      BY <1>2, <1>4, <1>6 DEF IsRest
    <3>2. S[x + 1] = u[x + 1] /\ u[x + 1].kind # "head" /\ u[x + 1] \in Tokens(rs)
      BY <3>1, <1>5, <2>5, <2>8 DEF Quiet
    <3> QED BY <3>2 DEF Boundary, Tokens, Kinds
  <2>9. Boundary(HeadOf(rs, n + 1))
    BY DEF Boundary, HeadOf, Token, NoToken
  <2>10. CASE r.method = "malformed" \/ r.framing = "broken"
    <3>1. DispatchHead(k, r) = Drop(k)
      BY <2>10 DEF DispatchHead
    <3>2. ~Plain(rs)
      BY <2>1, <2>10 DEF Plain
    <3>3. p.patient => Right(rs, k, s, t, g, l)
      BY <2>5
    <3> QED BY <3>1, <3>2, <3>3, <1>1, DropSound DEF Right
  <2>11. CASE ~(r.method = "malformed" \/ r.framing = "broken") /\ r.framing = "length" /\ C > Len(rest)
    <3> DEFINE z == Start(j, "content", C - Len(rest))
    <3>1. DispatchHead(k, r) = z
      BY <2>11 DEF DispatchHead, j, C, rest
    <3>2. /\ z.op = "content" /\ z.done = "no" /\ z.buf = rest /\ z.cur = n /\ z.need = C - Len(rest)
          /\ C - Len(rest) \in Nat
      BY <2>2, <2>3, <2>11, <1>2 DEF Start, Connections
    <3>3. Unread(z, s) = s
      BY <3>2, <1>1, EmptyConcat DEF Unread, Taken
    <3> HIDE DEF z
    <3>4. ASSUME p.patient PROVE Asking(rs, j, s, t, g, l) /\ Place(rs, z, Append(s, t)[1])
      <4>1. Asking(rs, j, s, t, g, l)
        BY <2>2, <2>5, <2>6, <3>4 DEF Asking, Right
      <4>2. 0 < C /\ Len(rest) <= C
        BY <2>3, <2>11, <1>2
      <4>3. Piece(rest, n) /\ Append(s, t)[1] = Token("byte", n, 1, Len(rest) + 1)
        BY <4>2, <2>6, <2>7, <2>11, <3>4
      <4> QED BY <4>1, <4>3, <3>2, <2>11 DEF Place, Piece, Sessions, Token, C
    <3>5. Sound(p, z, s, t, g, l)
      BY <3>2, <3>3, <3>4, <1>1, <2>1, <2>2, StartSound DEF Sessions, z
    <3> QED BY <3>1, <3>5
  <2>12. CASE ~(r.method = "malformed" \/ r.framing = "broken") /\ r.framing = "chunked"
    <3> DEFINE z == Start(i, "size", 0)
    <3>1. DispatchHead(k, r) = z
      BY <2>12 DEF DispatchHead, i, j, rest
    <3>2. z.op = "size" /\ z.done = "no" /\ z.buf = << >> /\ z.cur = n /\ z.chunks = rest
      BY <2>2 DEF Start, Connections
    <3>3. Unread(z, s) = rest \o s
      BY <3>2 DEF Unread, Taken
    <3> HIDE DEF z
    <3>4. ASSUME p.patient
          PROVE  Asking(rs, i, rest \o s, t, g, l) /\ Place(rs, z, Append(rest \o s, t)[1])
      <4>1. Asking(rs, i, rest \o s, t, g, l)
        BY <2>2, <2>5, <2>6, <3>4 DEF Asking, Right
      <4>2. Append(rest \o s, t)[1] = SizeLine(r, n, 1)
        BY <2>5, <2>6, <2>12, <3>4
      <4> QED BY <4>1, <4>2, <3>2, <2>3 DEF Place, Sessions, SizeLine, Token
    <3>5. Sound(p, z, s, t, g, l)
      BY <3>2, <3>3, <3>4, <1>1, <2>1, <2>2, <2>12, StartSound DEF Sessions, z
    <3> QED BY <3>1, <3>5
  <2>13. CASE ~(r.method = "malformed" \/ r.framing = "broken") /\ r.framing # "chunked"
              /\ ~(r.framing = "length" /\ C > Len(rest))
    <3>1. DispatchHead(k, r) = FindResource(j, r)
      BY <2>13 DEF DispatchHead, j, C, rest
    <3>2. r.framing = "none" => C = 0
      BY <2>1 DEF C, ContentLength, Begins, Requests
    <3>3. r.framing \in {"none", "length"}
      BY <2>1, <2>13 DEF Requests
    <3>4. ASSUME p.patient
          PROVE  Len(rest) = C /\ Piece(rest, n) /\ Boundary(S[Len(rest) + 2])
      <4>1. CASE C = 0
        <5>1. S[2] = HeadOf(rs, n + 1)
          BY <4>1, <2>5, <2>13, <3>4
        <5>2. Len(rest) = 0
          <6>1. 1 \notin 1 .. Len(rest)
            BY <5>1, <2>8, <2>9, <3>4
          <6> QED BY <6>1, <1>2
        <5>3. Piece(rest, n)
          BY <5>2 DEF Piece
        <5> QED BY <4>1, <5>1, <5>2, <5>3, <2>9
      <4>2. CASE 0 < C
        <5>1. r.framing = "length" /\ C <= Len(rest) /\ C = Ends(r, 1)
          BY <4>2, <3>2, <3>3, <2>3, <2>4, <2>13, <1>2
        <5>2. S[2] = Token("byte", n, 1, 1) /\ S[2].kind = "byte" /\ S[2].n = n /\ S[2].part = 1 /\ S[2].val = 1
          BY <4>2, <5>1, <2>5, <3>4 DEF Token
        <5>3. 2 \in 1 .. Len(u) + 1 /\ Append(u, t)[2] = S[2] /\ Chain(rs, Append(u, t))
          BY <1>2, <1>4, <2>5, <3>4 DEF S
        <5> DEFINE f == S[2]
                   m == Ends(rs[f.n], f.part) - f.val
        <5>8. m = C - 1
          <6>1. f.n = n /\ f.part = 1 /\ f.val = 1
            BY <5>2
          <6> HIDE DEF f
          <6>2. rs[f.n] = r /\ Ends(rs[f.n], f.part) = C
            BY <6>1, <5>1
          <6> QED BY <6>1, <6>2
        <5>9. 2 + m + 1 <= Len(u) + 1 =>
                S[2 + m + 1] = IF rs[f.n].framing = "chunked" THEN Token("cr", f.n, f.part, 0)
                               ELSE HeadOf(rs, f.n + 1)
          BY <5>2, <5>3, <1>1, <1>3, RunFacts DEF S
        <5> HIDE DEF m, f
        <5>4. 2 + (C - 1) + 1 <= Len(u) + 1 =>
                S[2 + (C - 1) + 1] = IF rs[n].framing = "chunked" THEN Token("cr", n, 1, 0)
                                     ELSE HeadOf(rs, n + 1)
          <6>1. f.n = n /\ f.part = 1
            BY <5>2 DEF f
          <6> QED BY <5>8, <5>9, <6>1
        <5>5. Len(rest) = C
          <6> SUFFICES ASSUME C < Len(rest) PROVE FALSE
            BY <5>1, <1>2, <2>3
          <6>1. /\ 2 + (C - 1) + 1 = (C + 1) + 1 /\ C + 1 \in 1 .. Len(rest)
                /\ 2 + (C - 1) + 1 <= Len(u) + 1
            BY <1>2, <1>4, <2>3
          <6>2. S[(C + 1) + 1] = HeadOf(rs, n + 1)
            <7> DEFINE d == 2 + (C - 1) + 1
                       h == (C + 1) + 1
            <7>1. d = h /\ d <= Len(u) + 1
              BY <6>1
            <7> HIDE DEF h
            <7>2. d <= Len(u) + 1 => S[d] = IF r.framing = "chunked" THEN Token("cr", n, 1, 0)
                                             ELSE HeadOf(rs, n + 1)
              BY <5>4
            <7> HIDE DEF d
            <7>3. S[h] = HeadOf(rs, n + 1)
              BY <7>1, <7>2, <5>1
            <7> QED BY <7>3 DEF h
          <6> QED BY <6>1, <6>2, <2>8, <2>9, <3>4
        <5>6. Piece(rest, n) /\ S[Len(rest) + 2] = HeadOf(rs, n + 1)
          BY <4>2, <5>1, <5>5, <2>7, <3>4, <1>2
        <5> QED BY <5>5, <5>6, <2>9
      <4> QED BY <4>1, <4>2, <2>3
    <3>5. p.patient =>
            /\ Asking(rs, j, s, t, g, l) /\ Piece(j.buf, j.cur)
            /\ Len(j.buf) = ContentLength(rs[j.cur]) /\ Boundary(Append(s, t)[1])
      BY <3>4, <2>2, <2>5, <2>6 DEF Asking, Right, C
    <3>6. Sound(p, FindResource(j, rs[j.cur]), s, t, g, l)
      BY <3>5, <1>1, <2>1, <2>2, WriteSound
    <3> QED BY <3>1, <3>6, <2>2
  <2> QED BY <2>10, <2>11, <2>12, <2>13
<1> QED BY <1>8, <1>9

\* The line with the size of a chunk was read, with what came after it.
LEMMA SizeReadSound ==
  ASSUME NEW p, NEW k, NEW s, NEW t, NEW g, NEW l, Sound(p, k, s, t, g, l),
         k.state = "open", k.op = "size", k.done = "ok"
  PROVE  Sound(p, NextChunk(k, p.requests[k.cur]), s, t, g, l)
<1> DEFINE rs == p.requests
           n == k.cur
           r == rs[n]
           line == k.chunks[1]
           size == line.val
           part == line.part
           rest == Tail(k.chunks)
           len == Len(rest)
           moved == IF size < len THEN size ELSE len
           v == SubSeq(rest, 1, moved)
           w == k.buf \o v
           left2 == SubSeq(rest, moved + 1, len)
           left3 == SubSeq(left2, 3, Len(left2))
           j(B, Q) == [k EXCEPT !.buf = B, !.chunks = Q]
           u == Unread(k, s)
           S == Append(u, t)
           b == Len(k.buf)
<1>1. /\ p \in Clients /\ rs \in Seq(Requests) /\ k \in Connections(rs) /\ s \in Seq(Tokens(rs))
      /\ t \in Tokens(rs) \cup {NoToken} /\ g \in Seq(Answers) /\ l \in BOOLEAN
      /\ k.buf \in Seq(Tokens(rs)) /\ k.chunks \in Seq(Tokens(rs)) /\ k.chunks # << >>
      /\ n \in DOMAIN rs /\ n \in Nat /\ r \in Requests /\ r.framing = "chunked" /\ b \in Nat
  BY SoundFacts DEF Formed, Sessions
<1>2. /\ rest \in Seq(Tokens(rs)) /\ Len(k.chunks) = len + 1 /\ len \in Nat
      /\ line \in Tokens(rs) /\ \A x \in 1 .. len : rest[x] = k.chunks[x + 1]
  <2>1. /\ rest \in Seq(Tokens(rs)) /\ Len(rest) = Len(k.chunks) - 1 /\ Len(k.chunks) \in Nat \ {0}
        /\ k.chunks[1] \in Tokens(rs) /\ \A x \in 1 .. Len(k.chunks) - 1 : rest[x] = k.chunks[x + 1]
    BY <1>1, TailFacts
  <2> QED BY <2>1
<1>3. size \in Nat /\ part \in Nat /\ moved \in Nat /\ moved <= len /\ moved <= size
  <2>1. size \in Nat /\ part \in Nat
    BY <1>2 DEF Tokens
  <2> HIDE DEF size, len
  <2> QED BY <2>1, <1>2
<1>4. v \in Seq(Tokens(rs)) /\ Len(v) = moved /\ \A x \in 1 .. moved : v[x] = rest[x]
  <2> HIDE DEF moved
  <2> QED BY <1>2, <1>3, PrefixFacts
<1>5. left2 \in Seq(Tokens(rs)) /\ IsRest(rest, left2, moved)
  <2> HIDE DEF moved
  <2> QED BY <1>2, <1>3, SuffixFacts
<1>6. w \in Seq(Tokens(rs))
  BY <1>1, <1>4, ConcatFacts
<1>7. u \in Seq(Tokens(rs)) /\ u = k.chunks \o s
  BY <1>1, UnreadType DEF Unread, Taken
<1>8. /\ Len(u) = Len(k.chunks) + Len(s) /\ Len(s) \in Nat
      /\ \A x \in 1 .. Len(k.chunks) : u[x] = k.chunks[x]
  BY <1>1, <1>7, ConcatFacts
<1>9. /\ Len(S) = Len(u) + 1 /\ \A x \in 1 .. Len(u) : S[x] = u[x] /\ u[x] \in Tokens(rs)
  BY <1>7, AppendFacts
<1>10. IsRest(u, s, Len(k.chunks))
  BY <1>1, <1>7, RestAll
<1>23. /\ Len(k.chunks) = len + 1 /\ Len(u) = len + 1 + Len(s) /\ Len(S) = Len(u) + 1
       /\ len \in Nat /\ Len(s) \in Nat /\ Len(u) \in Nat
  <2> HIDE DEF len, u, S
  <2>1. Len(k.chunks) = len + 1 /\ len \in Nat
    BY <1>2
  <2>2. Len(u) = Len(k.chunks) + Len(s) /\ Len(s) \in Nat
    BY <1>8
  <2>3. Len(S) = Len(u) + 1
    BY <1>9
  <2> QED BY <2>1, <2>2, <2>3
<1>11. ASSUME NEW B \in Seq(Tokens(rs)), NEW Q \in Seq(Tokens(rs))
       PROVE  /\ j(B, Q) \in Connections(rs) /\ j(B, Q).state = "open" /\ j(B, Q).cur = n
              /\ j(B, Q).buf = B /\ j(B, Q).chunks = Q
              /\ \A R : [j(B, Q) EXCEPT !.chunks = R] = j(B, R)
  BY <1>1 DEF Connections
<1>12. << >> \in Seq(Tokens(rs))
  BY EmptySeq
<1>13. NextChunk(k, r) = IF line.kind # "size" THEN Drop(k)
                        ELSE IF size = 0 THEN FindResource(k, r)
                        ELSE IF size > len THEN Start(j(w, left2), "data", size - len)
                        ELSE IF size + 2 > len THEN Start(j(w, << >>), "end", size + 2 - len)
                        ELSE Start(j(w, left3), "size", 0)
  <2>1. /\ [j(w, left2) EXCEPT !.chunks = << >>] = j(w, << >>)
        /\ [j(w, left2) EXCEPT !.chunks = left3] = j(w, left3)
        /\ j(w, left2).chunks = left2
    <3> HIDE DEF w, left2
    <3>0. w \in Seq(Tokens(rs)) /\ left2 \in Seq(Tokens(rs))
      BY <1>5, <1>6
    <3> HIDE DEF j, left3
    <3>1. \A R : [j(w, left2) EXCEPT !.chunks = R] = j(w, R)
      BY <3>0, <1>11
    <3>2. j(w, left2).chunks = left2
      BY <3>0, <1>11
    <3>3. [j(w, left2) EXCEPT !.chunks = << >>] = j(w, << >>)
      BY <3>1
    <3>4. [j(w, left2) EXCEPT !.chunks = left3] = j(w, left3)
      BY <3>1
    <3> QED BY <3>2, <3>3, <3>4
  <2> HIDE DEF left3, left2, w
  <2>2. NextChunk(k, r) = IF line.kind # "size" THEN Drop(k)
                        ELSE IF size = 0 THEN FindResource(k, r)
                        ELSE IF size > len THEN Start(j(w, left2), "data", size - len)
                        ELSE IF size + 2 > len
                             THEN Start([j(w, left2) EXCEPT !.chunks = << >>], "end", size + 2 - len)
                        ELSE Start([j(w, left2) EXCEPT !.chunks =
                                      SubSeq(j(w, left2).chunks, 3, Len(j(w, left2).chunks))], "size", 0)
    BY DEF NextChunk, w, left2
  <2> QED BY <2>1, <2>2 DEF left3
<1> HIDE DEF rest, len, moved, v, w, left2, left3, j, u, S, b, size, part
<1>14. ASSUME p.patient
       PROVE  /\ Asking(rs, k, u, t, g, l) /\ Chain(rs, S) /\ Piece(k.buf, n)
              /\ S[1] = line /\ line.kind = "size" /\ line.n = n /\ b = Begins(r, part)
              /\ size = Ends(r, part) - b /\ part \in 1 .. Len(r.ends) + 1
  <2>1. Asking(rs, k, u, t, g, l) /\ Chain(rs, S) /\ Place(rs, k, S[1])
    BY <1>14, LiveFacts DEF S, u, Busy, Sessions
  <2>2. S[1] = line
    <3>1. 1 \in 1 .. Len(k.chunks) /\ 1 \in 1 .. Len(u)
      BY <1>2, <1>8
    <3> QED BY <3>1, <1>8, <1>9
  <2>3. /\ Piece(k.buf, n) /\ line.kind = "size" /\ line.n = n /\ b = Begins(r, part)
    BY <2>1, <2>2 DEF Place, Sessions, Piece, b, part
  <2>4. size = Ends(r, part) - Begins(r, part) /\ part \in 1 .. Len(r.ends) + 1
    <3>1. line = SizeLine(r, n, part) /\ part \in 1 .. Len(r.ends) + 1
      BY <2>3, <1>2 DEF Tokens, part
    <3>2. line.val = Ends(r, part) - Begins(r, part)
      BY <3>1 DEF SizeLine, Token
    <3> QED BY <3>1, <3>2 DEF size
  <2> QED BY <2>1, <2>2, <2>3, <2>4
<1>15. ASSUME p.patient
       PROVE  /\ Begins(r, part) \in Nat /\ Ends(r, part) \in Nat /\ DOMAIN r.ends = 1 .. Len(r.ends)
              /\ part \in DOMAIN r.ends => Begins(r, part + 1) = Ends(r, part)
              /\ part \notin DOMAIN r.ends => size = 0 /\ b = ContentLength(r)
              /\ part \in DOMAIN r.ends => size > 0
  <2>1. /\ Begins(r, part) \in Nat /\ Ends(r, part) \in Nat /\ DOMAIN r.ends = 1 .. Len(r.ends)
        /\ Len(r.ends) \in Nat
        /\ part \in DOMAIN r.ends => Begins(r, part + 1) = Ends(r, part)
        /\ part = Len(r.ends) + 1 => Ends(r, part) = Begins(r, part)
        /\ part \in DOMAIN r.ends => Begins(r, part) < Ends(r, part)
    BY <1>1, <1>14, <1>15, RequestFacts
  <2>2. part \in DOMAIN r.ends \/ part = Len(r.ends) + 1
    BY <2>1, <1>14, <1>15
  <2>3. part = Len(r.ends) + 1 => b = ContentLength(r)
    BY <1>14, <1>15 DEF ContentLength
  <2> QED BY <2>1, <2>2, <2>3, <1>14, <1>15
<1>16. ASSUME p.patient, size > 0
       PROVE  /\ Len(w) = b + moved /\ Piece(w, n) /\ part \in DOMAIN r.ends
              /\ moved < size => S[2 + moved] = Token("byte", n, part, b + moved + 1)
              /\ moved = size => S[2 + moved] = Token("cr", n, part, 0)
  <2>1. S[2] = Token("byte", n, part, b + 1)
    <3>1. 1 \in 1 .. Len(S) - 1
      BY <1>2, <1>8, <1>9
    <3>2. S[2] = After(rs, line)
      BY <3>1, <1>14, <1>16 DEF Chain
    <3>3. line.val > 0 => After(rs, line) = Token("byte", line.n, line.part, Begins(rs[line.n], line.part) + 1)
      BY <1>1, <1>2, <1>14, <1>16, AfterFacts
    <3> QED BY <3>2, <3>3, <1>14, <1>16 DEF size, part
  <2>2. S[2].kind = "byte" /\ S[2].n = n /\ S[2].val = b + 1 /\ S[2].part = part
    BY <2>1 DEF Token
  <2>3. \A x \in 1 .. Len(v) : v[x] = S[2 + x - 1]
    <3> SUFFICES ASSUME NEW x \in 1 .. moved PROVE v[x] = S[2 + x - 1]
      BY <1>4
    <3>1. x \in 1 .. len /\ x + 1 \in 1 .. Len(k.chunks) /\ x + 1 \in 1 .. Len(u) /\ 2 + x - 1 = x + 1
      BY <1>2, <1>3, <1>8
    <3> QED BY <3>1, <1>2, <1>4, <1>8, <1>9
  <2>4. 2 \in 1 .. Len(u) + 1 /\ 2 + Len(v) <= Len(u) + 1 /\ Len(v) <= Ends(r, part) - b
    BY <1>2, <1>3, <1>4, <1>8, <1>14, <1>16
  <2>5. S = Append(u, t) /\ Chain(rs, S) /\ Piece(k.buf, n)
    BY <1>14, <1>16 DEF S
  <2>6. Continues(rs, u, t, S, 2, k.buf, n, v)
    BY <2>2, <2>3, <2>4, <2>5, <1>1, <1>4, <1>7 DEF Continues, b
  <2>7. Moved(rs, S, 2, k.buf, n, v)
    BY <2>6, MovedFacts
  <2> DEFINE f == S[2]
  <2>8. Len(w) = Len(k.buf) + Len(v) /\ Piece(w, n) /\ f.part \in DOMAIN r.ends
    BY <2>7 DEF Moved, w
  <2>9. Len(v) < Ends(r, f.part) - Len(k.buf) =>
          S[2 + Len(v)] = Token("byte", n, f.part, Len(k.buf) + Len(v) + 1)
    BY <2>7 DEF Moved
  <2>10. Len(v) = Ends(r, f.part) - Len(k.buf) =>
           S[2 + Len(v)] = IF r.framing = "chunked" THEN Token("cr", n, f.part, 0)
                           ELSE HeadOf(rs, n + 1)
    BY <2>7 DEF Moved
  <2> HIDE DEF f
  <2>12. f.part = part
    BY <2>2 DEF f
  <2>11. Ends(r, part) - Len(k.buf) = size /\ Len(v) = moved /\ Len(k.buf) = b
    BY <2>2, <1>4, <1>14, <1>16 DEF b
  <2>13. moved < size => S[2 + moved] = Token("byte", n, part, b + moved + 1)
    BY <2>9, <2>11, <2>12
  <2>14. moved = size => S[2 + moved] = Token("cr", n, part, 0)
    BY <2>10, <2>11, <2>12, <1>1
  <2> QED BY <2>8, <2>11, <2>12, <2>13, <2>14
<1>17. ASSUME p.patient
       PROVE  Chain(rs, Append(s, t)) /\ Append(s, t)[1] = S[len + 2] /\ Quiet(s)
  <2>1. Chain(rs, Append(u, t)) /\ Quiet(u)
    BY <1>14, <1>17 DEF S, Asking
  <2>2. Len(k.chunks) \in Nat
    BY <1>2
  <2>3. Chain(rs, Append(s, t)) /\ Quiet(s)
    BY <2>1, <2>2, <1>1, <1>7, <1>10, RestFacts
  <2>4. Append(s, t)[1] = Append(u, t)[Len(k.chunks) + 1]
    BY <2>2, <1>1, <1>7, <1>10, RestFacts
  <2>5. Len(k.chunks) + 1 = len + 2
    BY <1>2
  <2> QED BY <2>3, <2>4, <2>5 DEF S
<1>18. CASE line.kind # "size"
  <2>1. NextChunk(k, r) = Drop(k) /\ ~p.patient
    BY <1>13, <1>14, <1>18
  <2> QED BY <2>1, <1>1, DropSound
<1>19. CASE line.kind = "size" /\ size = 0
  <2>1. NextChunk(k, r) = FindResource(k, r)
    BY <1>13, <1>19
  <2>2. p.patient => b = ContentLength(r) /\ Piece(k.buf, n) /\ Asking(rs, k, s, t, g, l)
    BY <1>14, <1>15, <1>17, <1>19 DEF Asking
  <2> QED BY <2>1, <2>2, <1>1, WriteSound DEF b
<1>20. CASE line.kind = "size" /\ size # 0 /\ size > len
  <2> DEFINE z == Start(j(w, left2), "data", size - len)
  <2>1. NextChunk(k, r) = z
    BY <1>13, <1>20
  <2>2. moved = len /\ size - len \in Nat /\ left2 = << >>
    <3>1. moved = len /\ size - len \in Nat
      BY <1>2, <1>3, <1>20 DEF moved
    <3>2. Len(left2) = 0
      BY <3>1, <1>2, <1>5 DEF IsRest, len
    <3> QED BY <3>1, <3>2, <1>5
  <2>3. /\ j(w, left2) \in Connections(rs) /\ j(w, left2).state = "open" /\ j(w, left2).cur = n
        /\ j(w, left2).buf = w /\ j(w, left2).chunks = << >>
    BY <2>2, <1>5, <1>6, <1>11
  <2> DEFINE i == j(w, left2)
  <2> HIDE DEF i
  <2>4. /\ i \in Connections(rs) /\ i.state = "open" /\ i.cur = n /\ i.buf = w /\ i.chunks = << >>
        /\ z = Start(i, "data", size - len)
    BY <2>3 DEF i
  <2> HIDE DEF z
  <2>5. z.op = "data" /\ z.done = "no" /\ z.buf = w /\ z.cur = n /\ z.need = size - len
    BY <2>4 DEF Start, Connections
  <2>6. Unread(z, s) = s
    BY <2>5, <1>1, EmptyConcat DEF Unread, Taken
  <2>7. ASSUME p.patient PROVE Asking(rs, i, s, t, g, l) /\ Place(rs, z, Append(s, t)[1])
    <3>1. Asking(rs, i, s, t, g, l)
      BY <2>4, <2>7, <1>14, <1>17 DEF Asking
    <3>2. /\ Len(w) = b + len /\ Piece(w, n)
          /\ Append(s, t)[1] = Token("byte", n, part, b + len + 1)
      <4>1. size > 0 /\ moved < size /\ 2 + moved = len + 2
        BY <2>2, <1>2, <1>3, <1>20
      <4> QED BY <4>1, <2>2, <2>7, <1>16, <1>17
    <3>3. size - len = Ends(r, part) - Len(w)
      <4>1. Len(w) = b + len /\ size = Ends(r, part) - b /\ Ends(r, part) \in Nat
        BY <3>2, <2>7, <1>14, <1>15
      <4> HIDE DEF n, r
      <4> QED BY <4>1, <1>1, <1>2, <1>3
    <3> QED BY <3>1, <3>2, <3>3, <2>5 DEF Place, Piece, Sessions, Token
  <2>8. Sound(p, z, s, t, g, l)
    <3>1. p.patient => /\ Asking(rs, i, Unread(Start(i, "data", size - len), s), t, g, l)
                       /\ Place(rs, Start(i, "data", size - len),
                                Append(Unread(Start(i, "data", size - len), s), t)[1])
      BY <2>4, <2>6, <2>7
    <3> QED BY <3>1, <2>2, <2>4, <1>1, StartSound DEF Sessions
  <2> QED BY <2>1, <2>8
<1>21. CASE line.kind = "size" /\ size # 0 /\ ~(size > len) /\ size + 2 > len
  <2> DEFINE need == size + 2 - len
             z == Start(j(w, << >>), "end", need)
             i == j(w, << >>)
  <2>1. NextChunk(k, r) = z
    BY <1>13, <1>21
  <2>2. moved = size /\ need \in Nat /\ (need = 2 \/ need = 1) /\ len + need = size + 2
    <3>1. moved = size
      BY <1>2, <1>3, <1>21 DEF moved
    <3>2. size \in Nat /\ len \in Nat /\ ~(size > len) /\ size + 2 > len
      BY <1>2, <1>3, <1>21
    <3> DEFINE m == need
    <3>3. m \in Nat /\ len + m = size + 2 /\ m > 0 /\ m <= 2
      BY <3>2
    <3> HIDE DEF m, size, len
    <3>4. m = 2 \/ m = 1
      BY <3>3
    <3> QED BY <3>1, <3>3, <3>4 DEF m
  <2>3. /\ i \in Connections(rs) /\ i.state = "open" /\ i.cur = n /\ i.buf = w /\ i.chunks = << >>
        /\ z = Start(i, "end", need)
    BY <1>6, <1>11, <1>12
  <2> HIDE DEF i, z, need
  <2>4. z.op = "end" /\ z.done = "no" /\ z.buf = w /\ z.cur = n /\ z.need = need
    BY <2>3 DEF Start, Connections
  <2>5. Unread(z, s) = s
    BY <2>4, <1>1, EmptyConcat DEF Unread, Taken
  <2>6. ASSUME p.patient PROVE Asking(rs, i, s, t, g, l) /\ Place(rs, z, Append(s, t)[1])
    <3>1. Asking(rs, i, s, t, g, l)
      BY <2>3, <2>6, <1>14, <1>17 DEF Asking
    <3>2. /\ Len(w) = b + size /\ Piece(w, n) /\ part \in DOMAIN r.ends
          /\ S[2 + size] = Token("cr", n, part, 0)
      <4>1. size > 0
        BY <1>3, <1>21
      <4> QED BY <4>1, <2>2, <2>6, <1>16
    <3>3. Len(w) = Ends(r, part)
      BY <3>2, <2>6, <1>1, <1>3, <1>14, <1>15
    <3> DEFINE f == Append(s, t)[1]
    <3>4. f.n = n /\ f.part = part /\ ((f.kind = "cr" /\ need = 2) \/ (f.kind = "lf" /\ need = 1))
      <4>1. CASE need = 2
        <5>1. 2 + size = len + 2
          BY <2>2, <4>1, <1>2, <1>3
        <5>2. f = Token("cr", n, part, 0)
          BY <5>1, <3>2, <2>6, <1>17
        <5> HIDE DEF f
        <5>3. f.n = n /\ f.part = part /\ f.kind = "cr"
          BY <5>2 DEF Token
        <5> QED BY <5>3, <4>1
      <4>2. CASE need = 1
        <5>1. 2 + size \in 1 .. Len(u) /\ 2 + size \in 1 .. Len(S) - 1 /\ (2 + size) + 1 = len + 2
          <6> DEFINE x == Len(u)
                     y == Len(S)
          <6>1. /\ x = len + 1 + Len(s) /\ y = x + 1 /\ Len(s) \in Nat /\ len \in Nat
                /\ len = size + 1 /\ size \in Nat
            <7>1. len + 1 = size + 2 /\ len \in Nat /\ size \in Nat
              BY <2>2, <4>2, <1>3, <1>23
            <7> QED BY <7>1, <1>23
          <6> HIDE DEF x, y
          <6>2. 2 + size \in 1 .. x /\ 2 + size \in 1 .. y - 1 /\ (2 + size) + 1 = len + 2
            BY <6>1
          <6> QED BY <6>2 DEF x, y
        <5>2. S[2 + size] \in Tokens(rs) /\ S[(2 + size) + 1] = After(rs, S[2 + size])
          BY <5>1, <2>6, <1>9, <1>14 DEF Chain
        <5> DEFINE x == S[2 + size]
        <5>3. x \in Tokens(rs) /\ x.kind = "cr" /\ x.n = n /\ x.part = part
          BY <5>2, <3>2 DEF Token
        <5> HIDE DEF x
        <5>4. After(rs, x) = Token("lf", n, part, 0)
          BY <5>3, <1>1, AfterFacts
        <5>5. f = Token("lf", n, part, 0)
          BY <5>1, <5>2, <5>4, <2>6, <1>17 DEF x
        <5> HIDE DEF f
        <5>6. f.n = n /\ f.part = part /\ f.kind = "lf"
          BY <5>5 DEF Token
        <5> QED BY <5>6, <4>2
      <4> QED BY <4>1, <4>2, <2>2
    <3> HIDE DEF f
    <3>5. Place(rs, z, f)
      BY <3>2, <3>3, <3>4, <2>4 DEF Place, Piece, Sessions
    <3> QED BY <3>1, <3>5 DEF f
  <2>7. Sound(p, z, s, t, g, l)
    <3>1. p.patient => /\ Asking(rs, i, Unread(Start(i, "end", need), s), t, g, l)
                       /\ Place(rs, Start(i, "end", need),
                                Append(Unread(Start(i, "end", need), s), t)[1])
      BY <2>3, <2>5, <2>6
    <3> QED BY <3>1, <2>2, <2>3, <1>1, StartSound DEF Sessions
  <2> QED BY <2>1, <2>7
<1>22. CASE line.kind = "size" /\ size # 0 /\ ~(size > len) /\ ~(size + 2 > len)
  <2> DEFINE z == Start(j(w, left3), "size", 0)
             i == j(w, left3)
  <2>1. NextChunk(k, r) = z
    BY <1>13, <1>22
  <2>2. moved = size /\ size + 3 \in Nat /\ size + 3 <= Len(k.chunks) /\ size > 0
    <3>1. size \in Nat /\ len \in Nat /\ Len(k.chunks) = len + 1
      BY <1>3, <1>23
    <3> QED BY <3>1, <1>22 DEF moved
  <2>3. left3 \in Seq(Tokens(rs)) /\ IsRest(k.chunks, left3, size + 3)
    <3>1. IsRest(rest, left2, size) /\ Len(left2) = len - size /\ len - size >= 2
      BY <2>2, <1>2, <1>3, <1>5, <1>22 DEF IsRest, len
    <3>2. 2 \in Nat /\ 2 <= Len(left2) /\ 2 + 1 = 3
      BY <3>1
    <3> DEFINE two == 2
    <3> HIDE DEF two
    <3>3. /\ SubSeq(left2, two + 1, Len(left2)) \in Seq(Tokens(rs))
          /\ IsRest(left2, SubSeq(left2, two + 1, Len(left2)), two)
      BY <3>2, <1>5, SuffixFacts DEF two
    <3>4. left3 \in Seq(Tokens(rs)) /\ IsRest(left2, left3, 2)
      BY <3>2, <3>3 DEF two, left3
    <3>5. Len(left3) = Len(k.chunks) - (size + 3) /\ size + 3 \in 0 .. Len(k.chunks)
      BY <3>1, <3>4, <2>2, <1>2, <1>3 DEF IsRest
    <3>6. ASSUME NEW x \in 1 .. Len(left3) PROVE left3[x] = k.chunks[x + (size + 3)]
      <4>1. /\ x + 2 \in 1 .. Len(left2) /\ (x + 2) + size \in 1 .. len
            /\ ((x + 2) + size) + 1 = x + (size + 3)
        <5> DEFINE a == Len(left2)
                   e == Len(left3)
        <5>1. e = a - 2 /\ a = len - size /\ a >= 2 /\ x \in 1 .. e /\ size \in Nat /\ len \in Nat
          <6>1. Len(left3) = Len(left2) - 2
            BY <3>4 DEF IsRest
          <6>2. Len(left2) = len - size /\ len - size >= 2
            BY <3>1
          <6> QED BY <6>1, <6>2, <3>6, <1>2, <1>3
        <5>2. x \in Nat /\ x >= 1 /\ x <= e
          BY <5>1
        <5> HIDE DEF a, e
        <5>3. x + 2 \in 1 .. a /\ (x + 2) + size \in 1 .. len
          BY <5>1, <5>2
        <5>4. ((x + 2) + size) + 1 = x + (size + 3)
          BY <5>1, <5>2
        <5> QED BY <5>3, <5>4 DEF a
      <4>2. left3[x] = left2[x + 2]
        BY <3>4 DEF IsRest
      <4>3. left2[x + 2] = rest[(x + 2) + size]
        BY <4>1, <3>1 DEF IsRest
      <4>4. rest[(x + 2) + size] = k.chunks[((x + 2) + size) + 1]
        <5> DEFINE y == (x + 2) + size
        <5>1. y \in 1 .. len
          BY <4>1
        <5> HIDE DEF y
        <5>2. rest[y] = k.chunks[y + 1]
          BY <5>1, <1>2, Zenon
        <5> QED BY <5>2 DEF y
      <4> QED BY <4>1, <4>2, <4>3, <4>4
    <3> QED BY <3>4, <3>5, <3>6 DEF IsRest
  <2>4. /\ i \in Connections(rs) /\ i.state = "open" /\ i.cur = n /\ i.buf = w /\ i.chunks = left3
        /\ z = Start(i, "size", 0)
    BY <2>3, <1>6, <1>11 DEF j
  <2> HIDE DEF i, z
  <2>5. z.op = "size" /\ z.done = "no" /\ z.buf = w /\ z.cur = n /\ z.chunks = left3
    BY <2>4 DEF Start, Connections
  <2>6. Unread(z, s) = left3 \o s
    BY <2>5 DEF Unread, Taken
  <2> DEFINE q == left3 \o s
             d == size + 3
  <2>7. q \in Seq(Tokens(rs)) /\ IsRest(u, q, d) /\ d \in Nat
    BY <2>2, <2>3, <1>1, <1>7, RestConcat
  <2> HIDE DEF q, d
  <2>8. ASSUME p.patient PROVE Asking(rs, i, q, t, g, l) /\ Place(rs, z, Append(q, t)[1])
    <3>1. Chain(rs, Append(u, t)) /\ Quiet(u)
      BY <2>8, <1>14 DEF S, Asking
    <3>2. Chain(rs, Append(q, t)) /\ Quiet(q)
      BY <3>1, <2>7, <1>7, RestFacts
    <3>3. Append(q, t)[1] = S[d + 1]
      BY <2>7, <1>7, RestFacts DEF S
    <3>4. Asking(rs, i, q, t, g, l)
      BY <3>2, <2>4, <2>8, <1>14 DEF Asking
    <3>5. /\ Len(w) = b + size /\ Piece(w, n) /\ part \in DOMAIN r.ends
          /\ S[2 + size] = Token("cr", n, part, 0)
      BY <2>2, <2>8, <1>16
    <3>6. Len(w) = Begins(r, part + 1)
      BY <3>5, <2>8, <1>1, <1>3, <1>14, <1>15
    <3>7. /\ 2 + size \in 1 .. Len(u) /\ 2 + size \in 1 .. Len(S) - 1
          /\ (2 + size) + 1 \in 1 .. Len(u) /\ (2 + size) + 1 \in 1 .. Len(S) - 1
          /\ ((2 + size) + 1) + 1 = d + 1
      <4>1. /\ Len(u) = len + 1 + Len(s) /\ Len(S) = Len(u) + 1 /\ Len(s) \in Nat /\ len \in Nat
            /\ size + 3 <= len + 1 /\ size \in Nat
        BY <2>2, <1>2, <1>3, <1>8, <1>9
      <4> QED BY <4>1 DEF d
    <3> DEFINE x == S[2 + size]
               y == S[(2 + size) + 1]
    <3>8. x \in Tokens(rs) /\ y \in Tokens(rs) /\ y = After(rs, x) /\ S[d + 1] = After(rs, y)
      BY <3>7, <2>8, <1>9, <1>14 DEF Chain
    <3>9. x.kind = "cr" /\ x.n = n /\ x.part = part
      BY <3>5 DEF Token
    <3> HIDE DEF x, y
    <3>10. y = Token("lf", n, part, 0)
      BY <3>8, <3>9, <1>1, AfterFacts
    <3>11. y.kind = "lf" /\ y.n = n /\ y.part = part
      BY <3>10 DEF Token
    <3>12. S[d + 1] = SizeLine(r, n, part + 1)
      BY <3>5, <3>8, <3>11, <1>1, AfterFacts
    <3> DEFINE f == Append(q, t)[1]
    <3>13. f.kind = "size" /\ f.n = n /\ f.part = part + 1
      BY <3>3, <3>12 DEF SizeLine, Token
    <3> HIDE DEF f
    <3>14. Place(rs, z, f)
      BY <3>5, <3>6, <3>13, <2>5 DEF Place, Piece, Sessions
    <3> QED BY <3>4, <3>14 DEF f
  <2>9. Sound(p, z, s, t, g, l)
    <3>1. p.patient => /\ Asking(rs, i, Unread(Start(i, "size", 0), s), t, g, l)
                       /\ Place(rs, Start(i, "size", 0), Append(Unread(Start(i, "size", 0), s), t)[1])
      BY <2>4, <2>6, <2>8 DEF q
    <3> QED BY <3>1, <2>4, <1>1, StartSound DEF Sessions
  <2> QED BY <2>1, <2>9
<1> QED BY <1>18, <1>19, <1>20, <1>21, <1>22

-----------------------------------------------------------------------------
\* The steps of the server and of its clients.  A step changes what belongs to one
\* connection: w is the function v with x at c.
Updates(v, w, c, x) ==
  DOMAIN w = DOMAIN v /\ w[c] = x /\ \A d \in DOMAIN v : d # c => w[d] = v[d]

LEMMA UpdatesFacts ==
  ASSUME NEW v, NEW c \in DOMAIN v, NEW x
  PROVE  Updates(v, [v EXCEPT ![c] = x], c, x) /\ Updates(v, v, c, v[c])
BY DEF Updates

LEMMA UpdateSound ==
  ASSUME SoundInv, Inv', EndsForReason', running' \in {"starting", "running", "ended"}, plan' = plan,
         NEW c \in Conns, NEW k, NEW s, NEW t, NEW g, NEW l, Sound(plan[c], k, s, t, g, l),
         Updates(conn, conn', c, k), Updates(incoming, incoming', c, s),
         Updates(toSend, toSend', c, t), Updates(got, got', c, g), Updates(left, left', c, l)
  PROVE  SoundInv'
<1>1. Shape'
  BY DEF SoundInv, Shape, Updates
<1>2. ASSUME NEW d \in Conns, d # c
      PROVE  /\ conn'[d] = conn[d] /\ incoming'[d] = incoming[d] /\ toSend'[d] = toSend[d]
             /\ got'[d] = got[d] /\ left'[d] = left[d]
  BY <1>2 DEF SoundInv, Shape, Updates
<1>3. /\ conn'[c] = k /\ incoming'[c] = s /\ toSend'[c] = t /\ got'[c] = g /\ left'[c] = l
  BY DEF Updates
<1>4. ASSUME NEW d \in Conns
      PROVE  Sound(plan'[d], conn'[d], incoming'[d], toSend'[d], got'[d], left'[d])
  <2>1. CASE d = c
    BY <2>1, <1>3
  <2>2. CASE d # c
    BY <2>2, <1>2 DEF SoundInv
  <2> QED BY <2>1, <2>2
<1> QED BY <1>1, <1>4 DEF SoundInv

\* What holds of connection c before the step.
LEMMA ConnectionFacts ==
  ASSUME SoundInv, NEW c \in Conns
  PROVE  /\ Sound(plan[c], conn[c], incoming[c], toSend[c], got[c], left[c])
         /\ conn[c].op \in Ops
         /\ conn[c].state = "open" <=> conn[c].op # "none"
         /\ c \in DOMAIN conn /\ c \in DOMAIN incoming /\ c \in DOMAIN toSend
         /\ c \in DOMAIN got /\ c \in DOMAIN left
         /\ Updates(conn, conn, c, conn[c]) /\ Updates(incoming, incoming, c, incoming[c])
         /\ Updates(toSend, toSend, c, toSend[c]) /\ Updates(got, got, c, got[c])
         /\ Updates(left, left, c, left[c])
         /\ running \in {"starting", "running", "ended"}
<1>1. /\ c \in DOMAIN conn /\ c \in DOMAIN incoming /\ c \in DOMAIN toSend
      /\ c \in DOMAIN got /\ c \in DOMAIN left /\ running \in {"starting", "running", "ended"}
  BY DEF SoundInv, Shape
<1>2. conn[c].op \in Ops /\ (conn[c].state = "open" <=> conn[c].op # "none")
  BY DEF SoundInv, Inv, Good, Held
<1> QED BY <1>1, <1>2, UpdatesFacts DEF SoundInv

\* While the server runs and goes on, nothing is to be explained.
LEMMA StillRunning ==
  ASSUME running = "running", UNCHANGED running PROVE EndsForReason'
BY DEF EndsForReason

LEMMA ClientsSound ==
  ASSUME SoundInv, Inv', NEW c \in Conns, ClientSend(c) \/ ClientLeave(c)
  PROVE  SoundInv'
<1> DEFINE p == plan[c]
           k == conn[c]
           s == incoming[c]
           t == toSend[c]
           g == got[c]
           l == left[c]
<1>1. EndsForReason' /\ running' = running /\ conn' = conn /\ plan' = plan /\ got' = got
  BY DEF ClientSend, ClientLeave, SoundInv, EndsForReason
<1>2. CASE ClientSend(c)
  <2>1. Sound(p, k, Append(s, t), After(p.requests, t), g, l)
    BY <1>2, ConnectionFacts, SendSound DEF ClientSend
  <2>2. /\ Updates(toSend, toSend', c, After(p.requests, t))
        /\ Updates(incoming, incoming', c, Append(s, t)) /\ left' = left
    BY <1>2, ConnectionFacts, UpdatesFacts DEF ClientSend
  <2> QED BY <2>1, <2>2, <1>1, ConnectionFacts, UpdateSound
<1>3. CASE ClientLeave(c)
  <2>1. Sound(p, k, s, t, g, TRUE)
    BY <1>3, ConnectionFacts, SoundFacts, FailSound DEF ClientLeave
  <2>2. Updates(left, left', c, TRUE) /\ toSend' = toSend /\ incoming' = incoming
    BY <1>3, ConnectionFacts, UpdatesFacts DEF ClientLeave
  <2> QED BY <2>1, <2>2, <1>1, ConnectionFacts, UpdateSound
<1> QED BY <1>2, <1>3

LEMMA AcceptSound ==
  ASSUME SoundInv, Inv', NEW c \in Conns, Accept(c)
  PROVE  SoundInv'
<1> DEFINE rs == plan[c].requests
           k == [Unaccepted EXCEPT !.state = "open"]
           s == incoming[c]
<1>1. /\ conn[c].state = "unaccepted" /\ running = "running"
      /\ UNCHANGED <<running, clientVars, incoming>> /\ conn' = [conn EXCEPT ![c] = Read(k)]
  BY DEF Accept
<1>2. conn[c].op = "none" /\ conn[c].state # "gone"
  BY <1>1, ConnectionFacts
<1>3. k \in Connections(rs) /\ k.state = "open"
  <2>1. << >> \in Seq(Tokens(rs))
    BY EmptySeq
  <2> QED BY <2>1 DEF Connections, Unaccepted, Ops
<1> HIDE DEF k
<1>4. Sound(plan[c], Read(k), incoming[c], toSend[c], got[c], left[c])
  BY <1>2, <1>3, ConnectionFacts, ReadSound
<1>5. Updates(conn, conn', c, Read(k))
  BY <1>1, ConnectionFacts, UpdatesFacts
<1> QED BY <1>1, <1>4, <1>5, ConnectionFacts, StillRunning, UpdateSound DEF clientVars

\* A read or a write completes.
LEMMA CompletesSound ==
  ASSUME SoundInv, Inv', NEW c \in Conns, Completes(c)
  PROVE  SoundInv'
<1> DEFINE p == plan[c]
           k == conn[c]
           s == incoming[c]
           t == toSend[c]
           g == got[c]
           l == left[c]
           ended(d) == [k EXCEPT !.done = d]
<1>1. Sound(p, k, s, t, g, l) /\ c \in DOMAIN conn /\ c \in DOMAIN incoming /\ c \in DOMAIN got
  BY ConnectionFacts
<1>2. /\ running = "running" /\ UNCHANGED <<running, plan, toSend, left>>
      /\ k.op # "none" /\ k.done = "no"
  BY DEF Completes, HeadArrives, LineArrives, BytesArrive, ResponseGoes, Breaks, Waiting, clientVars
<1>3. k.state = "open" /\ EndsForReason' /\ running' \in {"starting", "running", "ended"}
  BY <1>2, ConnectionFacts, StillRunning
<1>4. ASSUME NEW x, NEW y, NEW z, Sound(p, x, y, t, z, l),
             Updates(conn, conn', c, x), Updates(incoming, incoming', c, y), Updates(got, got', c, z)
      PROVE  SoundInv'
  BY <1>2, <1>3, <1>4, ConnectionFacts, UpdateSound
<1>5. CASE HeadArrives(c)
  <2> DEFINE j == [k EXCEPT !.buf = k.buf \o s, !.done = "ok"]
  <2>1. k.buf \o s # << >> /\ k.op = "head"
    <3> DEFINE q == k.buf \o s
    <3>1. EndsHead(q) /\ k.op = "head"
      BY <1>5 DEF HeadArrives, Waiting
    <3> HIDE DEF q
    <3>2. DOMAIN q # {} /\ DOMAIN << >> = {}
      BY <3>1 DEF EndsHead
    <3> QED BY <3>1, <3>2 DEF q
  <2>2. conn' = [conn EXCEPT ![c] = j] /\ incoming' = [incoming EXCEPT ![c] = << >>] /\ got' = got
    BY <1>1, <1>5 DEF HeadArrives, clientVars
  <2>3. Sound(p, j, << >>, t, g, l)
    BY <1>1, <1>3, <2>1, ReadMoreSound
  <2> HIDE DEF j
  <2> QED BY <1>4, <2>2, <2>3, ConnectionFacts, UpdatesFacts
<1>6. CASE LineArrives(c)
  <2> DEFINE j == [k EXCEPT !.chunks = k.chunks \o s, !.done = "ok"]
  <2>1. k.chunks \o s # << >> /\ k.op = "size"
    <3> DEFINE q == k.chunks \o s
    <3>1. EndsLine(q) /\ k.op = "size"
      BY <1>6 DEF LineArrives, Waiting
    <3> HIDE DEF q
    <3>2. DOMAIN q # {} /\ DOMAIN << >> = {}
      BY <3>1 DEF EndsLine
    <3> QED BY <3>1, <3>2 DEF q
  <2>2. conn' = [conn EXCEPT ![c] = j] /\ incoming' = [incoming EXCEPT ![c] = << >>] /\ got' = got
    BY <1>1, <1>6 DEF LineArrives, clientVars
  <2>3. Sound(p, j, << >>, t, g, l)
    BY <1>1, <1>3, <2>1, ReadMoreSound
  <2> HIDE DEF j
  <2> QED BY <1>4, <2>2, <2>3, ConnectionFacts, UpdatesFacts
<1>7. CASE BytesArrive(c)
  <2> DEFINE j == [k EXCEPT !.done = "ok",
                     !.buf = IF k.op = "end" THEN k.buf ELSE k.buf \o SubSeq(s, 1, k.need)]
             rest == SubSeq(s, k.need + 1, Len(s))
  <2>1. k.op \in {"content", "data", "end"} /\ Len(s) >= k.need
    BY <1>7 DEF BytesArrive, Waiting
  <2>2. conn' = [conn EXCEPT ![c] = j] /\ incoming' = [incoming EXCEPT ![c] = rest] /\ got' = got
    BY <1>1, <1>7 DEF BytesArrive, Waiting, clientVars
  <2>3. Sound(p, j, rest, t, g, l)
    BY <1>1, <1>2, <1>3, <2>1, BytesSound
  <2> HIDE DEF j, rest
  <2> QED BY <1>4, <2>2, <2>3, ConnectionFacts, UpdatesFacts
<1>8. CASE ResponseGoes(c)
  <2> DEFINE h == IF l THEN g ELSE Append(g, [n |-> k.cur, answer |-> Answer(p.requests[k.cur])])
  <2>1. conn' = [conn EXCEPT ![c] = ended("ok")] /\ got' = [got EXCEPT ![c] = h] /\ incoming' = incoming
    BY <1>1, <1>8 DEF ResponseGoes, Request
  <2>2. Sound(p, ended("ok"), s, t, h, l)
    BY <1>1, <1>2, <1>3, <1>8, ResponseSound DEF ResponseGoes, Waiting
  <2> HIDE DEF h, ended
  <2> QED BY <1>4, <2>1, <2>2, ConnectionFacts, UpdatesFacts
<1>9. CASE Breaks(c)
  <2>1. conn' = [conn EXCEPT ![c] = ended("error")] /\ got' = got /\ incoming' = incoming
    BY <1>1, <1>9 DEF Breaks, clientVars
  <2>2. (l \/ k.shut) /\ k \in Connections(p.requests) /\ l \in BOOLEAN
    BY <1>1, <1>9, SoundFacts DEF Breaks
  <2> DEFINE j == ended("error")
  <2>3. /\ j \in Connections(p.requests) /\ j.state = k.state /\ j.op = k.op /\ j.cur = k.cur
        /\ j.need = k.need /\ j.buf = k.buf /\ j.chunks = k.chunks /\ j.shut = k.shut /\ j.done = "error"
    BY <2>2 DEF Connections
  <2> HIDE DEF j
  <2>4. Sound(p, j, s, t, g, l)
    BY <1>1, <1>2, <2>2, <2>3, FailSound
  <2>5. conn' = [conn EXCEPT ![c] = j] /\ got' = got /\ incoming' = incoming
    BY <2>1 DEF j
  <2> QED BY <1>4, <2>4, <2>5, ConnectionFacts, UpdatesFacts
<1> QED BY <1>5, <1>6, <1>7, <1>8, <1>9 DEF Completes

\* A timer goes off, and its handler runs.
LEMMA TimersSound ==
  ASSUME SoundInv, Inv', NEW c \in Conns, Expire(c) \/ TimedOut(c)
  PROVE  SoundInv'
<1> DEFINE p == plan[c]
           k == conn[c]
           l == left[c]
<1>1. /\ running = "running" /\ UNCHANGED <<running, plan, toSend, left, got, incoming>>
  BY DEF Expire, TimedOut, clientVars
<1>2. EndsForReason' /\ running' \in {"starting", "running", "ended"}
  BY <1>1, StillRunning
<1>3. /\ Sound(p, k, incoming[c], toSend[c], got[c], l) /\ k \in Connections(p.requests)
      /\ l \in BOOLEAN /\ c \in DOMAIN conn
  BY ConnectionFacts, SoundFacts
<1>4. ASSUME NEW j \in Connections(p.requests), conn' = [conn EXCEPT ![c] = j],
             j.state = k.state, j.op = k.op, j.cur = k.cur, j.need = k.need, j.buf = k.buf,
             j.chunks = k.chunks, k.shut => j.shut,
             j.done = k.done \/ (k.done = "no" /\ j.done = "error" /\ (l \/ j.shut))
      PROVE  SoundInv'
  <2>1. Sound(p, j, incoming[c], toSend[c], got[c], l)
    BY <1>3, <1>4, FailSound
  <2>2. Updates(conn, conn', c, j)
    BY <1>3, <1>4, UpdatesFacts
  <2> QED BY <1>1, <1>2, <2>1, <2>2, ConnectionFacts, UpdateSound
<1>5. CASE Expire(c)
  <2> DEFINE j == [k EXCEPT !.timer = "off", !.expired = k.expired \cup {k.timer}]
  <2>1. conn' = [conn EXCEPT ![c] = j] /\ k.timer # "off"
    BY <1>3, <1>5 DEF Expire
  <2>2. /\ j \in Connections(p.requests) /\ j.state = k.state /\ j.op = k.op /\ j.cur = k.cur
        /\ j.need = k.need /\ j.buf = k.buf /\ j.chunks = k.chunks /\ j.shut = k.shut /\ j.done = k.done
    BY <1>3, <2>1 DEF Connections
  <2> HIDE DEF j
  <2> QED BY <2>1, <2>2, <1>4
<1>6. CASE TimedOut(c)
  <2>1. PICK u : conn' = [conn EXCEPT ![c] = [Close(k) EXCEPT !.expired = Close(k).expired \ {u}]]
    BY <1>6 DEF TimedOut
  <2> DEFINE i == Close(k)
             j == [i EXCEPT !.expired = i.expired \ {u}]
  <2>2. /\ i \in Connections(p.requests) /\ i.state = k.state /\ i.op = k.op /\ i.cur = k.cur
        /\ i.need = k.need /\ i.buf = k.buf /\ i.chunks = k.chunks /\ i.shut
        /\ i.done = k.done \/ (k.done = "no" /\ i.done = "error")
    BY <1>3 DEF Close, Connections
  <2>3. conn' = [conn EXCEPT ![c] = j]
    BY <2>1
  <2> HIDE DEF i
  <2>4. /\ j \in Connections(p.requests) /\ j.state = i.state /\ j.op = i.op /\ j.cur = i.cur
        /\ j.need = i.need /\ j.buf = i.buf /\ j.chunks = i.chunks /\ j.shut = i.shut /\ j.done = i.done
    BY <2>2 DEF Connections
  <2> HIDE DEF j
  <2> QED BY <2>2, <2>3, <2>4, <1>4
<1> QED BY <1>5, <1>6

\* A handler goes on with the connection as j; the process ends in it only at a
\* place without nodes.
LEMMA ResumeSound ==
  ASSUME SoundInv, Inv', NEW c \in Conns, running = "running", NEW j, Resume(c, j),
         Sound(plan[c], j, incoming[c], toSend[c], got[c], left[c])
  PROVE  SoundInv'
<1>1. conn' = [conn EXCEPT ![c] = j] /\ UNCHANGED <<plan, toSend, left, got, incoming>>
  BY DEF Resume, clientVars
<1>2. EndsForReason' /\ running' \in {"starting", "running", "ended"}
  <2>1. CASE j.op = "write" /\ plan[c].requests[j.cur].query = "nowhere"
    <3>1. j.cur \in DOMAIN plan[c].requests
      BY <2>1, SoundFacts DEF Sessions
    <3>2. running' \in {"running", "ended"} /\ plan' = plan
      BY <2>1, <1>1 DEF Resume
    <3> QED BY <3>1, <3>2, <2>1 DEF EndsForReason
  <2>2. CASE ~(j.op = "write" /\ plan[c].requests[j.cur].query = "nowhere")
    BY <2>2, StillRunning DEF Resume
  <2> QED BY <2>1, <2>2
<1>3. Updates(conn, conn', c, j)
  BY <1>1, ConnectionFacts, UpdatesFacts
<1> QED BY <1>1, <1>2, <1>3, ConnectionFacts, UpdateSound

LEMMA HandlesSound ==
  ASSUME SoundInv, Inv', NEW c \in Conns, Handles(c)
  PROVE  SoundInv'
<1> DEFINE p == plan[c]
           k == conn[c]
           Fits(j) == Sound(p, j, incoming[c], toSend[c], got[c], left[c])
<1>1. Fits(k) /\ running = "running" /\ (k.op # "none" => k.state = "open")
  BY ConnectionFacts
    DEF Handles, HeadRead, ContentRead, SizeRead, DataRead, EndRead, Written, Failed, Queued
<1>2. CASE HeadRead(c)
  <2> DEFINE n == k.buf[1].n
             j == IF k.buf[1].kind = "head" THEN DispatchHead(k, p.requests[n]) ELSE Drop(k)
  <2>1. k.op = "head" /\ k.done = "ok" /\ Resume(c, j)
    BY <1>2 DEF HeadRead, Queued
  <2>2. Fits(j)
    BY <1>1, <2>1, HeadReadSound
  <2> HIDE DEF j
  <2> QED BY <1>1, <2>1, <2>2, ResumeSound
<1>3. CASE ContentRead(c)
  <2> DEFINE j == FindResource(k, p.requests[k.cur])
  <2>1. k.op = "content" /\ k.done = "ok" /\ Resume(c, j)
    BY <1>3 DEF ContentRead, Queued, Request
  <2>2. Fits(j)
    BY <1>1, <2>1, ContentReadSound
  <2> QED BY <1>1, <2>1, <2>2, ResumeSound
<1>4. CASE SizeRead(c)
  <2> DEFINE j == NextChunk(k, p.requests[k.cur])
  <2>1. k.op = "size" /\ k.done = "ok" /\ Resume(c, j)
    BY <1>4 DEF SizeRead, Queued, Request
  <2>2. Fits(j)
    BY <1>1, <2>1, SizeReadSound
  <2> QED BY <1>1, <2>1, <2>2, ResumeSound
<1>5. CASE DataRead(c)
  <2>1. k.op = "data" /\ k.done = "ok" /\ Resume(c, Start(k, "end", 2))
    BY <1>5 DEF DataRead, Queued
  <2>2. Fits(Start(k, "end", 2))
    BY <1>1, <2>1, DataReadSound
  <2> QED BY <1>1, <2>1, <2>2, ResumeSound
<1>6. CASE EndRead(c)
  <2>1. k.op = "end" /\ k.done = "ok" /\ Resume(c, Start(k, "size", 0))
    BY <1>6 DEF EndRead, Queued
  <2>2. Fits(Start(k, "size", 0))
    BY <1>1, <2>1, EndReadSound
  <2> QED BY <1>1, <2>1, <2>2, ResumeSound
<1>7. CASE Written(c)
  <2> DEFINE j == Answered(k, p.requests[k.cur])
  <2>1. k.op = "write" /\ k.done = "ok" /\ Resume(c, j)
    BY <1>7 DEF Written, Queued, Request
  <2>2. Fits(j)
    BY <1>1, <2>1, WrittenSound
  <2> QED BY <1>1, <2>1, <2>2, ResumeSound
<1>8. CASE Failed(c)
  <2>1. /\ k.done = "error" /\ conn' = [conn EXCEPT ![c] = Drop(k)]
        /\ running' = (IF k.op = "end" THEN "ended" ELSE running)
        /\ UNCHANGED <<plan, toSend, left, got, incoming>>
    BY <1>8, ConnectionFacts DEF Failed, clientVars
  <2>2. Fits(Drop(k))
    BY <1>1, <2>1, FailedSound
  <2>3. EndsForReason' /\ running' \in {"starting", "running", "ended"}
    <3>1. CASE k.op = "end"
      <4>1. k.cur \in DOMAIN p.requests /\ p.requests[k.cur].framing = "chunked"
        BY <1>1, <3>1, SoundFacts DEF Sessions, Formed
      <4> QED BY <4>1, <3>1, <2>1 DEF EndsForReason
    <3>2. CASE k.op # "end"
      BY <3>2, <2>1, <1>1, StillRunning
    <3> QED BY <3>1, <3>2
  <2>4. Updates(conn, conn', c, Drop(k))
    BY <2>1, ConnectionFacts, UpdatesFacts
  <2> QED BY <2>1, <2>2, <2>3, <2>4, ConnectionFacts, UpdateSound
<1> QED BY <1>2, <1>3, <1>4, <1>5, <1>6, <1>7, <1>8 DEF Handles

\* Nothing was sent, accepted or answered.
LEMMA InitSound == Init => SoundInv
<1> SUFFICES ASSUME Init PROVE SoundInv
  OBVIOUS
<1>1. Inv /\ Shape /\ EndsForReason
  BY InitInv, PlansAssumption DEF Init, Shape, EndsForReason, Unaccepted
<1>2. ASSUME NEW c \in Conns
      PROVE  Sound(plan[c], conn[c], incoming[c], toSend[c], got[c], left[c])
  <2> DEFINE p == plan[c]
             rs == p.requests
             k == Unaccepted
             t == HeadOf(rs, 1)
  <2>1. /\ conn[c] = k /\ incoming[c] = << >> /\ toSend[c] = t /\ got[c] = << >> /\ left[c] = FALSE
        /\ p \in Clients /\ rs \in Seq(Requests)
    BY PlansAssumption DEF Init, Clients
  <2>2. << >> \in Seq(Tokens(rs)) /\ << >> \in Seq(Answers) /\ Len(<< >>) = 0
    BY EmptySeq
  <2>3. /\ k \in Connections(rs) /\ k.op = "none" /\ k.done = "no" /\ k.state = "unaccepted"
        /\ k.shut = FALSE
    BY <2>2 DEF Connections, Unaccepted, Ops
  <2> HIDE DEF k
  <2>4. Formed(rs, k)
    BY <2>3 DEF Formed, Sessions
  <2>5. /\ t \in Tokens(rs) \cup {NoToken} /\ (t.kind = "head" \/ t.kind = "none")
        /\ Asked(rs, t) = 0
    <3>1. Len(rs) \in Nat /\ DOMAIN rs = 1 .. Len(rs)
      BY <2>1
    <3>2. CASE 1 \in DOMAIN rs
      BY <3>2, <2>1, HeadOfFacts DEF Asked
    <3>3. CASE 1 \notin DOMAIN rs
      <4>1. t = NoToken /\ NoToken.kind = "none"
        BY <3>3, <2>1, HeadOfFacts
      <4>2. Len(rs) = 0
        BY <3>1, <3>3
      <4> QED BY <4>1, <4>2 DEF Asked
    <3> QED BY <3>2, <3>3
  <2> HIDE DEF t
  <2>6. Unread(k, << >>) = << >>
    BY <2>2, <2>3, EmptyConcat DEF Unread, Taken
  <2> DEFINE q == << >>
  <2>7. /\ Quiet(q) /\ Append(q, t)[1] = t /\ Len(Append(q, t)) = 1
    BY <2>2 DEF Quiet
  <2>8. Live(rs, k, q, t, q, FALSE)
    <3>1. Chain(rs, Append(q, t))
      <4> DEFINE S == Append(q, t)
      <4>1. Len(S) = 1
        BY <2>7
      <4> HIDE DEF S
      <4> QED BY <4>1 DEF Chain, S
    <3>2. Turn(rs, k, q, t, q, FALSE)
      BY <2>2, <2>3, <2>5, <2>7 DEF Turn, Busy, Sessions
    <3>3. Place(rs, k, t)
      BY <2>3, <2>5 DEF Place, Boundary, Sessions
    <3> QED BY <3>1, <3>2, <3>3, <2>6, <2>7 DEF Live
  <2>9. Right(rs, k, q, t, q, FALSE)
    <3>1. DOMAIN q = {}
      OBVIOUS
    <3> HIDE DEF q
    <3> QED BY <3>1, <2>3, <2>8 DEF Right
  <2>10. Sound(p, k, q, t, q, FALSE)
    BY <2>1, <2>2, <2>4, <2>5, <2>9 DEF Sound, Typed
  <2> QED BY <2>1, <2>10 DEF t, k
<1> QED BY <1>1, <1>2 DEF SoundInv

LEMMA StepSound == SoundInv /\ [Next]_vars => SoundInv'
<1> SUFFICES ASSUME SoundInv, [Next]_vars PROVE SoundInv'
  OBVIOUS
<1>1. Inv'
  BY StepInv DEF SoundInv
<1>2. CASE UNCHANGED vars
  BY <1>1, <1>2 DEF vars, SoundInv, Shape, EndsForReason
<1>3. CASE StartServer
  BY <1>1, <1>3 DEF StartServer, clientVars, SoundInv, Shape, EndsForReason
<1>4. ASSUME NEW c \in Conns, ClientSend(c) \/ ClientLeave(c) \/ Accept(c) \/ Completes(c)
                              \/ Handles(c) \/ Expire(c) \/ TimedOut(c)
      PROVE  SoundInv'
  BY <1>1, <1>4, ClientsSound, AcceptSound, CompletesSound, HandlesSound, TimersSound
<1> QED BY <1>2, <1>3, <1>4 DEF Next

THEOREM ConnectionsSound == Spec => []SoundInv
BY InitSound, StepSound, PTL DEF Spec

-----------------------------------------------------------------------------
\* However the stream is cut and whatever timers do, the buffer of a request that
\* is being answered holds its content and nothing else (read, read_chunked_transfer_
\* encoded and the session that starts anew in server_http.hpp:559-730).
THEOREM BufferIsContent == Spec => []ContentWhole
<1>1. SoundInv => ContentWhole
  <2> SUFFICES ASSUME SoundInv, NEW c \in Conns, conn[c].op = "write", plan[c].patient
               PROVE  LET b == conn[c].buf
                      IN /\ Len(b) = ContentLength(Request(c))
                         /\ \A i \in DOMAIN b :
                              b[i].kind = "byte" /\ b[i].n = conn[c].cur /\ b[i].val = i
    BY DEF ContentWhole
  <2> DEFINE b == conn[c].buf
             S == Append(Unread(conn[c], incoming[c]), toSend[c])
  <2>1. Place(plan[c].requests, conn[c], S[1])
    BY ConnectionFacts, LiveFacts
  <2>2. DOMAIN b = 1 .. Len(b)
    BY ConnectionFacts, SoundFacts
  <2> HIDE DEF b, S
  <2>3. Len(b) = ContentLength(Request(c))
    BY <2>1 DEF Place, Request, b
  <2>4. \A i \in 1 .. Len(b) : b[i].kind = "byte" /\ b[i].n = conn[c].cur /\ b[i].val = i
    BY <2>1 DEF Place, Sessions, b
  <2> QED BY <2>2, <2>3, <2>4 DEF b
<1> QED BY <1>1, ConnectionsSound, PTL

\* A connection ends by a timer, because its client left, or when everything that
\* was asked is answered, in order (the loop read - response - read of
\* server_http.hpp:559-804, with close and the errors that end it).
THEOREM EverythingAnswered == Spec => []NothingLost
<1>1. SoundInv => NothingLost
  <2> SUFFICES ASSUME SoundInv, NEW c \in Conns, conn[c].state = "gone", ~conn[c].shut, ~left[c],
                      plan[c].patient, Plain(plan[c].requests)
               PROVE  got[c] = [n \in 1 .. Asked(plan[c].requests, toSend[c]) |->
                                  [n |-> n, answer |-> Answer(plan[c].requests[n])]]
    BY DEF NothingLost
  <2> DEFINE rs == plan[c].requests
             g == got[c]
             asked == Asked(rs, toSend[c])
  <2>1. Right(rs, conn[c], incoming[c], toSend[c], g, left[c]) /\ g \in Seq(Answers)
    BY ConnectionFacts, SoundFacts DEF Sound
  <2>2. Len(g) = asked /\ \A n \in DOMAIN g : g[n] = [n |-> n, answer |-> Answer(rs[n])]
    BY <2>1 DEF Right
  <2> HIDE DEF g, asked, rs
  <2>3. g = [n \in 1 .. Len(g) |-> g[n]] /\ DOMAIN g = 1 .. Len(g)
    BY <2>1
  <2>4. g = [n \in 1 .. asked |-> [n |-> n, answer |-> Answer(rs[n])]]
    BY <2>2, <2>3
  <2> QED BY <2>4 DEF g, asked, rs
<1> QED BY <1>1, ConnectionsSound, PTL

\* Once it runs, the server ends only where a vector is read outside of its bounds
\* (main.cpp, a place without nodes) or on_error is called without a test
\* (server_http.hpp, after the end of a chunk).
THEOREM EndsOnlyForReason == Spec => []StaysUp
<1>1. SoundInv => StaysUp
  BY DEF SoundInv, EndsForReason, StaysUp
<1> QED BY <1>1, ConnectionsSound, PTL
=============================================================================
