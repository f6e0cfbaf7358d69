---------------------------- MODULE MCWebServer ----------------------------
(***************************************************************************)
(* Clients for WebServer.  Routes has the requests the page of this        *)
(* repository sends and unusual ones; content and chunks are as short as   *)
(* the cases of the code allow (a chunk of one byte has every boundary).   *)
(***************************************************************************)
EXTENDS WebServer, TLC

CONSTANTS c1, c2

Req(method, framing, ends, connection, version, query) ==
  [method |-> method, framing |-> framing, ends |-> ends, connection |-> connection,
   version |-> version, query |-> query]

Get(connection, version, query) == Req("GET", "none", << >>, connection, version, query)

Page == Get("keep-alive", 11, "route")
Typo == Get("none", 11, "unreadable")
Bye == Get("close", 11, "route")
Old == Get("none", 10, "route")
Sea(q) == Get("close", 11, q)
Sized == Req("GET", "length", <<2>>, "keep-alive", 11, "route")
Pieces == Req("GET", "chunked", <<2>>, "close", 11, "route")
PiecesOn == Req("GET", "chunked", <<1>>, "none", 11, "route")
Posted == Req("POST", "none", << >>, "keep-alive", 11, "route")
Garbled == Req("malformed", "none", << >>, "none", 11, "route")
NoNumber == Req("GET", "broken", << >>, "none", 11, "route")

Client(patient, requests) == [patient |-> patient, requests |-> requests]

Patient ==
  {<<Page, Typo, Bye>>, <<Sized, Old>>, <<Pieces>>, <<PiecesOn, Page>>, <<Posted, Page>>,
   <<Garbled>>, <<NoNumber>>, <<Page, Sea("nowhere")>>}
Hasty == {<<Page, Page>>, <<Sized, Bye>>, <<PiecesOn, Page>>}

\* One client of any kind beside one that connects and says nothing, and two
\* clients that ask at the same time.
MCPlans ==
  {(c1 :> Client(TRUE, rs)) @@ (c2 :> Client(TRUE, << >>)) : rs \in Patient}
  \cup {(c1 :> Client(FALSE, rs)) @@ (c2 :> Client(TRUE, << >>)) : rs \in Hasty}
  \cup {(c1 :> Client(TRUE, <<Page, Bye>>)) @@ (c2 :> Client(TRUE, <<Sea(q)>>)) : q \in {"route", "nowhere"}}
=============================================================================
