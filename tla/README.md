# OSM-ShipRouting in TLA+

A ship router: it cuts coastlines out of OpenStreetMap data, scatters points over
the sphere, keeps those in water, joins each to its nearest neighbours, and then
answers shortest-path requests over HTTP, with tables of transit nodes on a grid
of 96 x 96 cells that make distance queries fast. This directory models the way from
the pieces of coast in the map file to the answer on the wire and checks it with TLC. With
TLAPS it proves, for all sizes: that the search everything rests on finds shortest paths and
exact tables of distances; what the tables of transit nodes hold, and that queries on them are exact,
on networks on which the limited searches suffice; that
path queries follow shortest paths; that the generated network does not depend on how threads run;
what the two files may hold; that coastlines are put together whole; and that the server
loses and mixes up nothing. Paths such as `Graph.cpp` are under `src/src/`.

## The system

| part | state it keeps | operations | model |
|---|---|---|---|
| `Graph` (graph/) | edge arrays sorted by source, offsets, nodes | `buildFromFMI`, `generate`, `dijkstra` | ShipGraph, ShortestPath, Dijkstra |
| `GraphGenerator` (graph/) | candidates, one vector per thread, edge list | `performPolyTestsConcurrent`, `performEdgeSearchConcurrent` | GraphGenerator |
| `CoastHandler`, `CoastlineStitcher` (io/) | coast pieces, maps by position and id | `stitchCoastlines` | CoastlineStitcher |
| `InPolyTest` (graph/) | coastlines, bounding boxes, `cutEdges` shared by threads | `performPointInPolyTest` | InPolyTest, Land; `cutEdges` in GraphGenerator |
| `TransitNodesRouting`, `SingleTnPass` (transit_nodes/) | edge buckets, tables of a pass, transit nodes, `TransitNodesData` | `sweepLineTransitNodesMain` and all it calls | TransitCells, SingleTnPass, TransitNodesRouting |
| `TransitNodesQuery` | none (reads graph and tables) | `query`, `query_alg`, `path_query` | TransitNodesQuery, PathQuery |
| `main` | the two files on disk | load or generate, write, serve | Startup |
| `SphericalGrid`, `CellSearch` (utils/) | nodes by cell | `findClosestPoint(s)` | CellSearch |
| `startServer` on Simple-Web-Server (libs/) | connections, sessions, timers, what was read | accept, read head, content and chunks, answer, time out | WebServer |
| `GeoWriter` (io/) | none | text and GeoJSON files | its unchecked write in Startup |
| evaluation, web page | - | - | not modelled |

How they interact. Everything is a chain of calls on one thread, with two
exceptions: the generator runs two pools of six threads, and successive runs of the
program share the two files. The generator gets the stitched coastlines through
`InPolyTest` and asks `CellSearch` for the neighbours of every node. `main` hands the
graph of the network file to the preprocessing or, with the tables of the other file,
to the queries. The server runs the completion handlers of all connections on one
thread (`thread_pool_size` 1); a request is two searches for the nearest node and one
`path_query`, all inside one handler.

What is hard, and what makes each part correct:

* The search stops as soon as the target leaves the queue, works with stale queue
  entries and adds ints next to a sentinel of `INT_MAX`. It must return a shortest path.
* The preprocessing gets by with searches cut off around a grid line, neighbour
  cells found by index arithmetic modulo the grid, edges filed once per crossing, and
  tables to which later lines add cells. The tables must make every query exact.
* A query adds up to three table entries, sentinels among them, in `int`. It must
  not invent a distance.
* A path query advances two walks by asking distance queries. It must end, with a
  shortest path.
* Files are written in place and trusted when present, independently of each
  other. Tables must belong to the network they are used with.
* Threads fill private vectors joined in order, and search each edge from both
  ends. The file must not depend on the interleaving.
* The stitcher looks pieces up by place and by id in maps that keep the first of
  several. Each piece must go into one closed coastline, whatever order the file has.
* Land is decided by counting crossings of one meridian, with special cases for corners
  on it, for the antimeridian and for the south pole.
* The nearest-node search skips every cell whose border is too far, with borders taken
  modulo the grid. It must not skip the cell of the nearest node, nor leave the grid.
* A connection of the server lives as long as some operation or handler refers to it, and
  three kinds of timers race with what arrives. Nothing may be lost or mixed up between
  the requests of a connection, and every connection must end.

PROJECT.json lists the hazards line by line, with the properties aimed at each.

## Modules

* **ShipGraph**: the network as a record of edge arrays and offsets, how
  `buildFromFMI` makes it from edge lines, `IntAdd` (the sum of two ints), and two
  independent definitions of distance (Bellman and Ford's recurrence as reference,
  nearest-first settling for the larger models).
* **ShortestPath**: what `Graph::dijkstra` promises, without how: one reply that
  is a shortest path, certified by a potential, or -1, certified by a set of nodes
  that no edge leaves.
* **Dijkstra**: `Graph::dijkstra` and `dijkstraSSSP`, one action per turn of each
  loop (`PopStale`, `PopTarget`, `PopSettle`, `Relax`, `RelaxEnd`, `Exhausted`,
  `SsspReturn`, `TraceStep`, `TraceFail`, `TraceEnd`). The refinement
  `SP == INSTANCE ShortestPath` maps "done" to a call that has returned.
* **DijkstraInvariant**, **DijkstraProofs**: the inductive invariant and the proofs.
* **ShipGraphProofs**: induction and recursion over sets of numbers; facts about networks and distances that
  the proofs share.
* **TransitCells**: cells of nodes, `lessThanNGridCellsAway`, the buckets of
  `findEdgeBuckets`. A network carries the cell of each node; projected positions are
  not modelled (no node lies on a grid line).
* **SingleTnPass**: order of the sweep, cells probed around a line, boundary
  nodes, the limited search, stored distances. Pure operators, one per function.
* **TransitNodesRouting**: the state machine of the preprocessing. `SweepNode` is
  one turn of `singleSweepLinePass`, `FindTransitNode` one pair of boundary nodes,
  `AssignDistances` the end of a line, `Collect` the three closing functions. The
  iteration over an `unordered_set` is the choice of any `v` in `Nearest`.
* **TransitNodesQuery**: `query_alg` and `query` as operators on the tables.
* **TransitNodes**: preprocessing and query composed, and the properties that
  relate them to the geometry of the grid and to true distances. Its last section defines the networks the
  theorems about the tables speak of (`PlainCrossings`, `SearchesSuffice`); no action uses it.
* **LineMeetings**: what the sweep can make of a network, line by line, without running it: the conditions under which
  queries are exact (`LinesMeetPaths`, `LinesConnect`). Used by the proofs and evaluated in the run paths.
* **TransitNodesProofs**: where the entries of the tables come from, and why they are right and complete.
* **PathQuery**: `path_query` on the finished tables; `Turn` is one turn of its loop.
* **PathQueryProofs**: why walks stay on shortest paths and how they meet, and what the tables are worth
  to both kinds of queries.
* **GraphGenerator**: both thread pools; `SkipPolar`, `BeginTest`, `EndTest`,
  `FindEdges` are the steps of a thread, `JoinNodes`, `JoinEdges`, `Filter` (the loop over
  the sorted edges, line by line) and `FilterEnd` those of the main thread. The race on `cutEdges` is undefined behaviour: while two
  threads are testing, `CorruptCutEdges` may end the process, or nothing happens.
* **GraphGeneratorProofs**: its invariants and proofs.
* **CellSearch**: `SphericalGrid` and `CellSearch`. `AddPoint` files a node, `Search` is
  the search of one quarter (`ExpandSearch`, a recursive operator as in the code),
  `FindClosestPoint` the choice among the four. Places lie on half degrees; distances are
  compared by the haversine term, with tables of sines.
* **CoastlineStitcher**: `stitchCoastlines`; `Skip`, `Begin`, `Attach`, `Close` are what a
  turn of its loops does. A growing coastline is kept twice: `coastline`, the sequence of its pieces, and `path`, its nodes.
* **CoastlineProofs**: why no piece is used twice or left behind, and why what comes out is closed coastlines.
* **InPolyTest**: the boxes and the test itself, as operators. Places have exact integer
  directions, and the bearings the code compares are compared by determinants.
* **Land** composes both: `StitchCoasts`, then `MakeBoxes` (the constructor of
  `InPolyTest`), then `AskPoint`. Its `Surrounds` is an independent definition of what a
  coastline surrounds, without boxes, meridians or poles.
* **WebServer**: the connections of `SimpleWeb::Server` as `startServer` uses it. A
  connection has at most one operation under way, which completes (`HeadArrives`,
  `LineArrives`, `BytesArrive`, `ResponseGoes`, or `Breaks` with an error) and whose handler
  runs later (`HeadRead`, `ContentRead`, `SizeRead`, `DataRead`, `EndRead`, `Written`,
  `Failed`); `Expire` and `TimedOut` are the same two steps of a timer. The stream of a client
  is cut into tokens that arrive one by one; `toSend` is the next one, `After` the one behind it. Operations of asio are modelled by their
  contract. `StartServer`, `Accept`, `ClientSend`, `ClientLeave` are the rest.
* **WebServerProofs**: why no connection is held without a timer, contents are whole, and answers belong
  to their requests.
* **Startup**: one run after the other over the two files; `Kill` at any point,
  failed writes, files that are cut.
* **StartupProofs**: its invariants and proofs.
* **Waters**: families of networks (single coasts, rings, double lanes, roads around an island with a cape).
* **MCDijkstra**, **MCTransitNodes**, **MCPathQuery**, **MCGraphGenerator**,
  **MCCellSearch**, **MCLand**, **MCWebServer**: the values of the constants for the runs.
  MCTransitNodes and MCPathQuery also assume what the theorems ask of networks, so that TLC evaluates it.

Several modules hold *faulty variants* of an operation, named `<operation>_<what is
wrong>`. No specification uses them: a run repeated with one in place of the original
must see its property violated, which shows that the property notices that mistake.

## Runs

| run | question | size |
|---|---|---|
| dijkstra | does every call implement ShortestPath, return, keep the invariant? | all graphs of 3 nodes without parallel edges, costs 0 and 2, every source and target, and SSSP calls |
| waters | do the limited searches store true distances, are the tables complete and all distance queries exact? | 20 nodes, 20 x 20 cells, 1444 networks: coasts of 8 nodes, straight over every column, slanted, turning south; rings around the globe; double lanes; islands |
| paths | do the tables fit the walks, and do path queries end with shortest paths? | 24 nodes, 20 x 20 cells: two lanes of twelve columns |
| generator | does the interleaving matter to the network file? | 2 threads, 5 candidates, 3 nodes, every choice of neighbours |
| startup | are the right tables served, and does the program serve in the end? | any number of runs, 4 faults |
| nearest | does every search find a nearest node, without leaving the grid? | 24 x 12 cells, 35 places, any two nodes around each |
| land | are coasts put together again, and is land what they surround? | 5 coastlines in up to 3 pieces, in every order; 252 places |
| touching | what becomes of two coasts that touch and are both cut where they do? | 2 coasts in 2 pieces each, in every order |
| server | what becomes of requests when streams are cut, timers go off and clients leave? | 2 connections, 13 pairs of clients |
| corner, two_waters | queries are not exact there, see below | coasts of 8 nodes, 20 x 20 cells; two lanes of 6 nodes, 12 x 12 cells |
| first_run | what the program's README says and the program does not do | as startup |

The longest, server, takes about two minutes; waters, paths and land one, nearest half of one.

Why these bounds are enough.

* dijkstra: three nodes allow a detour that is cheaper than the direct edge, a
  stale queue entry, an edge of cost 0, a cycle and an unreachable target. The proofs
  do away with the bound.
* waters: the code looks three cells to either side of a line, takes five cells
  as "near" and compares columns with half the grid. In 20 columns a pair further apart
  than four cells, a transit node for each and the antimeridian fit with room on both
  sides, and a ring of 20 nodes closes. The other 12 nodes of a coast are isolated. Nodes are numbered
  from either end, or alternately, because the code takes "the end with the smaller number" of an edge.
  Along one row a search is never cut off, since it goes on while it is near in column *or* row
  (SingleTnPass.cpp:223). The islands are there for that: a road of eight parts along a straight shore and around a cape
  four rows away. From the shore a search stops on the way around the cape, which is outside in both. On each of
  these networks 5 of the 24 searches give some node no distance or one that is too long; 2 to 4 of them find one that is
  too long. Of eight pairs of lines with a node in common two have searches that differ, and both store
  a distance under one key. What is stored is nevertheless true and complete, lines agree on it, and queries are
  exact. The shore is not the longer way in any of them; why that matters see below.
* paths: pairs more than eight cells apart are needed, hence twelve columns. The joints
  of the lanes and the fast parts are placed so that shortest paths change lanes.
* generator: two threads and two full ranges; the fifth candidate lies behind the last
  range. Three nodes let two searches find one edge from its two ends, inside a range and
  across ranges; the third one is left to no thread.
* startup: four faults cut both files and then both again.
* nearest: a cell is 15 degrees wide and a place can lie in its middle or on each of its
  borders; the places lie in the first and last rows, beside Greenwich, on both sides of the
  antimeridian, and beyond 180 degrees, where the page sends places when its map is moved around.
  Two nodes are enough for a wrong one to win. The places end where the searches are exact: on
  the real grid of 360 x 180 cells they are up to 88 degrees, and beyond
  that they need not be (see below).
* land: a bay (a place whose meridian is crossed several times), an island over the antimeridian, one
  around the south pole, two coastlines that share a corner. A coast cut in two pieces has both of
  them start where the other ends, and with a second coast there is something to mix them up with.
* server: a dozen kinds of requests (no content, content of a known length, chunks, closing or not,
  HTTP 1.0, malformed, no number where one belongs, POST, a place without nodes), by clients that
  wait for answers and by ones that do not. A chunk of one or two bytes has every boundary
  the code tells apart. Handlers touch only their own connection and `running`, so a second
  connection stands for all others; for `AlwaysTimed` the proof does away with the number.

Numbers. `MaxInt` stands for 2147483647, `Unset` for 2000000000, `Missing` for
20000000; the transit-node runs use 2147, 2000 and 20, the same ratio up to rounding, so
the sums that overflow in the program overflow in the model and no other. `IntAdd` wraps as
the usual builds do, although C++ leaves the overflow of an int undefined.

Preconditions. `HasCells` keeps nodes out of the three southernmost rows: with 96 rows
these lie south of 78.75 degrees, where there is no water to speak of. The coasts that
turn south have no node with edges into another row and another column (`NoCorner`); with
such nodes queries are wrong, which is what the run corner shows. Edges are at most one
column wide.

### What does not hold

* **corner**: `findBoundaryNodesNegative` puts an edge of an already marked node into a
  list nobody reads, the positive direction puts it into `boundaryEdges`. A cell then misses
  its transit node and a reachable pair is answered -1.
* **two_waters**: 2000000000 + 2000000000 overflows and the answer is shorter than
  the shortest path.
* **touching**: two coasts touch in a corner and are both cut there. The next piece is looked up by place, which
  may lead onto the other coast; back at the corner the piece found is used, the second look, by id, finds it again and
  its mark is not asked for. It is attached again and again, for ever, although "only process every coastline
  once" (PBFProcessing.cpp:57). With pieces in other orders the same coasts come out right.
* **first_run**: a network just generated has no offsets, so the run that
  generates it aborts in the preprocessing and never serves.

Seen in the code while modelling, and in no run:

* Transit nodes: `lastIndexX + gridsize;` (TransitNodesRouting.cpp:152) has no effect, so an
  edge over the antimeridian wider than the first column is filed under no line. An edge is filed
  under the row of its end with the larger x (134, 146), over the antimeridian the western
  one, so a slanted edge there is filed under the wrong row. Neither is checked (`AllCrossingsFiled` is about columns).
* Queries: a node of a line is connected only with boundary nodes at most two cells along the line from it
  (SingleTnPass.cpp:46-49). A shortest path that crosses the line further away, around a cape and back, is
  seen by none of its nodes. On islands like those of waters, but with the way around the cape the
  shorter one, stored distances are exact and complete, and queries are too long by the detour along the
  shore (17 instead of 11).
* Paths: the halves of a path can overlap by more than the node dropped
  (TransitNodesQuery.cpp:105-106), which repeats nodes but not length. With two equally long ways the
  walks can take one each and meet in a node inside the other's path (96); what is then joined
  (102-110) still goes to the end of both walks, so the result has a detour its length does not
  count. A walk can also stop at a step the tables do not answer, and the path is then returned
  as not found (66-70).
* Generator: the remainder of the division among threads is lost, as the test compares with the wrong number
  (GraphGenerator.cpp:51, 77); the model does the same, and `WaterKept` and `EachEdgeOnce` are about
  what some thread was given. All threads write to one vector, `cutEdges`, without a lock (InPolyTest.cpp:67, 138-139), which may end
  the process; the properties are about runs in which it does not.
* Nearest node: beyond 88 degrees of latitude a search may stop too early, because it measures how far the next
  border is along the place's own parallel, and the nearest point of that border is then nearer. Nodes and clicks lie there too: candidates are drawn over the whole
  sphere (GraphGenerator.cpp:17-22), and only those south of -85 degrees are dropped (110). A node on the very parallel or meridian of the place is in no quarter and never
  found; with none in any quarter the index is -1 and is used as such (main.cpp:140). A longitude of exactly 180, or below -180, gives a column outside of the grid, a
  latitude of 90 the row 180 (GraphUtils.cpp:26).
* Stitcher: `map.find` and `idMap.find` are used untested, so a way that ends where none begins,
  or one without a valid location, reads past the end.
* Land: places due north or south of a corner where the coast turns back, or of a coastline's first
  node, are not decided reliably (`Plain` leaves them out): a turn counts as one crossing, and the
  closing edge has no length and a bearing that is noise. An island over the antimeridian is cut off by
  its box if any of its nodes is farther from it than others on the same side (InPolyTest.cpp:48-52:
  the box reaches from the largest longitude to the smallest). Boxes are made from the
  nodes' latitudes, and the great circle between two nodes bulges beyond them.
* Server: a timer's handler that is queued already closes a connection although the head of the
  request has been handled in between, and the answer is lost (`NothingLost` says nothing of
  connections a timer closed). The CR LF behind the last chunk stays unread; if it arrives late, the
  next request begins with it and is dropped as malformed. Of requests sent without waiting for
  answers, those that came with the one before are dropped with its session. `on_error` is
  never set, and called without a test behind a chunk (server_http.hpp:697, 716): a client
  that leaves there ends the process (`StaysUp` excepts it). Anything but a GET of the
  one resource, and every malformed request, is closed without an answer.

## Fairness

* Dijkstra: `WF(Next)`. The call runs on one thread and never waits.
* TransitNodesRouting has no fairness: only safety is checked. The runs check deadlock,
  and every step but the last one moves `phase`, `line`, `todo` or `pairs` forward, so a
  run that goes on reaches "done".
* PathQuery: `WF(Turn)`, a loop on one thread. The model may stop after the
  one query it asks, so deadlock is not checked there.
* GraphGenerator: weak fairness of each thread and of the main thread: the operating
  system runs every thread that can run. There are no locks to wait for. Nothing
  makes the race happen or not happen.
* CoastlineStitcher, Land: weak fairness of the loop, on one thread. CellSearch has none.
* WebServer: for each connection, weak fairness of what asio completes once it can (`Completes`), of the
  handlers (`Handles`), of timers (`Expire`, `TimedOut`). The thread runs handlers in the order they
  were queued, so each has its turn, and the steps of one connection never disable another's. There is
  no fairness of clients: they may stop anywhere, or stay for ever. Neither is there
  of `Accept` and `StartServer`: `ConnectionsEnd` is about connections that were accepted.
* Startup: weak fairness of the run and of launching the program again; strong fairness of
  somebody removing a cut file after an abort (the condition comes and goes with each
  launch). Faults have no fairness. Without that somebody the program aborts for ever.

## Proofs

Eight modules hold proofs. A theorem assumes the named ASSUMEs of the modules it is about
and the hypotheses in its own statement, which are given below, and nothing else.

**The search** (DijkstraProofs, for every `N`, `MaxInt` and set of graphs):

* `InvariantHolds`: `Spec /\ []NoOverflow => []IInv`, and from it `TypeCorrect` and
  `NodesSettledInOrder`; `SearchInvariant` says the same of `Inv`, which the run dijkstra checks.
* `NeverOverflows`: if `N` times the longest edge is less than `MaxInt`
  (`CostsBounded`), then `Spec => []NoOverflow`.
* `ReturnsShortestPath` and `ShortestPathOnBoundedCosts`: the search implements
  ShortestPath, given `[]NoOverflow` or given `CostsBounded`.
* `SsspReturnsDistances` and `SsspOnBoundedCosts`: the table of `dijkstraSSSP` holds the
  distances of both reference definitions.

Assumptions: `SizeAssumption` (at least one node, a positive `MaxInt`) and
`GraphsAssumption` (offsets and edge arrays fit each other). No sum overflowing is a
hypothesis and not an assumption: the code does not test it, and the bound that implies it is
generous (a network of a million nodes with edges of 50 km exceeds it, although its
distances, some tens of thousands of kilometres, do not).

Why the invariant is needed. `SettledInOrder` alone is not inductive: that a
settled node cannot be improved follows only with the queue holding every reached
node at its present distance (`QueueCovers`), older entries being no smaller, and
the relaxed edges being feasible (`Settled`). The path returned is right because `prev` is
a tree of tight edges over settled nodes (`Tree`), which the walk back follows
(`Chain`). When the loop is left, the target lies between the settled nodes and
the rest (`Cut`), so `min(dist, dist[target])` is a potential that no edge
overruns; it is the witness of the refinement. When the target was not reached, the
settled nodes are the set that separates it. `Budget` adds: a reached node is at most one
longest edge per settled node away. Each action has one lemma, and in it one step per
conjunct the action disturbs.

**Distances** (ShipGraphProofs). `Certified(g, s, d)` is how one sees that distances are right: no edge
improves them, and every reached node but `s` has an edge that accounts for its distance and comes
from a node of smaller rank. Certified distances equal the recurrence and the greedy search
(`CertifiedIsReference`, `CertifiedIsSettled`); the order in which the search settles nodes is such a
rank, hence `SsspReturnsDistances`. On networks with bounded costs the greedy search is certified by its own order
(`DistancesCertified`), so `SearchIsReference`: the distances by which all other modules state their
properties are the reference ones. `Triangle`, `OverAnEdge` and `SameBothWays` (with an opposite for every
edge) follow along shortest paths. The library's induction theorems take operators, which the provers cannot
instantiate; the first section states induction and recursion for sets instead.

**Path queries** (PathQueryProofs). Hypotheses: every network has bounded costs and edges both ways
(`AllSearchable`), and `[]TablesFit`: `query_alg` answers no less than the distance, and exactly that
beyond four cells. The code takes an edge when the answer behind it makes up for what is left; the
answer may be one it would not get from `query` (near the goal tables are not exact), but since it is never too
small, equality means the edge lies on a shortest path (`AdvanceFacts`). So `RestIsDistance`
(`RemainingIsDistance`). `ReturnsShortest` is about `PathIsShortest`, which does not hold of every network:
the walks must meet at their ends (`Joined`), and between nodes with only one shortest way (`OnlyWay`) they do.
There the invariant `MeetInv` says that the walks stay one behind the other on that way (`InLine`) and that
their other nodes lie behind their ends; a turn then keeps them so, brings them to one node, or makes
them change places. In six of the nine networks of the run paths all pairs of nodes have only one way; in the three others 34
pairs have two, 8 of these more than eight cells apart, and what is returned is a shortest path there too.

**The tables** (TransitNodesProofs, for any grid, any networks that satisfy `NetworksAssumption` and
`GridSizeAssumption`):

* `TypeCorrect`: `Spec => []TypeOK`; `TablesCollected`: how the tables at the end come from what the sweep stored.
* `CrossingsInBuckets` (`AllCrossingsFiled`), if no edge spans half the globe or goes over the antimeridian from
  west of the last column (`PlainCrossings`; the code files the latter under no line).
* `NeverStoredShorter`, on bounded costs: a limited search may find too long a distance, never too short a one.
* `StoredExact` (`LocalDistancesExact`), `StoredTwiceAgree` (`DuplicatesAgree`) and, if costs are bounded and no distance
  happens to be the one for "unknown", `NoneLeftUnknown` (`LocalDistancesComplete`), on networks with `SearchesSuffice`.

The inductive invariant is `TypeInv`. `LocalDistancesExact` says nothing of a pass under way, and its
distances are exact only for some cells; so the invariant says where everything comes from.
`Kept`: what a pass holds of a node `v` is what a search around a place of `v` on this line found,
for boundary nodes met around that place. `Serving`: a cell got a transit node from a line that serves it
(`CellsServed`). `StoredBySearches`: what is stored for a node and a transit node is what one search
around a place of the latter found. A second invariant, `NoneMissing`, says that a transit node of a cell has its distances stored, or
the line that gave it is still under way and has them (`Pending`). That later lines add cells to a transit
node does no harm, because the line that adds a cell is one of those that store its distances.

`SearchesSuffice` is about the network alone, without any state of the sweep: the search around a node of a line, cut off outside
seven columns and rows, finds the distance of every node in the cells that line serves, and in cells another line
serves from there a shortest way or none. The code takes it for granted and it cannot be expected of
all networks (a shortest way that leaves the seven columns and rows and comes back breaks it). TLC evaluates it in the runs
corner and two_waters on a network each, and `PlainCrossings` on all networks of waters, corner and two_waters. Outside of the
runs, as it takes long, `SearchesSuffice` was evaluated on all 1444 networks of waters, the 9 of paths and the 256 of
the family corner. It holds on all of them but 8 of the 9 islands. What is wrong in the run corner is thus not a distance but a missing
transit node. On those islands a search finds too long a way to a cell that a line might serve from there and does not;
the condition asks for more than is needed, and that what is stored is true there is known from TLC alone.

**Queries** (PathQueryProofs). All hypotheses are about networks, none about a state of the sweep. `Tabled`: one water
(`OneWater`: edges go both ways, costs are bounded, any two nodes are connected, distances are below `Unset` and three of them
stay within int) on which the searches suffice. `LinesMeetPaths` (module LineMeetings): for any two cells more than four
apart there are pairs of boundary nodes, of some line each, that give these cells two transit nodes on a shortest path, and
pairs that give them two whose distances are not by accident the one for "not connected", whichever of
equally near nodes the lines take. (These need not be the same pairs: `query_alg` answers as soon as one pair of transit
nodes has known distances, and takes the minimum over all.)

* `QueriesExact`: `Spec => []QueryExact`. The invariants `InPass` and `AllTaken` follow the sweep: its tables are
  those of the line's pass as far as it has got (`Pass`, `PassFacts`), and every pair of a line done has given its cells one
  of its nearest nodes, or has none. Stored distances of boundary nodes are the true ones (`StoredAtBoundary`), so the nearest
  nodes are the middle ones of the connection in the whole network (`MiddleIsNearest`). Hence the tables have what
  `LinesMeetPaths` promises (`PathsPass`), and with exact and complete entries no sum over other pairs
  is smaller and none overflows (`AlgFacts`).
* `AnswersNotShorter`, on `Tabled` networks only: an answer is never less than the distance; two_waters shows that it does need
  one water.
* `AnswersFitPaths` (`TablesFit`), if the lines connect near cells as well (`LinesConnect`), which they need not: near
  cells need no transit nodes for their own queries.
* `PathsAreShortest`: on such networks with only one shortest way between any two nodes and no free edges,
  `RemainingIsDistance` and `PathIsShortest`, from the first step of the preprocessing to the path returned.

That a network satisfies `LinesMeetPaths` is a matter of the geometry of edges on the grid: whether the cross of probes around a line
meets the path. It fails with corners, as the run corner shows, and the code takes it for granted. TLC evaluates it, with
`LinesConnect`, on a network of paths in that run; outside of the runs it was evaluated on all networks of paths and
waters, islands included (on the coasts without the isolated nodes, as `OneWater` has it), and holds, as `LinesConnect` does
on those of paths.

**The generator** (GraphGeneratorProofs), for any number of threads, candidates and nodes and any world that satisfies
`GeneratorAssumption`: `InvariantHolds`, `TypeCorrect`, `AllWaterKept`, `AllEdgesBothWays`, `AllEdgesOnce`,
`GeneratedFileIsGraph`. The invariant follows the work of each thread through its range (`NodesInv`, `EdgesInv`),
the joins in order of the threads (`JoinInv`), and the filter along the sorted edges (`FilterInv`: what is kept so
far is sorted, has no two edges alike and stands for all edges read). Sorted lines make the edges of a node
one interval, which is what `IsGraph` asks of `BuildFromFMI`.

**The files** (StartupProofs), for any number of faults and whether or not anybody removes cut
files: `TablesStayBesideNetwork`, `OwnTablesServed`, `WholeFilesKept` and
`TypeCorrect`, from `StartupAssumption` alone. `ServesOwnTables` says something of serving runs only;
the inductive `TablesBesideNetwork` follows the files through the runs before: the program
writes tables only next to a network it has read back whole, it writes a network only
where there is none, and by then there are no tables either. `Counted` (each network after the first
takes a fault that cut the file of the one before) bounds the number of networks.

**The server** (WebServerProofs), for any set of connections and any plans of clients (`PlansAssumption`):

* `NoSilentHold`: `Spec => [](AlwaysTimed /\ \A c : Held(conn[c]))`. `AlwaysTimed` alone is not
  inductive: a timer must be set whenever an operation starts, and an operation that starts
  without one would only be noticed later. The invariant `Good` of a connection joins `Timed` (the
  timer runs, or has gone off, or the connection is closed) to `Held` (an operation is under way exactly
  while the connection is open).
* `ConnectionsSound`, and from it `BufferIsContent` (`ContentWhole`), `EverythingAnswered`
  (`NothingLost`) and `EndsOnlyForReason` (`StaysUp`). The invariant `SoundInv` says of each connection that
  what was read, what has arrived and the next token of the client are consecutive in its plan, that the first
  token not read belongs behind what the buffer holds (`Place`), that of the requests asked at most one is
  without its answer and the others have theirs in order (`Turn`), and that the process only ends for a reason.

Every handler changes one connection by a function of its state; lemmas say of each of these functions
what it keeps, and the theorems lift them to the whole.

**The coasts** (CoastlineProofs), for any closed coasts that do not touch, cut into any number of pieces in any
order (`WellCut`, a hypothesis of the theorems): `PiecesUsedOnce` (`EachPieceOnce`, "only process every
coastline once"), `EveryPieceUsed` (all pieces are marked in the end) and, for coasts without a common stretch,
`CoastlinesClosed` (`CoastsClosed`). That an attached piece was not used
before is not inductive: the code looks the next piece up by place and tests the mark only
to look it up again by id. The invariant says that marks come in whole coasts (`WholeCoasts`: a piece outside
of the growing coastline is marked exactly if its follower is), that the growing coastline is an injective
chain of followers (`Chain`) and that the piece which follows it is unmarked (`Marked`); `AlongPieces` and
`ResultInv` relate the nodes to the pieces, so that the stretches that come out can be matched one to one with
those that went in. `WellCut` is needed: with coasts that touch the second look-up can lead to a used piece. Of
the 197 worlds of the run land, 195 satisfy the hypotheses.

**Only model-checked**: termination and all liveness (fairness and ENABLED are beyond the prover); nearest nodes (`StaysInside`, `QuarterExact`, `ClosestExact`: `ExpandSearch` is recursive as in the code,
and a module with a theorem must not reach a recursive operator; besides, the bounds on distances are tables of
sines); what is land (`LandIsLand`: that counting crossings of one meridian tells inside from outside is
a theorem of the topology of the sphere).

## Not modelled

* Float arithmetic. The projection: the transit nodes' cells are given. The haversine distance: its
  term on a grid of half degrees (CellSearch), given costs elsewhere; it is symmetric, as the formula is.
  The bearings of `InPolyTest`: exact, so rounding next to a coast is not seen.
* The generator takes what lies in water and which neighbours are found from a world, and not from
  Land and CellSearch: their results are its inputs, and both are checked apart.
* `CoastHandler`, which reads the map file with libosmium, and the parsing of network and table
  files. A network file cut within its very last number, which loads with a shortened cost.
* Of the server: `stop`, `on_upgrade`, `send`, the clean-up of `ScopeRunner`, resource patterns, limits
  on the size of a request (left at their maximum), the headers of a response; `client_http.hpp`, the
  HTTPS files and `crypto.hpp`, which nothing includes. Parsing a head is a choice among its outcomes.
* An index of -1 (main.cpp:140) is undefined behaviour: the request is answered anything, or
  the process ends.
* `trim`, `transformBack`, logging, GeoJSON, the evaluation (its calls in `main` are commented out) and
  the web page.

## Plan

1. Done: the search, the tables, both queries, the generator, the files, the nearest node, coasts and land, the
   server; proofs of all of these but the nearest node and land.
2. Proofs: `SearchesSuffice` and `LinesMeetPaths` of a family of networks of any size, such as coasts along a parallel with
   edges of one column; the choice of the nearest node among the four quarters, with the searches
   written without a recursive operator.
3. Compositions: the generator with CellSearch in place of the given neighbours.
