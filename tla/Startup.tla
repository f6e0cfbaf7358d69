------------------------------ MODULE Startup ------------------------------
(***************************************************************************)
(* The runs of the program one after the other (src/src/main.cpp, main):   *)
(* a run takes the network from its file or generates and writes it, then  *)
(* takes the transit-node tables from theirs, or computes them, writes     *)
(* them and returns; only a run that finds both files serves.  The files   *)
(* are written in place, and any run can be killed at any point.           *)
(*                                                                         *)
(* A file is "none", "cut" (written in part, or not at all after it was    *)
(* opened) or "whole".  Every generated network gets a number of its own;  *)
(* of = 0 is "no network".  A network file that is cut inside its very     *)
(* last number, and loads with that cost shortened, is left out.           *)
(***************************************************************************)
EXTENDS Naturals

CONSTANTS
  MaxFaults,       \* how often a run is killed or a write fails
  Attended         \* whether somebody removes a file no run can load

ASSUME StartupAssumption == MaxFaults \in Nat /\ Attended \in BOOLEAN

VARIABLES
  graphFile, tnFile,   \* [state, of]: GRAPH_PATH and TN_PATH
  at,                  \* where the run is; "down" between runs
  graph,               \* [of, indexed]: the Graph object; indexed means it has offsets and sGrid
  tnData,              \* the network the tables in memory were computed for
  ended,               \* how the last run ended: "never", "returned", "aborted", "killed"
  made, faults         \* networks generated, faults so far

files  == <<graphFile, tnFile>>
memory == <<graph, tnData>>
vars   == <<files, at, memory, ended, made, faults>>

NoFile == [state |-> "none", of |-> 0]
Cut(n) == [state |-> "cut", of |-> n]
Whole(n) == [state |-> "whole", of |-> n]
NoGraph == [of |-> 0, indexed |-> FALSE]

Init ==
  /\ graphFile = NoFile /\ tnFile = NoFile
  /\ at = "down" /\ graph = NoGraph /\ tnData = 0
  /\ ended = "never" /\ made = 0 /\ faults = 0

\* Faulty variants, to see that the properties notice: a file that is there is
\* not used; the network read from a file stays without offsets.
GenerateGraph_Always ==
  /\ at = "graph"
  /\ made' = made + 1
  /\ graph' = [of |-> made', indexed |-> FALSE]
  /\ graphFile' = Cut(made')
  /\ at' = "writeGraph"
  /\ UNCHANGED <<tnFile, tnData, ended, faults>>

GenerateTransitNodes_Always ==
  /\ at = "tns" /\ graph.indexed
  /\ tnData' = graph.of /\ tnFile' = Cut(graph.of)
  /\ at' = "writeTns"
  /\ UNCHANGED <<graphFile, graph, ended, made, faults>>

LoadGraph_NoOffsets ==
  /\ at = "graph" /\ graphFile.state # "none"
  /\ graph' = [of |-> graphFile.of, indexed |-> FALSE]
  /\ at' = "tns"
  /\ UNCHANGED <<files, tnData, ended, made, faults>>

Launch ==
  /\ at = "down" /\ at' = "graph"
  /\ graph' = NoGraph /\ tnData' = 0
  /\ UNCHANGED <<files, ended, made, faults>>

End(how) == at' = "down" /\ ended' = how

\* buildFromFMI; on a cut file std::stoi throws and nobody catches it.
LoadGraph ==
  /\ at = "graph" /\ graphFile.state # "none"
  /\ IF graphFile.state = "whole"
     THEN /\ graph' = [of |-> graphFile.of, indexed |-> TRUE]
          /\ at' = "tns" /\ UNCHANGED ended
     ELSE End("aborted") /\ UNCHANGED graph
  /\ UNCHANGED <<files, tnData, made, faults>>

\* generate_graph up to the opening of the file.  Graph::generate sets nodes
\* and edges, and neither offsets nor sGrid.
GenerateGraph ==
  /\ at = "graph" /\ graphFile.state = "none"
  /\ made' = made + 1
  /\ graph' = [of |-> made', indexed |-> FALSE]
  /\ graphFile' = Cut(made')
  /\ at' = "writeGraph"
  /\ UNCHANGED <<tnFile, tnData, ended, faults>>

\* writeToDisk does not look at the state of the stream.
WriteGraph ==
  /\ at = "writeGraph" /\ at' = "tns"
  /\ \/ graphFile' = Whole(graph.of) /\ UNCHANGED faults
     \/ faults < MaxFaults /\ faults' = faults + 1 /\ UNCHANGED graphFile
  /\ UNCHANGED <<tnFile, memory, ended, made>>

\* loadTransitNodes; the archive throws on a cut file.
LoadTransitNodes ==
  /\ at = "tns" /\ tnFile.state # "none"
  /\ IF tnFile.state = "whole"
     THEN tnData' = tnFile.of /\ at' = "serving" /\ UNCHANGED ended
     ELSE End("aborted") /\ UNCHANGED tnData
  /\ UNCHANGED <<files, graph, made, faults>>

\* generateTransitNodes up to the opening of the file.  The searches read
\* offsets: on a network just generated, through the null pointer of an empty
\* vector.
GenerateTransitNodes ==
  /\ at = "tns" /\ tnFile.state = "none"
  /\ IF graph.indexed
     THEN /\ tnData' = graph.of /\ tnFile' = Cut(graph.of)
          /\ at' = "writeTns" /\ UNCHANGED ended
     ELSE End("aborted") /\ UNCHANGED <<tnFile, tnData>>
  /\ UNCHANGED <<graphFile, graph, made, faults>>

\* saveTransitNodes, then return 0.  The archive throws when a write fails;
\* nobody notices when the last one does, on closing the file.
WriteTransitNodes ==
  /\ at = "writeTns"
  /\ \/ tnFile' = Whole(tnData) /\ End("returned") /\ UNCHANGED faults
     \/ /\ faults < MaxFaults /\ faults' = faults + 1 /\ UNCHANGED tnFile
        /\ End("aborted") \/ End("returned")
  /\ UNCHANGED <<graphFile, memory, made>>

Kill ==
  /\ at # "down" /\ End("killed")
  /\ faults < MaxFaults /\ faults' = faults + 1
  /\ UNCHANGED <<files, memory, made>>

\* Somebody sees that a run aborted and removes the file it stumbled over.
RemoveCutFile ==
  /\ Attended /\ at = "down" /\ ended = "aborted"
  /\ \/ graphFile.state = "cut" /\ graphFile' = NoFile /\ UNCHANGED tnFile
     \/ tnFile.state = "cut" /\ tnFile' = NoFile /\ UNCHANGED graphFile
  /\ UNCHANGED <<at, memory, ended, made, faults>>

Run == \/ LoadGraph \/ GenerateGraph \/ WriteGraph
       \/ LoadTransitNodes \/ GenerateTransitNodes \/ WriteTransitNodes

Serve == at = "serving" /\ UNCHANGED vars

Next == Launch \/ Run \/ Serve \/ Kill \/ RemoveCutFile

\* A run goes on until it ends, the program is launched again when it has
\* ended, and whoever attends to it does so; faults need not happen.
Spec == /\ Init /\ [][Next]_vars
        /\ WF_vars(Run) /\ WF_vars(Launch) /\ SF_vars(RemoveCutFile)
-----------------------------------------------------------------------------
Networks == 0 .. MaxFaults + 1
FileStates == [state : {"none", "cut", "whole"}, of : Networks]

TypeOK ==
  /\ graphFile \in FileStates /\ tnFile \in FileStates
  /\ at \in {"down", "graph", "writeGraph", "tns", "writeTns", "serving"}
  /\ graph \in [of : Networks, indexed : BOOLEAN] /\ tnData \in Networks
  /\ ended \in {"never", "returned", "aborted", "killed"}
  /\ made \in Networks /\ faults \in 0 .. MaxFaults

\* Requests are answered from tables computed for the very network that is
\* loaded, which can be searched, whatever was killed, cut and removed before:
\* the two files are looked for independently (main.cpp:252, 260).
ServesOwnTables ==
  at = "serving" => graph.indexed /\ graph.of # 0 /\ tnData = graph.of

\* Why: a table file, even a cut one, is only ever there next to the whole file
\* of the network it was computed for, and the network in memory that can be
\* searched is the one in that file.
TablesBesideNetwork ==
  /\ tnFile.state # "none" => graphFile = Whole(tnFile.of)
  /\ graph.indexed => graphFile = Whole(graph.of)
  /\ graphFile.state # "none" => graphFile.of # 0
  /\ at = "writeGraph" => graphFile = Cut(graph.of) /\ tnFile.state = "none"
  /\ at = "tns" => graph.indexed \/ tnFile.state = "none"
  /\ at = "writeTns" => tnFile = Cut(tnData) /\ graph.indexed /\ tnData = graph.of
  /\ at = "serving" => tnFile = Whole(tnData) /\ graph.indexed

\* A file that is whole stays as it is: a million nodes are not generated, nor
\* is the sweep run, a second time.
KeepsWholeFiles ==
  /\ graphFile.state = "whole" => graphFile' = graphFile
  /\ tnFile.state = "whole" => tnFile' = tnFile

WholeFilesStay == [][KeepsWholeFiles]_vars

\* After the last fault some run serves and goes on serving.
ServesInTheEnd == <>[](at = "serving")

\* "The program then starts to generate the graph [...] if the file does not
\* exist. Afterwards, a local web server is started" (README.md): a run that
\* is not killed does not come to an end.
RunsEndInServing == ended \in {"never", "killed"}
=============================================================================
