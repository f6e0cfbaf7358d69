--------------------------- MODULE StartupProofs ---------------------------
(***************************************************************************)
(* For any number of faults: the program serves tables of the network it   *)
(* has loaded, and never rewrites a whole file.                            *)
(***************************************************************************)
EXTENDS Startup, TLAPS

\* The types the argument needs; how many networks there can be does not matter.
Shapes ==
  /\ graphFile \in [state : {"none", "cut", "whole"}, of : Nat]
  /\ tnFile \in [state : {"none", "cut", "whole"}, of : Nat]
  /\ graph \in [of : Nat, indexed : BOOLEAN]
  /\ tnData \in Nat /\ made \in Nat

Inv == Shapes /\ TablesBesideNetwork

LEMMA InitInv == Init => Inv
BY DEF Init, Inv, Shapes, TablesBesideNetwork, NoFile, NoGraph, Whole, Cut

LEMMA StepInv == Inv /\ [Next]_vars => Inv'
<1> SUFFICES ASSUME Inv, [Next]_vars PROVE Inv'
  OBVIOUS
<1> USE DEF Inv, Shapes, TablesBesideNetwork, files, memory
<1>1. CASE Launch
  BY <1>1 DEF Launch, NoGraph
<1>2. CASE LoadGraph
  <2>1. CASE graphFile.state = "whole"
    <3>1. graphFile = Whole(graphFile.of)
      BY <2>1 DEF Whole
    <3>2. /\ graph' = [of |-> graphFile.of, indexed |-> TRUE] /\ at' = "tns"
          /\ UNCHANGED <<graphFile, tnFile, tnData, made>>
      BY <1>2, <2>1 DEF LoadGraph
    <3>3. Shapes'
      BY <3>2
    <3>4. graph'.indexed /\ graph'.of = graphFile.of
      BY <3>2
    <3>5. TablesBesideNetwork'
      BY <3>1, <3>2, <3>4
    <3> QED BY <3>3, <3>5
  <2>2. CASE graphFile.state = "cut"
    BY <1>2, <2>2 DEF LoadGraph, End
  <2> QED BY <1>2, <2>1, <2>2 DEF LoadGraph
<1>3. CASE GenerateGraph
  BY <1>3 DEF GenerateGraph, Whole, Cut
<1>4. CASE WriteGraph
  BY <1>4 DEF WriteGraph, Whole, Cut
<1>5. CASE LoadTransitNodes
  BY <1>5 DEF LoadTransitNodes, End, Whole, Cut
<1>6. CASE GenerateTransitNodes
  BY <1>6 DEF GenerateTransitNodes, End, Whole, Cut
<1>7. CASE WriteTransitNodes
  BY <1>7 DEF WriteTransitNodes, End, Whole, Cut
<1>8. CASE Serve \/ UNCHANGED vars
  BY <1>8 DEF Serve, vars
<1>9. CASE Kill
  BY <1>9 DEF Kill, End
<1>10. CASE RemoveCutFile
  BY <1>10 DEF RemoveCutFile, NoFile, Whole
<1> QED BY <1>1, <1>2, <1>3, <1>4, <1>5, <1>6, <1>7, <1>8, <1>9, <1>10 DEF Next, Run

\* Table files are only there beside the network they were computed for, in
\* any sequence of runs with any kills, failed writes and removals of cut files.
THEOREM TablesStayBesideNetwork == Spec => []TablesBesideNetwork
<1>1. Inv => TablesBesideNetwork
  BY DEF Inv
<1> QED BY <1>1, InitInv, StepInv, PTL DEF Spec

\* Requests are answered from the tables of the very network that is loaded
\* (main.cpp:252-266 looks for the two files independently).
THEOREM OwnTablesServed == Spec => []ServesOwnTables
<1>1. Inv => ServesOwnTables
  BY DEF Inv, Shapes, TablesBesideNetwork, ServesOwnTables, Whole
<1> QED BY <1>1, InitInv, StepInv, PTL DEF Spec

\* A file that is whole is never written nor removed again.
THEOREM WholeFilesKept == Spec => WholeFilesStay
<1>1. Inv /\ [Next]_vars => [KeepsWholeFiles]_vars
  <2> SUFFICES ASSUME Inv, Next PROVE KeepsWholeFiles
    OBVIOUS
  <2> USE DEF KeepsWholeFiles
  <2>1. CASE WriteGraph \/ WriteTransitNodes
    BY <2>1 DEF Inv, TablesBesideNetwork, Cut, WriteGraph, WriteTransitNodes
  <2>2. CASE ~(WriteGraph \/ WriteTransitNodes)
    BY <2>2 DEF Next, Run, Launch, LoadGraph, GenerateGraph, LoadTransitNodes,
                GenerateTransitNodes, Serve, Kill, RemoveCutFile, vars, files
  <2> QED BY <2>1, <2>2
<1> QED BY <1>1, InitInv, StepInv, PTL DEF Spec, WholeFilesStay

-----------------------------------------------------------------------------
\* Each network after the first one takes a fault that cut the file of the one
\* before.
Counted ==
  /\ faults \in 0 .. MaxFaults /\ made <= faults + 1
  /\ graphFile.state # "whole" /\ at # "writeGraph" => made <= faults

Numbered ==
  graphFile.of <= made /\ tnFile.of <= made /\ graph.of <= made /\ tnData <= made

Places ==
  /\ at \in {"down", "graph", "writeGraph", "tns", "writeTns", "serving"}
  /\ ended \in {"never", "returned", "aborted", "killed"}

TypeInv == Inv /\ Counted /\ Numbered /\ Places

LEMMA TypeInvInit == Init => TypeInv
BY InitInv, StartupAssumption DEF Init, TypeInv, Counted, Numbered, Places, NoFile, NoGraph

LEMMA TypeInvStep == TypeInv /\ [Next]_vars => TypeInv'
<1> SUFFICES ASSUME TypeInv, [Next]_vars PROVE (Counted /\ Numbered /\ Places)'
  BY StepInv DEF TypeInv
<1> USE StartupAssumption DEF TypeInv, Inv, Shapes, Counted, Numbered, Places, files, memory
<1>1. CASE Launch
  BY <1>1 DEF Launch, NoGraph
<1>2. CASE LoadGraph
  BY <1>2 DEF LoadGraph, End
<1>3. CASE GenerateGraph
  BY <1>3 DEF GenerateGraph, Cut
<1>4. CASE WriteGraph
  BY <1>4 DEF WriteGraph, Whole
<1>5. CASE LoadTransitNodes
  BY <1>5 DEF LoadTransitNodes, End
<1>6. CASE GenerateTransitNodes
  BY <1>6 DEF GenerateTransitNodes, End, Cut
<1>7. CASE WriteTransitNodes
  BY <1>7 DEF WriteTransitNodes, End, Whole
<1>8. CASE Serve \/ UNCHANGED vars
  BY <1>8 DEF Serve, vars
<1>9. CASE Kill
  BY <1>9 DEF Kill, End
<1>10. CASE RemoveCutFile
  BY <1>10 DEF RemoveCutFile, NoFile
<1> QED BY <1>1, <1>2, <1>3, <1>4, <1>5, <1>6, <1>7, <1>8, <1>9, <1>10 DEF Next, Run

\* The type invariant; in particular no more networks are generated than there
\* were faults, and one more.
THEOREM TypeCorrect == Spec => []TypeOK
<1>1. TypeInv => TypeOK
  BY StartupAssumption
     DEF TypeInv, Inv, Shapes, Counted, Numbered, Places, TypeOK, Networks, FileStates
<1> QED BY <1>1, TypeInvInit, TypeInvStep, PTL DEF Spec
=============================================================================
