------------------------- MODULE CoastlineStitcher -------------------------
(***************************************************************************)
(* CoastlineStitcher::stitchCoastlines (io/PBFProcessing.cpp): the ways of *)
(* the map file are pieces of coast; the stitcher joins them, end to       *)
(* start, to closed coastlines.                                            *)
(*                                                                         *)
(* A piece is a sequence of nodes [lat, lon, id].  The table "map" finds a *)
(* piece by the place of its first node: Node::operator== compares only    *)
(* longitudes, but unordered_map compares the hash codes first, which know *)
(* the latitude.                                                           *)
(***************************************************************************)
EXTENDS Integers, Sequences, FiniteSets, SequencesExt

CONSTANT Worlds    \* the pieces to start with: sequences of paths

VARIABLES
  coastlines,    \* the pieces
  isProcessed,
  i,             \* the piece whose turn it is
  coastline,     \* the pieces of the coastline that grows, << >> between two
  path,          \* coastline.path: its nodes
  result         \* the finished coastlines

vars == <<coastlines, isProcessed, i, coastline, path, result>>

Pieces == DOMAIN coastlines
Place(node) == <<node.lat, node.lon>>

End == Last(path)

\* insert() keeps the first of several pieces that start at the same place or
\* with the same node.
StartsAt(place) == {k \in Pieces : Place(coastlines[k][1]) = place}
StartsWith(id) == {k \in Pieces : coastlines[k][1].id = id}

Init ==
  /\ coastlines \in Worlds
  /\ isProcessed = [k \in Pieces |-> FALSE]
  /\ i = 1 /\ coastline = << >> /\ path = << >> /\ result = << >>

Skip ==
  /\ i \in Pieces /\ coastline = << >> /\ isProcessed[i]
  /\ i' = i + 1
  /\ UNCHANGED <<coastlines, isProcessed, coastline, path, result>>

Begin ==
  /\ i \in Pieces /\ coastline = << >> /\ ~isProcessed[i]
  /\ coastline' = <<i>> /\ path' = coastlines[i]
  /\ UNCHANGED <<coastlines, isProcessed, i, result>>

\* The next piece is looked for by place and, if that one was used already, by
\* id.  0 stands for the two ways to leave the loop then: the id leads back to
\* the first piece, or to a piece at another place.
\* A faulty variant: no second look by id.
NextStart_OnlyPlace == Min(StartsAt(Place(End)))

NextStart ==
  LET byPlace == Min(StartsAt(Place(End)))
      byId == Min(StartsWith(End.id))
      new == coastlines[byId][1]
  IN IF ~isProcessed[byPlace] THEN byPlace
     ELSE IF byId = i \/ (new.lat # End.lat /\ new.lon # End.lon) THEN 0
     ELSE byId

\* Back at the first piece: the coastline is complete.
\* A faulty variant: no way out after the second look.
Close_NoBreak ==
  /\ coastline # << >> /\ NextStart = i
  /\ isProcessed' = [isProcessed EXCEPT ![i] = TRUE]
  /\ result' = Append(result, path)
  /\ coastline' = << >> /\ path' = << >> /\ i' = i + 1
  /\ UNCHANGED coastlines

Close ==
  /\ coastline # << >> /\ NextStart \in {0, i}
  /\ isProcessed' = IF NextStart = i THEN [isProcessed EXCEPT ![i] = TRUE] ELSE isProcessed
  /\ result' = Append(result, path)
  /\ coastline' = << >> /\ path' = << >> /\ i' = i + 1
  /\ UNCHANGED coastlines

\* The next piece is attached, all but its first node.
\* A faulty variant: an attached piece is not marked as used.
Attach_Unmarked ==
  /\ coastline # << >> /\ NextStart \notin {0, i}
  /\ coastline' = Append(coastline, NextStart)
  /\ path' = path \o Tail(coastlines[NextStart])
  /\ UNCHANGED <<coastlines, isProcessed, i, result>>

Attach ==
  /\ coastline # << >> /\ NextStart \notin {0, i}
  /\ isProcessed' = [isProcessed EXCEPT ![NextStart] = TRUE]
  /\ coastline' = Append(coastline, NextStart)
  /\ path' = path \o Tail(coastlines[NextStart])
  /\ UNCHANGED <<coastlines, i, result>>

Stitch == Skip \/ Begin \/ Close \/ Attach

Stitched == i = Len(coastlines) + 1

Spec == Init /\ [][Stitch]_vars /\ WF_vars(Stitch)
-----------------------------------------------------------------------------
\* "only process every coastline once" (PBFProcessing.cpp:57): a piece that
\* becomes part of a coastline was part of none before, nor of this one; a piece
\* attached again and again would keep the loop going for ever.
EachPieceOnce ==
  [][\A k \in Pieces : coastline' = Append(coastline, k) =>
       ~isProcessed[k] /\ k \notin Range(coastline)]_vars

\* The coastlines that come out are closed and hold every stretch of coast that
\* went in exactly once, in whatever order the file has the pieces.
Stretches(paths) ==
  UNION {{<<k, paths[k][n], paths[k][n + 1]>> : n \in 1 .. Len(paths[k]) - 1} : k \in DOMAIN paths}
CoastsClosed ==
  Stitched =>
    /\ \A k \in DOMAIN result : result[k][1] = Last(result[k])
    /\ {Tail(s) : s \in Stretches(result)} = {Tail(s) : s \in Stretches(coastlines)}
    /\ Cardinality(Stretches(result)) = Cardinality(Stretches(coastlines))

\* Stitching comes to an end.
StitchEnds == <>Stitched
=============================================================================
