----------------------------- MODULE MCRoadGate -----------------------------
(* RoadGate for TLC: two maps, and what the documentation promises.         *)
EXTENDS RoadGate

Strip(a, b, y) == {<<x, y>> : x \in a..b}
Area(a, b, ys) == (a..b) \X ys

(* A straight road of three sections, two lanes wide; a lane of no section  *)
(* and the second lane of the last section come first in the file.          *)
RoadLanes == << [section |-> NoSection, centre |-> {<<2, 1>>}],
                [section |-> 3, centre |-> Strip(6, 8, 1)],
                [section |-> 1, centre |-> Strip(0, 2, 0)],
                [section |-> 2, centre |-> Strip(3, 5, 0)],
                [section |-> 3, centre |-> Strip(6, 8, 0)] >>
RoadPolygon == << Area(0, 2, {0, 1}), Area(3, 5, {0, 1}), Area(6, 8, {0, 1}) >>
RoadAdjacent == << {2}, {1, 3}, {2} >>
RoadOffsets == {<<2, 0>>, <<-2, 1>>, <<1, 3>>}

(* The map is one OnRoadKept is promised for. *)
ASSUME RoadIsJoined == MapJoined

-----------------------------------------------------------------------------
(***************************************************************************)
(* hdmap_filter.h:26 and SuTengDriver.cpp:1016: with an invalid pose, no   *)
(* map, or no section found, every cluster is kept.                        *)
(***************************************************************************)
DegradedKeepsAll == pc = "wait" /\ ~gate.labelled => gate.kept = frame.clusters
=============================================================================
