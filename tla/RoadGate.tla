------------------------------ MODULE RoadGate ------------------------------
(***************************************************************************)
(* The map gate between clustering and tracking: the localization callback *)
(* writes LocalizationManager while the worker thread (ProcessPcapCloud)   *)
(* takes frames from the stuffed queue, reads a pose, builds the drivable  *)
(* polygons around it, labels the clusters and hands those it keeps to the *)
(* tracker.                                                                *)
(*                                                                         *)
(* Places are cells <<x, y>> of the map.  The vehicle drives along y = 0   *)
(* with a constant heading, so a cluster at offset d is at place Plus(p,d) *)
(* when the vehicle is at p.  Distance is the larger coordinate.  Clusters *)
(* are labelled one by one, so every frame shows one at each offset.       *)
(* last_valid_ is left out: nothing reads it.                              *)
(***************************************************************************)
EXTENDS Integers, Sequences, FiniteSets, FiniteSetsExt

CONSTANTS
  Lanes,       (* pstrLane: sequence of [section, centre], centre a set of places *)
  Polygon,     (* section -> the places inside its boundary                  *)
  Adjacent,    (* section -> its income and outgo sections                   *)
  Near,        (* 18 m: a lane this close may give the current section       *)
  Expand,      (* expandDistance: margin around the polygons                 *)
  Timeout,     (* timeout_ms: older poses are invalid                        *)
  Offsets,     (* where clusters can be seen from the vehicle                *)
  DebugX,      (* debug_x: the pose of the debug configuration               *)
  MaxX,        (* bound of the model: the vehicle drives from 0 to MaxX      *)
  MaxQueue     (* bound of the model: frames waiting (the code has none)     *)

ASSUME GateAssumption ==
  /\ {Near, Expand, Timeout, DebugX, MaxX, MaxQueue} \subseteq Nat
  /\ DOMAIN Lanes \subseteq Nat
  /\ Offsets \subseteq Int \X Int
  /\ \A s \in DOMAIN Polygon : Polygon[s] \subseteq Int \X Int
  /\ \A i \in DOMAIN Lanes : Lanes[i].section \in {0} \cup DOMAIN Polygon
  /\ \A s \in DOMAIN Polygon : Adjacent[s] \subseteq DOMAIN Polygon

Sections == DOMAIN Polygon
NoSection == 0

VARIABLES
  config,      (* hdmap: m_hdmapEnabled; loaded: the map; debug: debug_enable_ *)
  configured,  (* LocalizationManager::configure ran, the driver is started  *)
  truth,       (* environment: where the vehicle is                          *)
  loc,         (* LocalizationManager: hasData, latest and its age           *)
  queue,       (* stuffed_cloud_queue: where each frame was captured         *)
  pc,          (* worker: wait -> detected -> located -> wait                *)
  frame,       (* worker: at, where captured; clusters, seen at these offsets *)
  pose,        (* loc_pose, kept across frames                               *)
  havePose,
  polygons,    (* hdmap_polygons: the sections drawn and where they are for  *)
  gate         (* outcome: labelled, kept; read: truth at getPose (history)  *)

vars == <<config, configured, truth, loc, queue, pc, frame, pose, havePose,
          polygons, gate>>
worker == <<pc, frame, pose, havePose, polygons, gate>>

Place(x) == <<x, 0>>
Plus(p, d) == <<p[1] + d[1], p[2] + d[2]>>
Span(i, j) == IF i > j THEN i - j ELSE j - i
Dist(p, q) == Max({Span(p[1], q[1]), Span(p[2], q[2])})

Positions == 0..MaxX \cup {DebugX}
Poses == [x : Positions, valid : BOOLEAN]
NoPose == [x |-> 0, valid |-> FALSE]

(* Ticks since last_wall_ms_; Timeout + 1 stands for all that is older. *)
Ages == 0 .. (Timeout + 1)

TypeOK ==
  /\ config \in [hdmap : BOOLEAN, loaded : BOOLEAN, debug : BOOLEAN]
  /\ configured \in BOOLEAN
  /\ truth \in 0..MaxX
  /\ loc \in [hasData : BOOLEAN, age : Ages, latest : Poses]
  /\ queue \in Seq(0..MaxX) /\ Len(queue) <= MaxQueue
  /\ pc \in {"wait", "detected", "located"}
  /\ frame \in [at : 0..MaxX, clusters : SUBSET Offsets]
  /\ pose \in Poses
  /\ havePose \in BOOLEAN
  /\ polygons \in [sections : SUBSET Sections, around : Positions]
  /\ gate \in [labelled : BOOLEAN, kept : SUBSET Offsets, read : 0..MaxX]

-----------------------------------------------------------------------------
(* HDMapManager *)

(* Lanes of a section that are near enough. *)
NearLanes(p) ==
  {i \in DOMAIN Lanes : /\ Lanes[i].section # NoSection
                        /\ \E c \in Lanes[i].centre : Dist(p, c) <= Near}

(* The section of the first of them, in the order of the map file.          *)
CurrentSection(p) ==
  IF config.loaded /\ NearLanes(p) # {} THEN Lanes[Min(NearLanes(p))].section ELSE NoSection

(* mutant: without the sections around *)
OwnSection(p) == {CurrentSection(p)} \ {NoSection}

(* Sections of the map with a boundary: the current one and those it leads  *)
(* to and from.                                                             *)
DrivableSections(p) ==
  LET cur == CurrentSection(p)
  IN  IF cur = NoSection THEN {}
      ELSE {s \in Sections : s \in {cur} \cup Adjacent[cur] /\ Polygon[s] # {}}

(* mutant: the margin on both sides of the boundary *)
InRoadTwice(p, sections) ==
  \E s \in sections : \E q \in Polygon[s] : Dist(p, q) <= 2 * Expand

(* pointInPolygon, or distanceToPolygon within the margin. *)
InRoad(p, sections) == \E s \in sections : \E q \in Polygon[s] : Dist(p, q) <= Expand

(* What OnRoadKept asks of the map: the road near a place the sensor sees   *)
(* from a lane is, up to the margin, that lane's section or one it joins.   *)
MapJoined ==
  \A x \in Positions, d \in Offsets : \A i \in NearLanes(Place(x)) :
    LET p == Plus(Place(x), d)
        cur == Lanes[i].section
    IN  InRoad(p, Sections) => InRoad(p, {cur} \cup Adjacent[cur])

-----------------------------------------------------------------------------
Init ==
  /\ config \in {c \in [hdmap : BOOLEAN, loaded : BOOLEAN, debug : BOOLEAN] :
                    c.loaded \/ c.debug => c.hdmap}
  /\ configured = FALSE
  /\ truth \in 0..MaxX
  /\ loc = [hasData |-> FALSE, age |-> Timeout + 1, latest |-> NoPose]
  /\ queue = << >>
  /\ pc = "wait"
  /\ frame = [at |-> 0, clusters |-> {}]
  /\ pose = NoPose
  /\ havePose = FALSE
  /\ polygons = [sections |-> {}, around |-> 0]
  /\ gate = [labelled |-> FALSE, kept |-> {}, read |-> 0]

(* main: configure, which follows the registration of the callback; then    *)
(* the driver is started.                                                   *)
Configure ==
  /\ ~configured
  /\ configured' = TRUE
  /\ UNCHANGED <<config, truth, loc, queue, worker>>

Tick ==
  /\ truth' \in {truth, truth + 1} \cap (0..MaxX)
  /\ loc' = [loc EXCEPT !.age = Min({@ + 1, Timeout + 1})]
  /\ UNCHANGED <<config, configured, queue, worker>>

(* The lidar driver puts a frame captured here.                             *)
Capture ==
  /\ configured
  /\ Len(queue) < MaxQueue
  /\ queue' = Append(queue, truth)
  /\ UNCHANGED <<config, configured, truth, loc, worker>>

(* onDataReceived: enable_ is false before configure and without the map    *)
(* filter; a message whose module timestamp is zero is stored as invalid.   *)
OnDataReceived ==
  /\ configured /\ config.hdmap
  /\ \E stamped \in BOOLEAN :
       loc' = [hasData |-> TRUE, age |-> 0, latest |-> [x |-> truth, valid |-> stamped]]
  /\ UNCHANGED <<config, configured, truth, queue, worker>>

-----------------------------------------------------------------------------
(* popWait and ProcessWithObstacleDetection *)
TakeFrame ==
  /\ pc = "wait"
  /\ queue # << >>
  /\ frame' = [at |-> Head(queue), clusters |-> Offsets]
  /\ queue' = Tail(queue)
  /\ pc' = "detected"
  /\ gate' = [gate EXCEPT !.labelled = FALSE, !.kept = {}]
  /\ UNCHANGED <<config, configured, truth, loc, pose, havePose, polygons>>

(* mutant: the age is not looked at *)
FreshForever == loc.hasData /\ loc.latest.valid

(* getPose: out, and whether any message ever came. *)
Fresh == loc.hasData /\ loc.latest.valid /\ loc.age <= Timeout

GetPose ==
  IF config.debug
  THEN /\ pose' = [x |-> DebugX, valid |-> TRUE]
       /\ havePose' = TRUE
  ELSE /\ pose' = [x |-> loc.latest.x, valid |-> Fresh]
       /\ havePose' = loc.hasData

PolygonsAround(x) == [sections |-> DrivableSections(Place(x)), around |-> x]

(* mutant: polygons are built once *)
BuildOnce ==
  IF havePose' /\ pose'.valid /\ polygons.sections = {}
  THEN polygons' = PolygonsAround(pose'.x)
  ELSE UNCHANGED polygons

(* Polygons are built around a valid pose; otherwise those of an earlier    *)
(* frame stay.                                                              *)
Build ==
  IF havePose' /\ pose'.valid
  THEN polygons' = PolygonsAround(pose'.x)
  ELSE UNCHANGED polygons

(* The worker reads the pose and builds the polygons for the overlays. *)
Locate ==
  /\ pc = "detected"
  /\ pc' = "located"
  /\ IF config.hdmap
     THEN /\ GetPose
          /\ gate' = [gate EXCEPT !.read = truth]
          /\ Build
     ELSE UNCHANGED <<pose, havePose, polygons, gate>>
  /\ UNCHANGED <<config, configured, truth, loc, queue, frame>>

(* filterClusters returns early unless all of these hold. *)
CanLabel ==
  config.hdmap /\ config.loaded /\ pose.valid /\ DrivableSections(Place(pose.x)) # {}

(* in_road keeps its default, false, when filterClusters returns early. *)
LabelledInRoad(d) == CanLabel /\ InRoad(Plus(Place(pose.x), d), DrivableSections(Place(pose.x)))

(* ConvertClustersToTrackedObstacles passes on what is in_road, or all when *)
(* the map filter is off.                                                   *)
Kept == {d \in frame.clusters : LabelledInRoad(d) \/ ~config.hdmap}

(* filterClusters, the conversion and the tracker. *)
Filter ==
  /\ pc = "located"
  /\ pc' = "wait"
  /\ gate' = [gate EXCEPT !.labelled = CanLabel, !.kept = Kept]
  /\ UNCHANGED <<config, configured, truth, loc, queue, frame, pose, havePose, polygons>>

Next ==
  Configure \/ Tick \/ Capture \/ OnDataReceived \/ TakeFrame \/ Locate \/ Filter

Spec == Init /\ [][Next]_vars

-----------------------------------------------------------------------------
Done == pc = "wait" /\ gate.labelled

(* How far the pose is from where the frame was captured. *)
Skew == Span(pose.x, frame.at)

Seen(d) == Plus(Place(frame.at), d)

(***************************************************************************)
(* filterClusters with expandDistance: as long as the pose is off by no    *)
(* more than the margin, a cluster that really lies on the drivable area   *)
(* is never filtered out, whatever section the lookup chose.               *)
(***************************************************************************)
OnRoadKept ==
  Done /\ Skew <= Expand =>
    \A d \in frame.clusters : Seen(d) \in UNION {Polygon[s] : s \in Sections} => d \in gate.kept

(***************************************************************************)
(* The other side of the filter: what is farther from every section than   *)
(* the margin and the error of the pose together never reaches the tracker.*)
(***************************************************************************)
OffRoadDropped ==
  Done => \A d \in gate.kept :
            \E s \in Sections : \E q \in Polygon[s] : Dist(Seen(d), q) <= Expand + Skew

(***************************************************************************)
(* A frame is labelled only with a pose that was current at most Timeout   *)
(* before it was read (LocalizationManager::getPose): the vehicle can have *)
(* moved no farther than that in between, however long the callback was    *)
(* silent, and whatever invalid messages came meanwhile.                   *)
(***************************************************************************)
PoseNotOld ==
  Done /\ ~config.debug =>
    gate.read - Timeout <= pose.x /\ pose.x <= gate.read

(***************************************************************************)
(* DrawAllOverlay shows the polygons together with the pose they were      *)
(* built for, although hdmap_polygons outlives the frame it was built in.  *)
(***************************************************************************)
OverlayMatchesPose ==
  pc # "detected" /\ havePose /\ pose.valid /\ polygons.sections # {} =>
    /\ polygons.around = pose.x
    /\ polygons.sections = DrivableSections(Place(pose.x))
=============================================================================
