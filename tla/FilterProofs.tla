---------------------------- MODULE FilterProofs ----------------------------
(***************************************************************************)
(* The two filters a frame passes on its way to the tracker.               *)
(*                                                                         *)
(* What the map gate promises about the pose, for every map, timeout and   *)
(* length of drive: a frame is labelled with a pose no older than the      *)
(* timeout, the overlay is drawn with the polygons of its pose, what       *)
(* reaches the tracker is no farther from the road than the margin and the *)
(* error of the pose, and what is on a joined road is kept.                *)
(*                                                                         *)
(* What the two flood fills of GroundFilter compute on every grid, for     *)
(* every cloud and every configuration: the ground is the least set that   *)
(* holds the seeds and is closed under the gates, and the clusters are the *)
(* connected components of the candidates that are large enough.  Between  *)
(* them, on a road that is mostly level the candidates are what stands on  *)
(* it.                                                                     *)
(***************************************************************************)
EXTENDS RoadGate, GroundFilter, FiniteSetTheorems, WellFoundedInduction, TLAPS

-----------------------------------------------------------------------------
(* The map gate: the inductive invariant, in named parts.                  *)

Shape ==
  /\ config \in [hdmap : BOOLEAN, loaded : BOOLEAN, debug : BOOLEAN]
  /\ truth \in 0..MaxX
  /\ loc \in [hasData : BOOLEAN, age : 0 .. (Timeout + 1),
              latest : [x : Positions, valid : BOOLEAN]]
  /\ queue \in Seq(Nat)
  /\ pc \in {"wait", "detected", "located"}
  /\ frame \in [at : Nat, clusters : SUBSET Offsets]
  /\ pose \in [x : Positions, valid : BOOLEAN]
  /\ gate \in [labelled : BOOLEAN, kept : SUBSET Offsets, read : Nat]

\* The stored position is where the vehicle was when it came, which is at most
\* one cell back for each tick of its age, as long as that is counted.
Stored ==
  loc.hasData /\ loc.age <= Timeout =>
    truth - loc.age <= loc.latest.x /\ loc.latest.x <= truth

\* A pose that is valid was read from a position that fresh.
Read ==
  pose.valid /\ ~config.debug =>
    gate.read - Timeout <= pose.x /\ pose.x <= gate.read

\* The polygons follow the pose.
Drawn ==
  havePose /\ pose.valid =>
    /\ polygons.around = pose.x
    /\ polygons.sections = DrivableSections(Place(pose.x))

\* What was kept was labelled with the pose that is still there.
Gated ==
  gate.labelled => pc = "wait" /\ CanLabel /\ gate.kept = Kept

GateInv == Shape /\ Stored /\ Read /\ Drawn /\ Gated

-----------------------------------------------------------------------------
(* The filter's answer is a function of the configuration, the pose and    *)
(* the frame.                                                              *)
LEMMA SectionsKept ==
  ASSUME config' = config
  PROVE  \A p : DrivableSections(p)' = DrivableSections(p)
PROOF
  <1>1. \A p : NearLanes(p)' = NearLanes(p)
    BY DEF NearLanes
  <1>2. \A p : CurrentSection(p)' = CurrentSection(p)
    BY <1>1 DEF CurrentSection
  <1> QED
    BY <1>2 DEF DrivableSections

LEMMA AnswerKept ==
  ASSUME config' = config, pose' = pose, frame' = frame
  PROVE  CanLabel' = CanLabel /\ Kept' = Kept
PROOF
  <1>1. DrivableSections(Place(pose.x))' = DrivableSections(Place(pose.x))
    BY SectionsKept DEF DrivableSections, CurrentSection, NearLanes, Place
  <1>2. CanLabel' = CanLabel
    BY <1>1 DEF CanLabel
  <1>3. \A d : LabelledInRoad(d)' = LabelledInRoad(d)
    BY <1>1, <1>2 DEF LabelledInRoad, InRoad, Plus, Place
  <1> QED
    BY <1>2, <1>3 DEF Kept

LEMMA MinOfTwo ==
  ASSUME NEW a \in Int, NEW b \in Int
  PROVE  Min({a, b}) \in {a, b} /\ Min({a, b}) <= a /\ Min({a, b}) <= b
PROOF
  <1>1. \E x \in {a, b} : \A y \in {a, b} : x <= y
    <2>1. CASE a <= b
      BY <2>1
    <2>2. CASE b <= a
      BY <2>2
    <2> QED
      BY <2>1, <2>2
  <1> QED
    BY <1>1 DEF Min

LEMMA MaxOfTwo ==
  ASSUME NEW a \in Int, NEW b \in Int
  PROVE  Max({a, b}) \in {a, b} /\ a <= Max({a, b}) /\ b <= Max({a, b})
PROOF
  <1>1. \E x \in {a, b} : \A y \in {a, b} : y <= x
    <2>1. CASE a <= b
      BY <2>1
    <2>2. CASE b <= a
      BY <2>2
    <2> QED
      BY <2>1, <2>2
  <1> QED
    BY <1>1 DEF Max

LEMMA MinOfNaturals ==
  ASSUME NEW T \in SUBSET Nat, T # {}
  PROVE  Min(T) \in T
PROOF
  <1>1. \A x, y \in Nat : y < x => <<y, x>> \in OpToRel(<, Nat)
    BY DEF OpToRel
  <1>2. PICK R : IsWellFoundedOn(R, Nat) /\ \A x, y \in Nat : y < x => <<y, x>> \in R
    BY <1>1, NatLessThanWellFounded, Zenon
  <1>3. \E x \in T : \A y \in T : ~(<<y, x>> \in R)
    BY <1>2, WFMin
  <1>4. \E x \in T : \A y \in T : x <= y
    <2>1. PICK x \in T : \A y \in T : ~(<<y, x>> \in R)
      BY <1>3
    <2>2. \A y \in T : x \in Nat /\ y \in Nat /\ ~(y < x)
      BY <1>2, <2>1
    <2> QED
      BY <2>2
  <1> QED
    BY <1>4 DEF Min

-----------------------------------------------------------------------------
LEMMA PositionsNatural ==
  Positions \subseteq Nat /\ 0..MaxX \subseteq Positions \cap Nat /\ DebugX \in Positions
PROOF
  BY GateAssumption DEF Positions

LEMMA InitGate == Init => GateInv
PROOF
  <1> SUFFICES ASSUME Init PROVE GateInv
    OBVIOUS
  <1> USE GateAssumption
  <1>1. /\ truth \in 0..MaxX /\ queue \in Seq(Nat) /\ pc = "wait"
        /\ config \in [hdmap : BOOLEAN, loaded : BOOLEAN, debug : BOOLEAN]
    BY DEF Init
  <1>2. loc \in [hasData : BOOLEAN, age : 0 .. (Timeout + 1),
                 latest : [x : Positions, valid : BOOLEAN]]
    <2>1. NoPose \in [x : Positions, valid : BOOLEAN]
      BY PositionsNatural DEF NoPose, Positions
    <2>2. Timeout + 1 \in 0 .. (Timeout + 1)
      OBVIOUS
    <2> QED
      BY <2>1, <2>2 DEF Init
  <1>3. frame \in [at : Nat, clusters : SUBSET Offsets]
    BY DEF Init
  <1>4. pose \in [x : Positions, valid : BOOLEAN] /\ pose.valid = FALSE
    BY DEF Init, NoPose, Positions
  <1>5. gate \in [labelled : BOOLEAN, kept : SUBSET Offsets, read : Nat]
    BY DEF Init
  <1>6. loc.hasData = FALSE /\ gate.labelled = FALSE
    BY DEF Init
  <1> QED
    BY <1>1, <1>2, <1>3, <1>4, <1>5, <1>6 DEF GateInv, Shape, Stored, Read, Drawn, Gated

(* Steps that touch nothing of the worker leave what it knows in place.     *)
LEMMA WorkerKept ==
  ASSUME GateInv, UNCHANGED <<config, worker>>
  PROVE  Read' /\ Drawn' /\ Gated'
PROOF
  <1>1. UNCHANGED <<config, pc, frame, pose, havePose, polygons, gate>>
    BY DEF worker
  <1>2. CanLabel' = CanLabel /\ Kept' = Kept
    BY <1>1, AnswerKept
  <1>3. DrivableSections(Place(pose.x))' = DrivableSections(Place(pose.x))
    BY <1>1 DEF DrivableSections, CurrentSection, NearLanes, Place
  <1>4. Read'
    BY <1>1 DEF GateInv, Read
  <1>5. Drawn'
    BY <1>1, <1>3 DEF GateInv, Drawn
  <1>6. Gated'
    BY <1>1, <1>2 DEF GateInv, Gated
  <1> QED
    BY <1>4, <1>5, <1>6

LEMMA TickKeeps == GateInv /\ Tick => GateInv'
PROOF
  <1> SUFFICES ASSUME GateInv, Tick PROVE GateInv'
    OBVIOUS
  <1> USE GateAssumption
  <1>1. truth' \in 0..MaxX /\ truth' \in Nat /\ (truth' = truth \/ truth' = truth + 1) /\ truth \in Nat
    BY DEF Tick, GateInv, Shape
  <1>2. UNCHANGED <<config, queue, worker>>
    BY DEF Tick
  <1> DEFINE a == Min({loc.age + 1, Timeout + 1})
  <1>3. loc' = [loc EXCEPT !.age = a]
    BY DEF Tick
  <1>4. loc.age \in 0 .. (Timeout + 1) /\ loc.age + 1 \in Int /\ Timeout + 1 \in Int
    BY DEF GateInv, Shape
  <1>5. a \in {loc.age + 1, Timeout + 1} /\ a <= loc.age + 1 /\ a <= Timeout + 1
    BY <1>4, MinOfTwo
  <1>6. a \in 0 .. (Timeout + 1) /\ (a <= Timeout => a = loc.age + 1)
    BY <1>4, <1>5
  <1> HIDE DEF a
  <1>7. loc' \in [hasData : BOOLEAN, age : 0 .. (Timeout + 1),
                  latest : [x : Positions, valid : BOOLEAN]]
    BY <1>3, <1>6 DEF GateInv, Shape
  <1>8. loc'.hasData = loc.hasData /\ loc'.age = a /\ loc'.latest = loc.latest
    BY <1>3 DEF GateInv, Shape
  <1>9. Stored'
    <2> SUFFICES ASSUME loc.hasData, a <= Timeout
                 PROVE  truth' - a <= loc.latest.x /\ loc.latest.x <= truth'
      BY <1>8 DEF Stored
    <2>1. truth - loc.age <= loc.latest.x /\ loc.latest.x <= truth
      BY <1>4, <1>6 DEF GateInv, Stored
    <2>2. loc.latest.x \in Nat
      BY PositionsNatural DEF GateInv, Shape
    <2> QED
      BY <1>1, <1>4, <1>6, <2>1, <2>2
  <1>10. Shape'
    BY <1>1, <1>2, <1>7 DEF GateInv, Shape, worker
  <1> QED
    BY <1>2, <1>9, <1>10, WorkerKept DEF GateInv

LEMMA ReceiveKeeps == GateInv /\ OnDataReceived => GateInv'
PROOF
  <1> SUFFICES ASSUME GateInv, OnDataReceived PROVE GateInv'
    OBVIOUS
  <1> USE GateAssumption
  <1>1. UNCHANGED <<config, truth, queue, worker>> /\ truth \in 0..MaxX /\ truth \in Positions
    BY PositionsNatural DEF OnDataReceived, GateInv, Shape
  <1>2. PICK stamped \in BOOLEAN :
          loc' = [hasData |-> TRUE, age |-> 0, latest |-> [x |-> truth, valid |-> stamped]]
    BY DEF OnDataReceived
  <1>3. loc' \in [hasData : BOOLEAN, age : 0 .. (Timeout + 1),
                  latest : [x : Positions, valid : BOOLEAN]]
    <2>1. [x |-> truth, valid |-> stamped] \in [x : Positions, valid : BOOLEAN]
      BY <1>1
    <2>2. 0 \in 0 .. (Timeout + 1)
      OBVIOUS
    <2> QED
      BY <1>2, <2>1, <2>2
  <1>4. loc'.age = 0 /\ loc'.latest.x = truth
    BY <1>2
  <1>5. Stored'
    BY <1>1, <1>4 DEF Stored
  <1>6. Shape'
    BY <1>1, <1>3 DEF GateInv, Shape, worker
  <1> QED
    BY <1>1, <1>5, <1>6, WorkerKept DEF GateInv

LEMMA CaptureKeeps == GateInv /\ Capture => GateInv'
PROOF
  <1> SUFFICES ASSUME GateInv, Capture PROVE GateInv'
    OBVIOUS
  <1>1. UNCHANGED <<config, truth, loc, worker>> /\ queue' = Append(queue, truth)
    BY DEF Capture
  <1>2. queue' \in Seq(Nat)
    BY <1>1 DEF GateInv, Shape
  <1>3. Shape' /\ Stored'
    BY <1>1, <1>2 DEF GateInv, Shape, Stored, worker
  <1> QED
    BY <1>1, <1>3, WorkerKept DEF GateInv

LEMMA IdleKeeps == GateInv /\ (Configure \/ UNCHANGED vars) => GateInv'
PROOF
  <1> SUFFICES ASSUME GateInv, Configure \/ UNCHANGED vars PROVE GateInv'
    OBVIOUS
  <1>1. UNCHANGED <<config, truth, loc, queue, worker>>
    BY DEF Configure, vars, worker
  <1>2. Shape' /\ Stored'
    BY <1>1 DEF GateInv, Shape, Stored, worker
  <1> QED
    BY <1>1, <1>2, WorkerKept DEF GateInv

LEMMA TakeFrameKeeps == GateInv /\ TakeFrame => GateInv'
PROOF
  <1> SUFFICES ASSUME GateInv, TakeFrame PROVE GateInv'
    OBVIOUS
  <1>1. UNCHANGED <<config, truth, loc, pose, havePose, polygons>>
    BY DEF TakeFrame
  <1>2. queue \in Seq(Nat) /\ queue # << >>
    BY DEF TakeFrame, GateInv, Shape
  <1>3. queue' \in Seq(Nat) /\ Head(queue) \in Nat
    BY <1>2 DEF TakeFrame
  <1>4. frame' \in [at : Nat, clusters : SUBSET Offsets]
    BY <1>3 DEF TakeFrame
  <1>5. /\ gate' \in [labelled : BOOLEAN, kept : SUBSET Offsets, read : Nat]
        /\ gate'.labelled = FALSE /\ gate'.read = gate.read
    BY DEF TakeFrame, GateInv, Shape
  <1>6. Shape'
    BY <1>1, <1>3, <1>4, <1>5 DEF GateInv, Shape, TakeFrame
  <1>7. DrivableSections(Place(pose.x))' = DrivableSections(Place(pose.x))
    BY <1>1 DEF DrivableSections, CurrentSection, NearLanes, Place
  <1>8. Stored' /\ Read' /\ Drawn' /\ Gated'
    BY <1>1, <1>5, <1>7 DEF GateInv, Stored, Read, Drawn, Gated
  <1> QED
    BY <1>6, <1>8 DEF GateInv

(* The pose is read after the position was stored, and the polygons are    *)
(* built from it in the same step.                                         *)
LEMMA LocateKeeps == GateInv /\ Locate => GateInv'
PROOF
  <1> SUFFICES ASSUME GateInv, Locate PROVE GateInv'
    OBVIOUS
  <1> USE GateAssumption
  <1>1. UNCHANGED <<config, truth, loc, queue, frame>> /\ pc = "detected" /\ pc' = "located"
    BY DEF Locate
  <1>2. ~gate.labelled
    BY <1>1 DEF GateInv, Gated
  <1>3. Stored'
    BY <1>1 DEF GateInv, Stored
  <1>4. \A p : DrivableSections(p)' = DrivableSections(p)
    BY <1>1, SectionsKept
  <1>5. CASE config.hdmap
    <2>1. GetPose /\ Build /\ gate' = [gate EXCEPT !.read = truth]
      BY <1>5 DEF Locate
    <2>2. /\ gate' \in [labelled : BOOLEAN, kept : SUBSET Offsets, read : Nat]
          /\ gate'.labelled = gate.labelled /\ gate'.read = truth
      BY <2>1, PositionsNatural DEF GateInv, Shape
    <2>3. pose' \in [x : Positions, valid : BOOLEAN]
      <3>1. CASE config.debug
        <4>1. pose' = [x |-> DebugX, valid |-> TRUE]
          BY <2>1, <3>1 DEF GetPose
        <4>2. DebugX \in Positions
          BY PositionsNatural
        <4> QED
          BY <4>1, <4>2
      <3>2. CASE ~config.debug
        <4>1. loc.latest.x \in Positions /\ Fresh \in BOOLEAN
          BY DEF GateInv, Shape, Fresh
        <4>2. pose' = [x |-> loc.latest.x, valid |-> Fresh]
          BY <2>1, <3>2 DEF GetPose
        <4> QED
          BY <4>1, <4>2
      <3> QED
        BY <3>1, <3>2
    <2>4. Read'
      <3> SUFFICES ASSUME pose'.valid, ~config.debug
                   PROVE  truth - Timeout <= pose'.x /\ pose'.x <= truth
        BY <1>1, <2>2 DEF Read
      <3>1. pose'.x = loc.latest.x /\ Fresh
        BY <2>1 DEF GetPose
      <3>2. truth - loc.age <= loc.latest.x /\ loc.latest.x <= truth /\ loc.age <= Timeout
        BY <3>1 DEF Fresh, GateInv, Stored
      <3>3. loc.latest.x \in Nat /\ loc.age \in 0 .. (Timeout + 1) /\ truth \in Nat
        BY PositionsNatural DEF GateInv, Shape
      <3> QED
        BY <3>1, <3>2, <3>3
    <2>5. Drawn'
      <3> SUFFICES ASSUME havePose', pose'.valid
                   PROVE  /\ polygons'.around = pose'.x
                          /\ polygons'.sections = DrivableSections(Place(pose.x))'
        BY DEF Drawn
      <3>1. polygons' = PolygonsAround(pose'.x)
        BY <2>1 DEF Build
      <3>2. polygons'.around = pose'.x /\ polygons'.sections = DrivableSections(Place(pose'.x))
        BY <3>1 DEF PolygonsAround
      <3>3. DrivableSections(Place(pose.x))' = DrivableSections(Place(pose'.x))
        BY <1>1 DEF DrivableSections, CurrentSection, NearLanes, Place
      <3> QED
        BY <3>2, <3>3
    <2>6. Shape'
      BY <1>1, <2>2, <2>3 DEF GateInv, Shape
    <2> QED
      BY <1>2, <1>3, <2>2, <2>4, <2>5, <2>6 DEF GateInv, Gated
  <1>6. CASE ~config.hdmap
    <2>1. UNCHANGED <<pose, havePose, polygons, gate>>
      BY <1>6 DEF Locate
    <2>2. DrivableSections(Place(pose.x))' = DrivableSections(Place(pose.x))
      BY <1>1, <2>1 DEF DrivableSections, CurrentSection, NearLanes, Place
    <2>3. Shape' /\ Read' /\ Drawn' /\ Gated'
      BY <1>1, <1>2, <2>1, <2>2 DEF GateInv, Shape, Read, Drawn, Gated
    <2> QED
      BY <1>3, <2>3 DEF GateInv
  <1>7. config.hdmap \in BOOLEAN
    BY DEF GateInv, Shape
  <1> QED
    BY <1>5, <1>6, <1>7

LEMMA FilterKeeps == GateInv /\ Filter => GateInv'
PROOF
  <1> SUFFICES ASSUME GateInv, Filter PROVE GateInv'
    OBVIOUS
  <1>1. UNCHANGED <<config, truth, loc, queue, frame, pose, havePose, polygons>> /\ pc' = "wait"
    BY DEF Filter
  <1>2. CanLabel' = CanLabel /\ Kept' = Kept
    BY <1>1, AnswerKept
  <1>3. CanLabel \in BOOLEAN
    BY DEF CanLabel
  <1>4. Kept \subseteq Offsets
    BY DEF Kept, GateInv, Shape
  <1> DEFINE l == CanLabel
             k == Kept
  <1>5. gate' = [gate EXCEPT !.labelled = l, !.kept = k]
    BY DEF Filter
  <1>6. l \in BOOLEAN /\ k \in SUBSET Offsets
    BY <1>3, <1>4
  <1>7. gate \in [labelled : BOOLEAN, kept : SUBSET Offsets, read : Nat]
    BY DEF GateInv, Shape
  <1> HIDE DEF l, k
  <1>8. /\ gate' \in [labelled : BOOLEAN, kept : SUBSET Offsets, read : Nat]
        /\ gate'.labelled = l /\ gate'.kept = k /\ gate'.read = gate.read
    BY <1>5, <1>6, <1>7
  <1>9. Gated'
    BY <1>1, <1>2, <1>8 DEF Gated, l, k
  <1>10. DrivableSections(Place(pose.x))' = DrivableSections(Place(pose.x))
    BY <1>1 DEF DrivableSections, CurrentSection, NearLanes, Place
  <1>11. Stored' /\ Read' /\ Drawn'
    BY <1>1, <1>8, <1>10 DEF GateInv, Stored, Read, Drawn
  <1>12. Shape'
    BY <1>1, <1>8 DEF GateInv, Shape
  <1> QED
    BY <1>9, <1>11, <1>12 DEF GateInv

(* GateInv holds at the start and through every step of any actor.         *)
THEOREM GateInvariant == Spec => []GateInv
PROOF
  <1>1. GateInv /\ [Next]_vars => GateInv'
    BY TickKeeps, ReceiveKeeps, CaptureKeeps, IdleKeeps, TakeFrameKeeps, LocateKeeps,
       FilterKeeps DEF Next
  <1> QED
    BY InitGate, <1>1, PTL DEF Spec

-----------------------------------------------------------------------------
(* LocalizationManager::getPose and filterClusters: a frame is labelled    *)
(* only with a pose at most Timeout old, for every Timeout and every       *)
(* sequence of messages, silences and frames.                              *)
THEOREM PoseFresh == Spec => []PoseNotOld
PROOF
  <1>1. GateInv => PoseNotOld
    BY DEF GateInv, PoseNotOld, Done, Gated, CanLabel, Read
  <1> QED
    BY <1>1, GateInvariant, PTL

(* DrawAllOverlay: the polygons shown were built around the pose shown.    *)
THEOREM OverlayCurrent == Spec => []OverlayMatchesPose
PROOF
  <1>1. GateInv => OverlayMatchesPose
    BY DEF GateInv, OverlayMatchesPose, Drawn
  <1> QED
    BY <1>1, GateInvariant, PTL

-----------------------------------------------------------------------------
(* Seen from where the frame was captured a cluster is off by the error of *)
(* the pose.                                                               *)
LEMMA SeenFromTruth ==
  ASSUME NEW d \in Int \X Int, NEW q \in Int \X Int, NEW x \in Int, NEW at \in Int
  PROVE  Dist(Plus(Place(at), d), q) <= Dist(Plus(Place(x), d), q) + Span(x, at)
PROOF
  <1> DEFINE a == Span(at + d[1], q[1])
             b == Span(x + d[1], q[1])
             c == Span(d[2], q[2])
  <1>1. d[1] \in Int /\ d[2] \in Int /\ q[1] \in Int /\ q[2] \in Int
    OBVIOUS
  <1>2. a \in Int /\ b \in Int /\ c \in Int /\ Span(x, at) \in Nat /\ a <= b + Span(x, at)
    BY <1>1 DEF Span
  <1>3. Dist(Plus(Place(at), d), q) = Max({a, c}) /\ Dist(Plus(Place(x), d), q) = Max({b, c})
    <2>1. 0 + d[2] = d[2]
      BY <1>1
    <2> QED
      BY <2>1 DEF Dist, Plus, Place
  <1> HIDE DEF a, b, c
  <1>4. Max({a, c}) \in {a, c}
    BY <1>2, MaxOfTwo
  <1>5. b <= Max({b, c}) /\ c <= Max({b, c}) /\ Max({b, c}) \in {b, c}
    BY <1>2, MaxOfTwo
  <1> QED
    BY <1>2, <1>3, <1>4, <1>5

LEMMA DistIsInt ==
  ASSUME NEW p \in Int \X Int, NEW q \in Int \X Int
  PROVE  Dist(p, q) \in Int
PROOF
  <1>1. Span(p[1], q[1]) \in Int /\ Span(p[2], q[2]) \in Int
    BY DEF Span
  <1> QED
    BY <1>1, MaxOfTwo DEF Dist

LEMMA MovedBySkew ==
  ASSUME NEW d \in Int \X Int, NEW x \in Int, NEW at \in Int
  PROVE  Dist(Plus(Place(x), d), Plus(Place(at), d)) <= Span(x, at)
PROOF
  <1> DEFINE q == Plus(Place(at), d)
  <1>1. q \in Int \X Int
    BY DEF Plus, Place
  <1>2. Dist(Plus(Place(x), d), q) <= Dist(Plus(Place(at), d), q) + Span(at, x)
    BY <1>1, SeenFromTruth
  <1>3. Dist(q, q) = 0
    <2>1. Span(q[1], q[1]) = 0 /\ Span(q[2], q[2]) = 0
      BY <1>1 DEF Span
    <2>2. Max({0, 0}) = 0
      BY MaxOfTwo
    <2> QED
      BY <2>1, <2>2 DEF Dist
  <1>4. Span(at, x) = Span(x, at) /\ Span(x, at) \in Int
    BY DEF Span
  <1> QED
    BY <1>2, <1>3, <1>4

LEMMA PoseOnMap ==
  ASSUME GateInv
  PROVE  pose.x \in Positions /\ pose.x \in Int
PROOF
  <1>1. pose \in [x : Positions, valid : BOOLEAN]
    BY DEF GateInv, Shape
  <1>2. pose.x \in Positions
    BY <1>1
  <1>3. Positions \subseteq Int
    BY PositionsNatural
  <1> QED
    BY <1>2, <1>3

(* HDMapFilter::filterClusters: whatever section the lookup chose, and     *)
(* however wrong the pose, nothing farther from every section than the     *)
(* margin and that error reaches the tracker.                              *)
THEOREM NothingOffRoad == Spec => []OffRoadDropped
PROOF
  <1>1. GateInv => OffRoadDropped
    <2> SUFFICES ASSUME GateInv, Done, NEW d \in gate.kept
                 PROVE  \E s \in Sections : \E q \in Polygon[s] :
                          Dist(Seen(d), q) <= Expand + Skew
      BY DEF OffRoadDropped
    <2>1. CanLabel /\ gate.kept = Kept
      BY DEF Done, GateInv, Gated
    <2>2. d \in frame.clusters /\ LabelledInRoad(d)
      BY <2>1 DEF Kept, CanLabel
    <2>3. PICK s \in DrivableSections(Place(pose.x)) :
            \E q \in Polygon[s] : Dist(Plus(Place(pose.x), d), q) <= Expand
      BY <2>2 DEF LabelledInRoad, InRoad
    <2>4. PICK q \in Polygon[s] : Dist(Plus(Place(pose.x), d), q) <= Expand
      BY <2>3
    <2>5. s \in Sections
      BY <2>3 DEF DrivableSections
    <2>6. d \in Int \X Int /\ q \in Int \X Int /\ pose.x \in Int /\ frame.at \in Int
      <3>1. pose.x \in Int
        BY PoseOnMap
      <3> QED
        BY <2>2, <2>4, <2>5, <3>1, GateAssumption DEF GateInv, Shape, Sections
    <2>7. Dist(Seen(d), q) <= Dist(Plus(Place(pose.x), d), q) + Skew
      BY <2>6, SeenFromTruth DEF Seen, Skew
    <2>8. /\ Dist(Seen(d), q) \in Int /\ Dist(Plus(Place(pose.x), d), q) \in Int
          /\ Skew \in Int /\ Expand \in Int
      <3>1. Seen(d) \in Int \X Int /\ Plus(Place(pose.x), d) \in Int \X Int
        BY <2>6 DEF Seen, Plus, Place
      <3> QED
        BY <2>6, <3>1, DistIsInt, GateAssumption DEF Skew, Span
    <2>9. Dist(Seen(d), q) <= Expand + Skew
      BY <2>4, <2>7, <2>8
    <2> QED
      BY <2>5, <2>9
  <1> QED
    BY <1>1, GateInvariant, PTL

(* HDMapFilter::filterClusters: on a map whose road, as far as the sensor  *)
(* sees it from a lane, is that lane's section and those it joins, a       *)
(* cluster on the road is kept whatever section the lookup chose, as long  *)
(* as the pose is off by no more than the margin.                          *)
THEOREM RoadKept == ASSUME MapJoined PROVE Spec => []OnRoadKept
PROOF
  <1>1. GateInv => OnRoadKept
    <2> SUFFICES ASSUME GateInv, Done, Skew <= Expand, NEW d \in frame.clusters,
                        NEW s \in Sections, Seen(d) \in Polygon[s]
                 PROVE  d \in gate.kept
      BY DEF OnRoadKept
    <2> DEFINE p == Plus(Place(pose.x), d)
               near == NearLanes(Place(pose.x))
               lane == Min(near)
               cur == Lanes[lane].section
    <2>1. CanLabel /\ gate.kept = Kept
      BY DEF Done, GateInv, Gated
    <2>2. /\ d \in Offsets /\ d \in Int \X Int /\ pose.x \in Positions
          /\ pose.x \in Int /\ frame.at \in Int
      <3>1. pose.x \in Positions /\ pose.x \in Int
        BY PoseOnMap
      <3> QED
        BY <3>1, GateAssumption DEF GateInv, Shape
    <2>3. Dist(p, Seen(d)) <= Expand
      <3>1. Dist(p, Seen(d)) <= Skew /\ Skew \in Int
        BY <2>2, MovedBySkew DEF Skew, Seen, Span
      <3>2. Dist(p, Seen(d)) \in Int
        <4>1. p \in Int \X Int /\ Seen(d) \in Int \X Int
          BY <2>2 DEF Seen, Plus, Place
        <4> QED
          BY <4>1, DistIsInt
      <3> QED
        BY <3>1, <3>2, GateAssumption
    <2>4. InRoad(p, Sections)
      BY <2>3 DEF InRoad
    <2>5. config.loaded /\ near # {} /\ CurrentSection(Place(pose.x)) = cur
      BY <2>1 DEF CanLabel, DrivableSections, CurrentSection
    <2>6. lane \in near
      BY <2>5, MinOfNaturals, GateAssumption DEF NearLanes
    <2>7. InRoad(p, {cur} \cup Adjacent[cur])
      BY <2>2, <2>4, <2>6 DEF MapJoined
    <2>8. cur # NoSection /\ cur \in Sections /\ Adjacent[cur] \subseteq Sections
      BY <2>6, GateAssumption DEF NearLanes, Sections, NoSection
    <2>9. InRoad(p, DrivableSections(Place(pose.x)))
      BY <2>5, <2>7, <2>8 DEF InRoad, DrivableSections
    <2> QED
      BY <2>1, <2>9 DEF Kept, LabelledInRoad
  <1> QED
    BY <1>1, GateInvariant, PTL

-----------------------------------------------------------------------------
(* The flood fills: the inductive invariant, in named parts.               *)

\* Where each variable lives, and which loops use which.
GridShape ==
  /\ GroundTypeOK
  /\ stage = "done" => candidates \subseteq taken /\ cluster = {}
  /\ stage = "growing" => taken = {} /\ cluster = {} /\ clusters = {}

\* The ground holds the seeds, is closed but for the queue, and is inside
\* every closed set that holds the seeds.
Growth ==
  /\ Seeds \subseteq ground
  /\ front \subseteq ground
  /\ \A c \in ground : c \in front \/ Opened(c) \subseteq ground
  /\ \A S \in SUBSET Cells : Seeds \subseteq S /\ Closed(S) => ground \subseteq S

Grown ==
  /\ Seeds \subseteq ground
  /\ Closed(ground)
  /\ \A S \in SUBSET Cells : Seeds \subseteq S /\ Closed(S) => ground \subseteq S

\* The component being collected is closed but for the queue, touches no cell
\* taken before, and is inside every closed set that holds its first cell.
Collecting ==
  /\ front \subseteq cluster
  /\ \A c \in cluster : c \in front \/ Neighbours(c) \cap candidates \subseteq cluster
  /\ cluster # {} =>
       \E c \in cluster : \A S \in SUBSET candidates :
         c \in S /\ Whole(S) => cluster \subseteq S

\* What was taken before are whole components, and the large ones are returned.
Collected ==
  /\ Whole(taken \ cluster)
  /\ \A S \in clusters : Component(S) /\ S \subseteq taken /\ Cardinality(S) >= MinCluster
  /\ \A c \in taken \ cluster : \E S \in SUBSET taken :
       c \in S /\ Component(S) /\ (Cardinality(S) >= MinCluster => S \in clusters)

GroundInv ==
  /\ GridShape
  /\ stage = "growing" => Growth
  /\ stage # "growing" => Grown /\ Collecting /\ Collected

-----------------------------------------------------------------------------
(* Being neighbours is symmetric.                                          *)
LEMMA NeighboursSymmetric ==
  ASSUME NEW c \in Cells, NEW d \in Neighbours(c)
  PROVE  d \in Cells /\ c \in Neighbours(d)
PROOF
  <1>1. /\ d \in Cells /\ d # c
        /\ d[1] \in c[1] - 1 .. c[1] + 1
        /\ d[2] \in c[2] - 1 .. c[2] + 1
    BY DEF Neighbours, Around
  <1>2. /\ c[1] \in Int /\ c[2] \in Int /\ d[1] \in Int /\ d[2] \in Int
        /\ c = <<c[1], c[2]>>
    BY <1>1, GridAssumption DEF Cells
  <1>3. /\ c[1] \in d[1] - 1 .. d[1] + 1
        /\ c[2] \in d[2] - 1 .. d[2] + 1
    BY <1>1, <1>2
  <1> QED
    BY <1>1, <1>2, <1>3 DEF Neighbours, Around

(* Two components that share a cell are the same component.                *)
LEMMA ComponentsDisjoint ==
  ASSUME NEW S, NEW T, Component(S), Component(T), S \cap T # {}
  PROVE  S = T
PROOF
  <1>1. Whole(S \cap T)
    BY DEF Component, Whole
  <1>2. S \cap T = S
    BY <1>1 DEF Component
  <1>3. S \cap T = T
    BY <1>1 DEF Component
  <1> QED
    BY <1>2, <1>3

(* What the growth reads of the grid does not change after BuildGrid.      *)
LEMMA GridKept ==
  ASSUME points' = points
  PROVE  /\ Seeds' = Seeds
         /\ \A c : Opened(c)' = Opened(c)
PROOF
  <1>1. /\ \A c : Valid(c)' = Valid(c)
        /\ \A c : MinZ(c)' = MinZ(c)
    BY DEF Valid, MinZ
  <1>2. \A c, d : Climb(c, d)' = Climb(c, d)
    BY <1>1 DEF Climb
  <1>3. \A c, d, t : Steeper(c, d, t)' = Steeper(c, d, t)
    BY <1>2 DEF Steeper
  <1>4. \A c : Gentle(c)' = Gentle(c)
    BY <1>1, <1>3 DEF Gentle
  <1> QED
    BY <1>1, <1>2, <1>4 DEF Seeds, Opened

(* The invariant holds when the grid has been built.                       *)
LEMMA InitInvariant == GroundInit => GroundInv
PROOF
  <1> SUFFICES ASSUME GroundInit PROVE GroundInv
    OBVIOUS
  <1>1. GridShape
    BY GridAssumption DEF GroundInit, GridShape, GroundTypeOK, Seeds
  <1>2. Growth
    BY DEF GroundInit, Growth
  <1> QED
    BY <1>1, <1>2 DEF GroundInit, GroundInv

(* A wave of the growth preserves it.                                      *)
LEMMA GrowingStep == GroundInv /\ RegionGrowing => GroundInv'
PROOF
  <1> SUFFICES ASSUME GroundInv, RegionGrowing PROVE GroundInv'
    OBVIOUS
  <1>1. /\ stage = "growing" /\ stage' = "growing" /\ GridShape /\ Growth
    BY DEF RegionGrowing, GroundInv
  <1>2. Seeds' = Seeds /\ \A c : Opened(c)' = Opened(c)
    BY GridKept DEF RegionGrowing
  <1>3. \A c : Opened(c) \subseteq Cells
    BY DEF Opened, Neighbours
  <1>4. GridShape'
    BY <1>1, <1>3 DEF GridShape, GroundTypeOK, RegionGrowing, Reached
  <1>5. Growth'
    <2>1. (Seeds \subseteq ground)'
      BY <1>1, <1>2 DEF Growth, RegionGrowing
    <2>4. (front \subseteq ground)'
      BY DEF RegionGrowing
    <2>2. (\A c \in ground : c \in front \/ Opened(c) \subseteq ground)'
      BY <1>1, <1>2 DEF Growth, RegionGrowing, Reached
    <2>3. ASSUME NEW S \in SUBSET Cells, Seeds \subseteq S, \A c \in S : Opened(c) \subseteq S
          PROVE  ground' \subseteq S
      <3>1. ground \subseteq S
        BY <1>1, <2>3 DEF Growth, Closed
      <3> QED
        BY <3>1, <2>3, <1>1 DEF Growth, RegionGrowing, Reached
    <2> QED
      BY <2>1, <2>2, <2>3, <2>4, <1>2 DEF Growth, Closed
  <1> QED
    BY <1>1, <1>4, <1>5 DEF GroundInv

(* The growth ends with the least closed set; the clustering starts clean. *)
LEMMA AnalyzeStep == GroundInv /\ AnalyzeVerticalOccupancy => GroundInv'
PROOF
  <1> SUFFICES ASSUME GroundInv, AnalyzeVerticalOccupancy PROVE GroundInv'
    OBVIOUS
  <1>1. /\ stage = "growing" /\ stage' = "clustering" /\ GridShape /\ Growth
        /\ front = {} /\ front' = {} /\ ground' = ground
    BY DEF AnalyzeVerticalOccupancy, GroundInv
  <1>2. /\ taken' = {} /\ cluster' = {} /\ clusters' = {}
    BY <1>1 DEF AnalyzeVerticalOccupancy, GridShape, GroundTypeOK
  <1>3. Seeds' = Seeds /\ \A c : Opened(c)' = Opened(c)
    BY GridKept DEF AnalyzeVerticalOccupancy
  <1>4. candidates' \subseteq Cells
    BY DEF AnalyzeVerticalOccupancy, Candidates
  <1>5. GridShape'
    BY <1>1, <1>2, <1>4 DEF GridShape, GroundTypeOK, AnalyzeVerticalOccupancy
  <1>6. Grown'
    BY <1>1, <1>3 DEF Growth, Grown, Closed
  <1>7. Collecting' /\ Collected'
    BY <1>1, <1>2 DEF Collecting, Collected, Whole
  <1> QED
    BY <1>1, <1>5, <1>6, <1>7 DEF GroundInv

(* What every step of the clustering leaves alone.                         *)
LEMMA GrownKept ==
  ASSUME Grown, points' = points, ground' = ground
  PROVE  Grown'
PROOF
  BY GridKept DEF Grown, Closed

LEMMA ComponentKept ==
  ASSUME candidates' = candidates
  PROVE  \A S : Whole(S)' = Whole(S) /\ Component(S)' = Component(S)
PROOF
  BY DEF Whole, Component

LEMMA StartStep == GroundInv /\ StartCluster => GroundInv'
PROOF
  <1> SUFFICES ASSUME GroundInv, StartCluster PROVE GroundInv'
    OBVIOUS
  <1>1. /\ stage = "clustering" /\ stage' = "clustering"
        /\ GridShape /\ Grown /\ Collecting /\ Collected
        /\ cluster = {} /\ candidates' = candidates /\ clusters' = clusters
        /\ points' = points /\ ground' = ground
    BY DEF StartCluster, GroundInv
  <1>2. PICK c \in candidates : /\ c \notin taken
                                /\ front' = {c} /\ cluster' = {c}
                                /\ taken' = taken \cup {c}
    BY DEF StartCluster, First
  <1>3. GridShape'
    BY <1>1, <1>2 DEF GridShape, GroundTypeOK
  <1>4. Grown'
    BY <1>1, GrownKept
  <1>5. Collecting'
    BY <1>1, <1>2 DEF Collecting
  <1>6. taken' \ cluster' = taken /\ taken \ cluster = taken /\ taken \subseteq taken'
    BY <1>1, <1>2
  <1>7. Collected'
    BY <1>1, <1>6, ComponentKept DEF Collected
  <1> QED
    BY <1>1, <1>3, <1>4, <1>5, <1>7 DEF GroundInv

LEMMA CollectStep == GroundInv /\ GrowCluster => GroundInv'
PROOF
  <1> SUFFICES ASSUME GroundInv, GrowCluster PROVE GroundInv'
    OBVIOUS
  <1>1. /\ stage = "clustering" /\ stage' = "clustering"
        /\ GridShape /\ Grown /\ Collecting /\ Collected
        /\ front # {} /\ front' = Joined /\ cluster' = cluster \cup Joined
        /\ taken' = taken \cup Joined
        /\ candidates' = candidates /\ clusters' = clusters
        /\ points' = points /\ ground' = ground
    BY DEF GrowCluster, GroundInv
  <1>2. /\ Joined \subseteq candidates
        /\ Joined \cap taken = {}
        /\ \A c \in front : Neighbours(c) \cap candidates \subseteq taken \cup Joined
        /\ \A d \in Joined : \E c \in front : d \in Neighbours(c)
    BY DEF Joined
  <1>3. GridShape'
    BY <1>1, <1>2 DEF GridShape, GroundTypeOK
  <1>4. Grown'
    BY <1>1, GrownKept
  <1>5. taken' \ cluster' = taken \ cluster
    BY <1>1, <1>2 DEF GridShape, GroundTypeOK
  <1>6. \A c \in front : Neighbours(c) \cap candidates \subseteq cluster \cup Joined
    <2> SUFFICES ASSUME NEW c \in front, NEW d \in Neighbours(c) \cap candidates,
                        d \in taken \ cluster
                 PROVE  FALSE
      BY <1>2
    <2>1. c \in cluster /\ c \in candidates /\ c \in Cells
      BY <1>1 DEF Collecting, GridShape, GroundTypeOK
    <2>2. c \in Neighbours(d) \cap candidates
      BY <2>1, NeighboursSymmetric
    <2> QED
      BY <1>1, <2>1, <2>2 DEF Collected, Whole
  <1>7. Collecting'
    <2>1. (front \subseteq cluster)'
      BY <1>1
    <2>2. (\A c \in cluster : c \in front \/ Neighbours(c) \cap candidates \subseteq cluster)'
      BY <1>1, <1>6 DEF Collecting
    <2>3. PICK c \in cluster : \A S \in SUBSET candidates :
                                 c \in S /\ Whole(S) => cluster \subseteq S
      BY <1>1 DEF Collecting
    <2>4. ASSUME NEW S \in SUBSET candidates, c \in S, Whole(S)
          PROVE  cluster \cup Joined \subseteq S
      <3>1. cluster \subseteq S /\ front \subseteq S
        BY <1>1, <2>3, <2>4 DEF Collecting
      <3> QED
        BY <1>2, <2>4, <3>1 DEF Whole
    <2>5. \E x \in cluster' : \A S \in SUBSET candidates' :
            x \in S /\ Whole(S)' => cluster' \subseteq S
      BY <1>1, <2>3, <2>4, ComponentKept
    <2> QED
      BY <2>1, <2>2, <2>5 DEF Collecting
  <1>8. Collected'
    BY <1>1, <1>5, ComponentKept DEF Collected
  <1> QED
    BY <1>1, <1>3, <1>4, <1>7, <1>8 DEF GroundInv

(* A finished flood is a component: it is closed, and a closed part of it  *)
(* either holds its first cell or leaves a closed set that does.           *)
LEMMA FloodIsComponent ==
  ASSUME GridShape, Collecting, front = {}, cluster # {}
  PROVE  Component(cluster)
PROOF
  <1>1. Whole(cluster)
    BY DEF Collecting, Whole
  <1>2. cluster \subseteq candidates /\ candidates \subseteq Cells
    BY DEF GridShape, GroundTypeOK
  <1>3. PICK c \in cluster : \A S \in SUBSET candidates :
                               c \in S /\ Whole(S) => cluster \subseteq S
    BY DEF Collecting
  <1>4. ASSUME NEW T \in SUBSET cluster, T # {}, Whole(T)
        PROVE  T = cluster
    <2>1. CASE c \in T
      BY <1>2, <1>3, <1>4, <2>1
    <2>2. CASE c \notin T
      <3>1. Whole(candidates \ T)
        <4> SUFFICES ASSUME NEW a \in candidates \ T, NEW b \in Neighbours(a) \cap candidates,
                            b \in T
                     PROVE  FALSE
          BY DEF Whole
        <4>1. a \in Neighbours(b) \cap candidates
          BY <1>2, NeighboursSymmetric
        <4> QED
          BY <1>4, <4>1 DEF Whole
      <3>2. cluster \subseteq candidates \ T
        BY <1>2, <1>3, <2>2, <3>1
      <3> QED
        BY <1>4, <3>2
    <2> QED
      BY <2>1, <2>2
  <1> QED
    BY <1>1, <1>4 DEF Component

LEMMA EndStep == GroundInv /\ EndCluster => GroundInv'
PROOF
  <1> SUFFICES ASSUME GroundInv, EndCluster PROVE GroundInv'
    OBVIOUS
  <1>1. /\ stage = "clustering" /\ stage' = "clustering"
        /\ GridShape /\ Grown /\ Collecting /\ Collected
        /\ front = {} /\ front' = {} /\ cluster # {} /\ cluster' = {}
        /\ taken' = taken /\ candidates' = candidates
        /\ clusters' = IF Cardinality(cluster) >= MinCluster
                         THEN clusters \cup {cluster} ELSE clusters
        /\ points' = points /\ ground' = ground
    BY DEF EndCluster, GroundInv
  <1>2. Component(cluster) /\ cluster \subseteq taken
    BY <1>1, FloodIsComponent DEF GridShape, GroundTypeOK
  <1>3. GridShape'
    BY <1>1 DEF GridShape, GroundTypeOK
  <1>4. Grown'
    BY <1>1, GrownKept
  <1>5. Collecting'
    BY <1>1 DEF Collecting
  <1>6. Whole(taken)
    BY <1>1, <1>2 DEF Collected, Component, Whole
  <1>7. \A S \in clusters' : /\ Component(S) /\ S \subseteq taken
                             /\ Cardinality(S) >= MinCluster
    BY <1>1, <1>2 DEF Collected
  <1>8. \A c \in taken : \E S \in SUBSET taken :
          c \in S /\ Component(S) /\ (Cardinality(S) >= MinCluster => S \in clusters')
    <2> SUFFICES ASSUME NEW c \in taken
                 PROVE  \E S \in SUBSET taken :
                          /\ c \in S /\ Component(S)
                          /\ Cardinality(S) >= MinCluster => S \in clusters'
      OBVIOUS
    <2>1. CASE c \in cluster
      BY <1>1, <1>2, <2>1
    <2>2. CASE c \in taken \ cluster
      BY <1>1, <2>2 DEF Collected
    <2> QED
      BY <2>1, <2>2
  <1>9. Collected'
    BY <1>1, <1>6, <1>7, <1>8, ComponentKept, taken' \ cluster' = taken DEF Collected
  <1> QED
    BY <1>1, <1>3, <1>4, <1>5, <1>9 DEF GroundInv

LEMMA ReturnStep == GroundInv /\ Return => GroundInv'
PROOF
  <1> SUFFICES ASSUME GroundInv, Return PROVE GroundInv'
    OBVIOUS
  <1>1. /\ stage' = "done" /\ GridShape /\ Grown /\ Collecting /\ Collected
        /\ cluster = {} /\ candidates \subseteq taken
        /\ UNCHANGED <<points, ground, front, candidates, taken, cluster, clusters>>
    BY DEF Return, GroundInv
  <1>2. GridShape'
    BY <1>1 DEF GridShape, GroundTypeOK
  <1>3. Grown'
    BY <1>1, GrownKept
  <1>4. Collecting' /\ Collected'
    BY <1>1, ComponentKept DEF Collecting, Collected
  <1> QED
    BY <1>1, <1>2, <1>3, <1>4 DEF GroundInv

LEMMA Stutter == GroundInv /\ UNCHANGED groundVars => GroundInv'
PROOF
  <1> SUFFICES ASSUME GroundInv, UNCHANGED groundVars PROVE GroundInv'
    OBVIOUS
  <1>1. UNCHANGED <<points, stage, ground, front, candidates, taken, cluster, clusters>>
    BY DEF groundVars
  <1>2. Seeds' = Seeds /\ \A c : Opened(c)' = Opened(c)
    BY <1>1, GridKept
  <1>3. GridShape' = GridShape /\ Growth' = Growth /\ Grown' = Grown
    BY <1>1, <1>2 DEF GridShape, GroundTypeOK, Growth, Grown, Closed
  <1>4. Collecting' = Collecting /\ Collected' = Collected
    BY <1>1, ComponentKept DEF Collecting, Collected
  <1> QED
    BY <1>1, <1>3, <1>4 DEF GroundInv

(* The invariant is inductive.                                             *)
THEOREM GrownInductive == GroundSpec => []GroundInv
PROOF
  <1>1. GroundInit => GroundInv
    BY InitInvariant
  <1>2. GroundInv /\ [GroundNext]_groundVars => GroundInv'
    BY GrowingStep, AnalyzeStep, StartStep, CollectStep, EndStep, ReturnStep, Stutter DEF GroundNext
  <1> QED
    BY <1>1, <1>2, PTL DEF GroundSpec

(* Every variable keeps its type.                                          *)
THEOREM TypeCorrect == GroundSpec => []GroundTypeOK
PROOF
  <1>1. GroundInv => GroundTypeOK
    BY DEF GroundInv, GridShape
  <1> QED
    BY <1>1, GrownInductive, PTL

(* On every grid the ground is the least set closed under the gates that   *)
(* holds the seeds: what RegionGrowing labels, in whatever order it pops.  *)
THEOREM GroundReachable == GroundSpec => []GroundIsReachable
PROOF
  <1>1. GroundInv => GroundIsReachable
    <2> SUFFICES ASSUME GroundInv, stage = "done"
                 PROVE  /\ Closed(ground)
                        /\ \A T \in SUBSET (ground \ Seeds) :
                             Closed(Seeds \cup T) => ground = Seeds \cup T
      BY DEF GroundIsReachable
    <2>1. Grown /\ ground \subseteq Cells
      BY DEF GroundInv, GridShape, GroundTypeOK
    <2> QED
      BY <2>1 DEF Grown
  <1> QED
    BY <1>1, GrownInductive, PTL

(* On every grid the clusters ClusterObstacleGrid returns are the          *)
(* components of the candidates that have min_cluster_cells cells or more. *)
THEOREM ClustersExact == GroundSpec => []ClustersAreComponents
PROOF
  <1>1. GroundInv => ClustersAreComponents
    <2> SUFFICES ASSUME GroundInv, stage = "done"
                 PROVE  clusters = {S \in SUBSET candidates :
                                      Component(S) /\ Cardinality(S) >= MinCluster}
      BY DEF ClustersAreComponents
    <2>1. /\ Collected /\ cluster = {} /\ taken = candidates
      BY DEF GroundInv, GridShape, GroundTypeOK
    <2>2. ASSUME NEW S \in SUBSET candidates, Component(S), Cardinality(S) >= MinCluster
          PROVE  S \in clusters
      <3>1. PICK c : c \in S
        BY <2>2 DEF Component
      <3>2. PICK R \in SUBSET taken :
              c \in R /\ Component(R) /\ (Cardinality(R) >= MinCluster => R \in clusters)
        BY <2>1, <3>1 DEF Collected
      <3>3. R = S
        BY <2>2, <3>1, <3>2, ComponentsDisjoint
      <3> QED
        BY <2>2, <3>2, <3>3
    <2> QED
      BY <2>1, <2>2 DEF Collected
  <1> QED
    BY <1>1, GrownInductive, PTL

-----------------------------------------------------------------------------
(* Finite sets of heights.                                                 *)

(* A total order has a first element on every finite set: the least finite *)
(* set without one would not be the least.                                 *)
LEMMA FirstOfFinite ==
  ASSUME NEW S, NEW R, IsFiniteSet(S), S # {},
         \A x, y \in S : <<x, y>> \in R \/ <<y, x>> \in R,
         \A x, y, z \in S : <<x, y>> \in R /\ <<y, z>> \in R => <<x, z>> \in R
  PROVE  \E x \in S : \A y \in S : <<x, y>> \in R
PROOF
  <1> DEFINE HasFirst(T) == \E x \in T : \A y \in T : <<x, y>> \in R
             Bad == {T \in FiniteSubsetsOf(S) : T # {} /\ ~HasFirst(T)}
  <1> SUFFICES ASSUME Bad # {} PROVE FALSE
    <2>1. S \in FiniteSubsetsOf(S)
      BY DEF FiniteSubsetsOf
    <2> QED
      BY <2>1
  <1>1. PICK T \in Bad : \A U \in Bad : ~(<<U, T>> \in StrictSubsetOrdering(S))
    <2>1. Bad \subseteq FiniteSubsetsOf(S)
      OBVIOUS
    <2> HIDE DEF Bad
    <2> QED
      BY <2>1, FS_StrictSubsetOrderingWellFounded, WFMin
  <1>2. T \subseteq S /\ IsFiniteSet(T) /\ T # {} /\ ~HasFirst(T)
    BY <1>1 DEF FiniteSubsetsOf
  <1>3. PICK e \in T : TRUE
    BY <1>2
  <1> DEFINE U == T \ {e}
  <1>4. IsFiniteSet(U) /\ U \subseteq S /\ T = U \cup {e}
    <2>1. IsFiniteSet(U)
      BY <1>2, FS_RemoveElement, Zenon
    <2>2. T \subseteq S /\ e \in T
      BY <1>2
    <2> HIDE DEF Bad, HasFirst
    <2> QED
      BY <2>1, <2>2
  <1>5. CASE U = {}
    BY <1>2, <1>3, <1>4, <1>5
  <1>6. CASE U # {}
    <2>1. <<U, T>> \in StrictSubsetOrdering(S) /\ U \in FiniteSubsetsOf(S)
      BY <1>2, <1>3, <1>4 DEF StrictSubsetOrdering, FiniteSubsetsOf
    <2>2. HasFirst(U)
      BY <1>1, <1>6, <2>1
    <2>3. PICK m \in U : \A y \in U : <<m, y>> \in R
      BY <2>2
    <2>4. e \in S /\ m \in S
      BY <1>2, <1>3, <1>4, <2>3
    <2>5. CASE <<m, e>> \in R
      BY <1>2, <1>4, <2>3, <2>5
    <2>6. CASE <<e, m>> \in R
      <3>1. \A y \in U : <<e, y>> \in R
        BY <1>4, <2>3, <2>4, <2>6
      <3> QED
        BY <1>2, <1>3, <1>4, <2>4, <3>1
    <2> QED
      BY <2>4, <2>5, <2>6
  <1> QED
    BY <1>5, <1>6

LEMMA Extremes ==
  ASSUME NEW S \in SUBSET Int, IsFiniteSet(S), S # {}
  PROVE  /\ Min(S) \in S /\ \A y \in S : Min(S) <= y
         /\ Max(S) \in S /\ \A y \in S : y <= Max(S)
PROOF
  <1>1. \E x \in S : \A y \in S : x <= y
    <2> DEFINE R == {p \in Int \X Int : p[1] <= p[2]}
    <2>1. \A x, y \in Int : <<x, y>> \in R <=> x <= y
      OBVIOUS
    <2> HIDE DEF R
    <2>2. \A x, y \in S : <<x, y>> \in R \/ <<y, x>> \in R
      <3>1. \A x, y \in S : x \in Int /\ y \in Int /\ (x <= y \/ y <= x)
        OBVIOUS
      <3> QED
        BY <2>1, <3>1, Zenon
    <2>3. \A x, y, z \in S : <<x, y>> \in R /\ <<y, z>> \in R => <<x, z>> \in R
      BY <2>1
    <2>4. \E x \in S : \A y \in S : <<x, y>> \in R
      BY <2>2, <2>3, FirstOfFinite
    <2> QED
      BY <2>1, <2>4
  <1>2. \E x \in S : \A y \in S : x >= y
    <2> DEFINE R == {p \in Int \X Int : p[1] >= p[2]}
    <2>1. \A x, y \in Int : <<x, y>> \in R <=> x >= y
      OBVIOUS
    <2> HIDE DEF R
    <2>2. \A x, y \in S : <<x, y>> \in R \/ <<y, x>> \in R
      <3>1. \A x, y \in S : x \in Int /\ y \in Int /\ (x >= y \/ y >= x)
        OBVIOUS
      <3> QED
        BY <2>1, <3>1, Zenon
    <2>3. \A x, y, z \in S : <<x, y>> \in R /\ <<y, z>> \in R => <<x, z>> \in R
      BY <2>1
    <2>4. \E x \in S : \A y \in S : <<x, y>> \in R
      BY <2>2, <2>3, FirstOfFinite
    <2> QED
      BY <2>1, <2>4
  <1>3. Min(S) \in S /\ \A y \in S : Min(S) <= y
    BY <1>1 DEF Min
  <1>4. Max(S) \in S /\ \A y \in S : Max(S) >= y
    BY <1>2 DEF Max
  <1> QED
    BY <1>3, <1>4

(* What most of a set of cells share is in the middle of their heights.    *)
LEMMA MajorityIsMiddle ==
  ASSUME NEW S, IsFiniteSet(S), NEW z \in Int, \A c \in S : MinZ(c) \in Int,
         2 * Cardinality({c \in S : MinZ(c) = z}) > Cardinality(S),
         NEW k \in Int, Cardinality(S) <= 2 * k, 2 * k <= Cardinality(S) + 2
  PROVE  Sorted(S, k) = z
PROOF
  <1> DEFINE n == Cardinality(S)
             M == {c \in S : MinZ(c) = z}
             Below(v) == {c \in S : MinZ(c) < v}
             UpTo(v) == {c \in S : MinZ(c) <= v}
  <1>1. /\ n \in Nat
        /\ IsFiniteSet(M) /\ Cardinality(M) \in Nat
        /\ \A v : IsFiniteSet(Below(v)) /\ Cardinality(Below(v)) \in Nat
        /\ \A v : IsFiniteSet(UpTo(v)) /\ Cardinality(UpTo(v)) \in Nat
    BY FS_Subset, FS_CardinalityType
  <1>2. Cardinality(Below(z)) + Cardinality(M) <= n
    <2>1. Below(z) \cap M = {}
      OBVIOUS
    <2>2. Cardinality(Below(z) \cup M)
            = Cardinality(Below(z)) + Cardinality(M) - Cardinality(Below(z) \cap M)
      BY <1>1, FS_Union
    <2>3. Cardinality(Below(z) \cap M) = 0
      BY <2>1, FS_EmptySet
    <2>4. Cardinality(Below(z) \cup M) <= n
      BY FS_Subset
    <2> QED
      BY <1>1, <2>2, <2>3, <2>4
  <1>3. Cardinality(M) <= Cardinality(UpTo(z))
    <2>1. M \in SUBSET UpTo(z)
      OBVIOUS
    <2> QED
      BY <1>1, <2>1, FS_Subset
  <1>4. Cardinality(Below(z)) < k /\ k <= Cardinality(UpTo(z))
    <2>1. 2 * Cardinality(M) > n /\ n <= 2 * k /\ 2 * k <= n + 2
      OBVIOUS
    <2>2. /\ n \in Nat /\ Cardinality(M) \in Nat /\ Cardinality(Below(z)) \in Nat
          /\ Cardinality(UpTo(z)) \in Nat
      BY <1>1
    <2> HIDE DEF n, M, Below, UpTo
    <2> QED
      BY <1>2, <1>3, <2>1, <2>2
  <1>5. z \in {MinZ(c) : c \in S}
    <2>1. M # {}
      BY <1>1, FS_EmptySet
    <2> QED
      BY <2>1
  <1>6. ASSUME NEW v \in {MinZ(c) : c \in S},
               Cardinality(Below(v)) < k, k <= Cardinality(UpTo(v))
        PROVE  v = z
    <2>1. v \in Int
      OBVIOUS
    <2>2. CASE v < z
      <3>1. UpTo(v) \in SUBSET Below(z)
        BY <2>1, <2>2
      <3>2. Cardinality(UpTo(v)) <= Cardinality(Below(z))
        BY <1>1, <3>1, FS_Subset
      <3>3. /\ Cardinality(Below(z)) < k /\ k <= Cardinality(UpTo(z))
            /\ Cardinality(Below(v)) < k /\ k <= Cardinality(UpTo(v))
        BY <1>4, <1>6
      <3>4. Cardinality(UpTo(v)) \in Nat /\ Cardinality(Below(z)) \in Nat
        BY <1>1
      <3> HIDE DEF Below, UpTo
      <3> QED
        BY <3>2, <3>3, <3>4
    <2>3. CASE z < v
      <3>1. UpTo(z) \in SUBSET Below(v)
        BY <2>1, <2>3
      <3>2. Cardinality(UpTo(z)) <= Cardinality(Below(v))
        BY <1>1, <3>1, FS_Subset
      <3>3. /\ Cardinality(Below(z)) < k /\ k <= Cardinality(UpTo(z))
            /\ Cardinality(Below(v)) < k /\ k <= Cardinality(UpTo(v))
        BY <1>4, <1>6
      <3>4. Cardinality(UpTo(z)) \in Nat /\ Cardinality(Below(v)) \in Nat
        BY <1>1
      <3> HIDE DEF Below, UpTo
      <3> QED
        BY <3>2, <3>3, <3>4
    <2> QED
      BY <2>1, <2>2, <2>3
  <1> QED
    BY <1>4, <1>5, <1>6 DEF Sorted

-----------------------------------------------------------------------------
(* What ComputeGroundReference and AnalyzeVerticalOccupancy make of the    *)
(* grid.                                                                   *)

\* The cloud is one that was given, and the candidates are those of the call.
Marked ==
  /\ points \in Clouds
  /\ stage # "growing" => candidates = Candidates

\* What the analysis finds depends on the points and the ground only.
LEMMA CandidatesKept ==
  ASSUME points' = points, ground' = ground
  PROVE  Candidates' = Candidates
PROOF
  <1>1. /\ \A c : Valid(c)' = Valid(c)
        /\ \A c : MinZ(c)' = MinZ(c)
        /\ \A c : MaxZ(c)' = MaxZ(c)
    BY DEF Valid, MinZ, MaxZ
  <1>2. \A col : ColumnGround(col)' = ColumnGround(col)
    BY DEF ColumnGround
  <1>3. \A S, k : Sorted(S, k)' = Sorted(S, k)
    BY <1>1 DEF Sorted
  <1>4. \A col : Median(col)' = Median(col)
    BY <1>2, <1>3 DEF Median
  <1>5. GroundCols' = GroundCols
    BY <1>2 DEF GroundCols
  <1>6. \A col : Filled(col)' = Filled(col)
    BY <1>4, <1>5 DEF Filled
  <1>7. \A col : Reference(col)' = Reference(col)
    BY <1>6 DEF Reference
  <1>8. \A c : HeightRange(c)' = HeightRange(c) /\ NumLayers(c)' = NumLayers(c)
    BY <1>1 DEF HeightRange, NumLayers
  <1>9. \A c : OccupiedLayers(c)' = OccupiedLayers(c)
    BY <1>1, <1>8 DEF OccupiedLayers
  <1>10. \A c : Vertical(c)' = Vertical(c)
    BY <1>8, <1>9 DEF Vertical
  <1>11. \A c, r : LowObstacle(c, r)' = LowObstacle(c, r)
    BY <1>1, <1>8, <1>9, <1>10 DEF LowObstacle
  <1>12. \A c, r : TallNeighbours(c, r)' = TallNeighbours(c, r)
    BY <1>1 DEF TallNeighbours
  <1> QED
    BY <1>7, <1>11, <1>12 DEF Candidates

LEMMA MarkedInvariant == GroundSpec => []Marked
PROOF
  <1>1. GroundInit => Marked
    BY DEF GroundInit, Marked
  <1>2. Marked /\ [GroundNext]_groundVars => Marked'
    <2> SUFFICES ASSUME Marked, [GroundNext]_groundVars PROVE Marked'
      OBVIOUS
    <2>1. points' = points
      BY DEF GroundNext, groundVars, RegionGrowing, AnalyzeVerticalOccupancy, StartCluster, GrowCluster,
             EndCluster, Return
    <2>2. CASE RegionGrowing
      BY <2>1, <2>2 DEF Marked, RegionGrowing
    <2>3. CASE AnalyzeVerticalOccupancy
      <3>1. ground' = ground /\ candidates' = Candidates
        BY <2>3 DEF AnalyzeVerticalOccupancy
      <3> QED
        BY <2>1, <3>1, CandidatesKept DEF Marked
    <2>4. CASE StartCluster \/ GrowCluster \/ EndCluster \/ Return \/ UNCHANGED groundVars
      <3>1. /\ ground' = ground /\ candidates' = candidates
            /\ stage' = "growing" => stage = "growing"
            /\ stage = "growing" => stage' = "growing"
        BY <2>4 DEF groundVars, StartCluster, GrowCluster, EndCluster, Return
      <3> QED
        BY <2>1, <3>1, CandidatesKept DEF Marked
    <2> QED
      BY <2>2, <2>3, <2>4 DEF GroundNext
  <1> QED
    BY <1>1, <1>2, PTL DEF GroundSpec

LEMMA HeightsOfCells ==
  ASSUME Marked, NEW c \in Cells, Valid(c)
  PROVE  MinZ(c) \in Int /\ MaxZ(c) \in Int
PROOF
  <1>1. points[c] \in SUBSET Int /\ IsFiniteSet(points[c]) /\ points[c] # {}
    BY GridAssumption DEF Marked, Valid
  <1>2. Min(points[c]) \in points[c] /\ Max(points[c]) \in points[c]
    BY <1>1, Extremes
  <1> QED
    BY <1>1, <1>2 DEF MinZ, MaxZ

LEMMA GroundIsValid ==
  ASSUME Grown, ground \subseteq Cells
  PROVE  \A c \in ground : c \in Cells /\ Valid(c)
PROOF
  <1> DEFINE V == {c \in Cells : Valid(c)}
  <1>1. Seeds \subseteq V /\ Closed(V)
    BY DEF Seeds, Closed, Opened, Neighbours
  <1>2. ground \subseteq V
    BY <1>1 DEF Grown
  <1> QED
    BY <1>2

LEMMA MedianOfLevel ==
  ASSUME Marked, Grown, ground \subseteq Cells, NEW z \in Int, LevelAt(z), NEW col \in GroundCols
  PROVE  Median(col) = z
PROOF
  <1> DEFINE S == ColumnGround(col)
             n == Cardinality(S)
  <1>1. S \subseteq ground /\ \A c \in S : MinZ(c) \in Int
    BY GroundIsValid, HeightsOfCells DEF ColumnGround
  <1>2. IsFiniteSet(S)
    <2>1. IsFiniteSet(0 .. Rows - 1) /\ IsFiniteSet(0 .. Cols - 1)
      BY GridAssumption, FS_Interval
    <2>2. IsFiniteSet(Cells)
      BY <2>1, FS_Product DEF Cells
    <2>3. S \in SUBSET Cells
      BY <1>1
    <2> QED
      BY <2>2, <2>3, FS_Subset
  <1>3. n \in Nat
    BY <1>2, FS_CardinalityType
  <1>4. 2 * Cardinality({c \in S : MinZ(c) = z}) > n
    BY DEF LevelAt
  <1>5. \A k \in Int : n <= 2 * k /\ 2 * k <= n + 2 => Sorted(S, k) = z
    BY <1>1, <1>2, <1>4, MajorityIsMiddle
  <1> HIDE DEF S
  <1>6. CASE n % 2 = 1
    <2>1. n \div 2 + 1 \in Int /\ n <= 2 * (n \div 2 + 1) /\ 2 * (n \div 2 + 1) <= n + 2
      BY <1>3
    <2>2. Sorted(S, n \div 2 + 1) = z
      BY <1>5, <2>1
    <2> QED
      BY <1>6, <2>2 DEF Median, S
  <1>7. CASE n % 2 # 1
    <2>1. /\ n \div 2 \in Int /\ n \div 2 + 1 \in Int
          /\ n <= 2 * (n \div 2) /\ 2 * (n \div 2) <= n + 2
          /\ n <= 2 * (n \div 2 + 1) /\ 2 * (n \div 2 + 1) <= n + 2
      BY <1>3, <1>7
    <2>2. Sorted(S, n \div 2) = z /\ Sorted(S, n \div 2 + 1) = z
      BY <1>5, <2>1
    <2>3. (z + z) \div 2 = z
      OBVIOUS
    <2> QED
      BY <1>7, <2>2, <2>3 DEF Median, S
  <1> QED
    BY <1>6, <1>7

LEMMA FilledOfLevel ==
  ASSUME Marked, Grown, ground \subseteq Cells, NEW z \in Int, LevelAt(z),
         NEW col \in 0 .. Cols - 1
  PROVE  Filled(col) = z
PROOF
  <1> DEFINE before == {k \in GroundCols : k <= col}
             after  == {k \in GroundCols : k >= col}
             p == Max(before)
             n == Min(after)
  <1>1. \A k \in GroundCols : k \in 0 .. Cols - 1 /\ k \in Int /\ Median(k) = z
    BY MedianOfLevel DEF GroundCols
  <1>2. GroundCols # {}
    <2>1. PICK c \in ground : c \in Cells
      BY DEF LevelAt
    <2>2. c[2] \in 0 .. Cols - 1 /\ c \in ColumnGround(c[2])
      BY <2>1 DEF Cells, ColumnGround
    <2> QED
      BY <2>2 DEF GroundCols
  <1>3. IsFiniteSet(before) /\ IsFiniteSet(after)
    <2>1. IsFiniteSet(0 .. Cols - 1)
      BY GridAssumption, FS_Interval
    <2>2. before \in SUBSET (0 .. Cols - 1) /\ after \in SUBSET (0 .. Cols - 1)
      BY <1>1
    <2> QED
      BY <2>1, <2>2, FS_Subset
  <1>4. before \in SUBSET Int /\ after \in SUBSET Int
    BY <1>1
  <1>5. before # {} => p \in before
    BY <1>3, <1>4, Extremes
  <1>6. after # {} => n \in after
    BY <1>3, <1>4, Extremes
  <1>7. before # {} => Median(p) = z /\ p \in Int /\ p <= col
    BY <1>1, <1>5
  <1>8. after # {} => Median(n) = z /\ n \in Int /\ n >= col
    BY <1>1, <1>6
  <1>9. before # {} \/ after # {}
    <2>1. PICK k \in GroundCols : k \in Int
      BY <1>1, <1>2
    <2> QED
      BY <2>1
  <1>10. before # {} /\ after # {} /\ p # n =>
           Median(p) + ((Median(n) - Median(p)) * (col - p)) \div (n - p) = z
    <2> SUFFICES ASSUME before # {}, after # {}, p # n
                 PROVE  z + ((z - z) * (col - p)) \div (n - p) = z
      BY <1>7, <1>8
    <2>1. p \in Int /\ n \in Int /\ n - p > 0 /\ n - p \in Int /\ col - p \in Int
      BY <1>7, <1>8
    <2> HIDE DEF p, n
    <2>2. (z - z) * (col - p) = 0
      BY <2>1
    <2>3. 0 \div (n - p) = 0
      BY <2>1
    <2> QED
      BY <2>2, <2>3
  <1>11. Filled(col) = CASE GroundCols = {} -> SensorHeight
                         [] before = {}     -> Median(n)
                         [] after = {}      -> Median(p)
                         [] p = n           -> Median(p)
                         [] OTHER           -> Median(p)
                              + ((Median(n) - Median(p)) * (col - p)) \div (n - p)
    BY Zenon DEF Filled
  <1> HIDE DEF before, after, p, n
  <1>12. CASE before = {}
    BY <1>2, <1>8, <1>9, <1>11, <1>12
  <1>13. CASE before # {} /\ after = {}
    BY <1>2, <1>7, <1>11, <1>13
  <1>14. CASE before # {} /\ after # {}
    BY <1>2, <1>7, <1>10, <1>11, <1>14
  <1> QED
    BY <1>12, <1>13, <1>14

LEMMA ReferenceOfLevel ==
  ASSUME Marked, Grown, ground \subseteq Cells, NEW z \in Int, LevelAt(z),
         NEW col \in 0 .. Cols - 1
  PROVE  Reference(col) = z
PROOF
  <1>1. Filled(col) = z
    BY FilledOfLevel
  <1>2. CASE col \in {0, Cols - 1}
    BY <1>1, <1>2 DEF Reference
  <1>3. CASE col \notin {0, Cols - 1}
    <2>1. col - 1 \in 0 .. Cols - 1 /\ col + 1 \in 0 .. Cols - 1
      BY <1>3, GridAssumption
    <2>2. Filled(col - 1) = z /\ Filled(col + 1) = z
      BY <2>1, FilledOfLevel
    <2>3. (z + z + z) \div 3 = z
      OBVIOUS
    <2> QED
      BY <1>1, <1>3, <2>2, <2>3 DEF Reference
  <1> QED
    BY <1>2, <1>3

(* On every grid and for every cloud: on a road that is level for the      *)
(* greater part of each column, the cells AnalyzeVerticalOccupancy marks   *)
(* are those with something of the right height above it, whatever the few *)
(* others hold and whichever columns have no ground.                       *)
THEOREM StandingFound == GroundSpec => []StandingIsFound
PROOF
  <1>1. GroundInv /\ Marked => StandingIsFound
    <2> SUFFICES ASSUME GroundInv, Marked, stage = "done",
                        NEW z \in UNION {points[c] : c \in ground}, LevelAt(z)
                 PROVE  candidates =
        {c \in Cells :
           /\ Valid(c)
           /\ MaxZ(c) - z \in Max({0, Band(c[2])[1]}) .. Band(c[2])[2]
           /\ MaxZ(c) - MinZ(c) >= 20
           /\ OccupiedLayers(c) >= MinLayers
           /\ ~Vertical(c)
           /\ Cardinality({d \in ground \cap Neighbours(c) :
                             MaxZ(d) - z >= FarBand[2]}) < MinTall}
      BY DEF StandingIsFound
    <2>1. Grown /\ ground \subseteq Cells /\ candidates = Candidates
      BY DEF GroundInv, GridShape, GroundTypeOK, Marked
    <2>2. z \in Int
      <3>1. PICK c \in ground : z \in points[c]
        OBVIOUS
      <3> QED
        BY <2>1, <3>1 DEF GroundInv, GridShape, GroundTypeOK
    <2> DEFINE reference == [col \in 0 .. Cols - 1 |-> Reference(col)]
    <2>3. \A c \in Cells : reference[c[2]] = z
      <3>1. \A c \in Cells : c[2] \in 0 .. Cols - 1
        BY DEF Cells
      <3> QED
        BY <2>1, <2>2, <3>1, ReferenceOfLevel
    <2>4. candidates = {c \in Cells : /\ LowObstacle(c, reference)
                                      /\ Cardinality(TallNeighbours(c, reference)) < MinTall}
      BY <2>1 DEF Candidates
    <2> HIDE DEF reference
    <2>5. ASSUME NEW c \in Cells
          PROVE  TallNeighbours(c, reference) =
                   {d \in ground \cap Neighbours(c) : MaxZ(d) - z >= FarBand[2]}
      BY <2>1, <2>3 DEF TallNeighbours
    <2>6. ASSUME NEW c \in Cells, Valid(c)
          PROVE  LET top == MaxZ(c) - z
                 IN  top >= 0 /\ top >= Band(c[2])[1] /\ top <= Band(c[2])[2] <=>
                       top \in Max({0, Band(c[2])[1]}) .. Band(c[2])[2]
      <3> DEFINE low == Band(c[2])[1]
                 high == Band(c[2])[2]
                 top == MaxZ(c) - z
      <3>1. low \in Int /\ high \in Int
        BY GridAssumption DEF Band
      <3>2. top \in Int
        BY <2>2, <2>6, HeightsOfCells
      <3>3. Max({0, low}) \in {0, low} /\ 0 <= Max({0, low}) /\ low <= Max({0, low})
        <4>1. IsFiniteSet({0, low}) /\ {0, low} \in SUBSET Int /\ {0, low} # {}
          <5> HIDE DEF low
          <5>1. {0, low} = {0} \cup {low}
            OBVIOUS
          <5>2. IsFiniteSet({0})
            BY FS_Singleton, Zenon
          <5>3. IsFiniteSet({0} \cup {low})
            BY <5>2, FS_AddElement, Zenon
          <5> QED
            BY <3>1, <5>1, <5>3
        <4> HIDE DEF low
        <4> QED
          BY <4>1, Extremes
      <3> HIDE DEF low, high, top
      <3>4. top >= 0 /\ top >= low /\ top <= high <=> top \in Max({0, low}) .. high
        BY <3>1, <3>2, <3>3
      <3> QED
        BY <3>4 DEF low, high, top
    <2>7. ASSUME NEW c \in Cells
          PROVE  LowObstacle(c, reference) <=>
                   /\ Valid(c)
                   /\ MaxZ(c) - z \in Max({0, Band(c[2])[1]}) .. Band(c[2])[2]
                   /\ MaxZ(c) - MinZ(c) >= 20
                   /\ OccupiedLayers(c) >= MinLayers
                   /\ ~Vertical(c)
      BY <2>3, <2>6 DEF LowObstacle, HeightRange
    <2> QED
      BY <2>4, <2>5, <2>7
  <1> QED
    BY <1>1, GrownInductive, MarkedInvariant, PTL
=============================================================================
