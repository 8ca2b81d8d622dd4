------------------------------- MODULE Tracker -------------------------------
(***************************************************************************)
(* SimpleTracker::update (include/track.cpp): greedy matching of the       *)
(* frame's detections to the live tracks, ageing, removal, id allocation.  *)
(*                                                                         *)
(* Positions are integers on a line and frames are one time unit apart, so *)
(* velocity is a difference of positions.  The detections come from a      *)
(* small world of objects, which lets the properties talk about what the   *)
(* ids are for: following one object over time.                            *)
(***************************************************************************)
EXTENDS Integers, Sequences, FiniteSets, Functions

CONSTANTS
  FirstId, ResetAbove, MaxCreated,       (* see TrackIds                      *)
  MaxLost,          (* 10: a track is removed when lastSeen exceeds this      *)
  MatchThreshold,   (* match_threshold: matches are strictly closer           *)
  Objects,          (* obstacles around the vehicle                           *)
  WorldSize,        (* they are at 0..WorldSize                               *)
  MaxStep,          (* the farthest an obstacle moves between two frames      *)
  Separation        (* two obstacles are never closer than this               *)

ASSUME TrackerAssumption ==
  /\ FirstId \in Nat /\ ResetAbove \in Nat /\ FirstId <= ResetAbove
  /\ MaxCreated \in Nat
  /\ MaxLost \in Nat
  /\ MatchThreshold \in Nat
  /\ WorldSize \in Nat
  /\ MaxStep \in Nat
  /\ Separation \in Nat

VARIABLES
  tracks,        (* vtrackings: creation number -> record, see TrackRecord    *)
  nextTrackID,
  created,       (* history: tracks created so far                            *)
  lapStart,      (* history: value of created when nextTrackID started over   *)
  speed,         (* environment: how far obstacles move per frame             *)
  world,         (* environment: Objects -> position                          *)
  seen           (* environment: the objects detected in the last frame       *)

vars == <<tracks, nextTrackID, created, lapStart, speed, world, seen>>

(* x, v: pos_x, vx.  lap as in TrackIds.  obj: the object whose detection   *)
(* was matched last.  steady: matched in every frame since its creation.    *)
TrackRecord == [id : Nat, lastSeen : 0..MaxLost, x : Int, v : Int,
                lap : Nat, obj : Objects, steady : BOOLEAN]

Live == DOMAIN tracks

TypeOK ==
  /\ tracks \in [Live -> TrackRecord]
  /\ Live \subseteq 1..created
  /\ nextTrackID \in Nat
  /\ created \in 0..MaxCreated
  /\ lapStart \in 0..created
  /\ speed \in {0, MaxStep}
  /\ world \in [Objects -> 0..WorldSize]
  /\ seen \subseteq Objects

Distance(a, b) == IF a > b THEN a - b ELSE b - a

-----------------------------------------------------------------------------
(* Environment: obstacles keep apart and move at most "speed" per frame. *)
Worlds == {w \in [Objects -> 0..WorldSize] :
             \A a, b \in Objects : a # b => Distance(w[a], w[b]) >= Separation}

NextWorlds == {w \in Worlds : \A o \in Objects : Distance(w[o], world[o]) <= speed}

(* The clusters of a frame: any of the objects, in any order. *)
DetectionLists ==
  {q \in UNION {[1..n -> Objects] : n \in 0..Cardinality(Objects)} : IsInjective(q)}

-----------------------------------------------------------------------------
(* The position a track is expected at, used only to compare distances. *)
Predicted(s) == tracks[s].x + tracks[s].v

(* mutant: distances from the last position, not the predicted one *)
AvailableUnpredicted(m, s, dets, w) ==
  {j \in DOMAIN dets : /\ Distance(tracks[s].x, w[dets[j]]) < MatchThreshold
                       /\ \A r \in Live : r < s => m[r] # j}

(* Detections of dets that a track may take: close enough, not yet taken    *)
(* by a track before it in the vector.                                      *)
Available(m, s, dets, w) ==
  {j \in DOMAIN dets : /\ Distance(Predicted(s), w[dets[j]]) < MatchThreshold
                       /\ \A r \in Live : r < s => m[r] # j}

(* Each track in turn takes the nearest detection still free, the first in  *)
(* the list among equally near ones; 0 stands for best_det_idx = -1.        *)
IsGreedyMatch(m, dets, w) ==
  \A s \in Live :
    LET cost(j) == Distance(Predicted(s), w[dets[j]])
        free    == Available(m, s, dets, w)
    IN  IF free = {}
        THEN m[s] = 0
        ELSE /\ m[s] \in free
             /\ \A j \in free : \/ cost(m[s]) < cost(j)
                                \/ cost(m[s]) = cost(j) /\ m[s] <= j

GreedyMatches(dets, w) ==
  {m \in [Live -> {0} \cup DOMAIN dets] : IsGreedyMatch(m, dets, w)}

(* mutant: the velocity is added up *)
MatchedFaster(t, o, p) ==
  [t EXCEPT !.x = p, !.v = @ + p - t.x, !.lastSeen = 0, !.obj = o]

(* A track that got a detection at p: the velocity is the way from where    *)
(* the track was.                                                           *)
Matched(t, o, p) == [t EXCEPT !.x = p, !.v = p - t.x, !.lastSeen = 0, !.obj = o]

Unmatched(t) == [t EXCEPT !.lastSeen = @ + 1, !.steady = FALSE]

(* The empty frame also moves the track along its velocity. *)
Coasted(t) == [Unmatched(t) EXCEPT !.x = @ + t.v]

(* mutant: removal a frame late *)
RemoveLate(f) == Restrict(f, {s \in DOMAIN f : f[s].lastSeen <= MaxLost + 1})

(* removeLostTargets *)
RemoveLost(f) == Restrict(f, {s \in DOMAIN f : f[s].lastSeen <= MaxLost})

(* mutant: the counter is not advanced between two new tracks of a frame *)
NewTrackSameId(k, o, p) ==
  [id |-> nextTrackID, lastSeen |-> 0, x |-> p, v |-> 0,
   lap |-> lapStart, obj |-> o, steady |-> TRUE]

(* The k-th track a frame appends. *)
NewTrack(k, o, p) ==
  [id |-> nextTrackID + k - 1, lastSeen |-> 0, x |-> p, v |-> 0,
   lap |-> lapStart, obj |-> o, steady |-> TRUE]

(* mutant: the smallest live id is not looked at *)
WrapIdsUnchecked(f, next) ==
  IF next > ResetAbove
  THEN nextTrackID' = FirstId /\ lapStart' = created'
  ELSE nextTrackID' = next /\ UNCHANGED lapStart

(* Step 6 of update; min_id is 100000 when there is no track, so the test   *)
(* then succeeds.                                                           *)
WrapIds(f, next) ==
  IF next > ResetAbove /\ \A s \in DOMAIN f : f[s].id >= ResetAbove + 1
  THEN nextTrackID' = FirstId /\ lapStart' = created'
  ELSE nextTrackID' = next /\ UNCHANGED lapStart

-----------------------------------------------------------------------------
Init ==
  /\ tracks = << >>
  /\ nextTrackID = FirstId
  /\ created = 0
  /\ lapStart = 0
  /\ speed \in {0, MaxStep}
  /\ world \in Worlds
  /\ seen = {}

(* update with no detection: every track coasts; no id is considered. *)
UpdateEmpty ==
  \E w \in NextWorlds :
    /\ tracks' = RemoveLost([s \in Live |-> Coasted(tracks[s])])
    /\ world' = w
    /\ seen' = {}
    /\ UNCHANGED <<nextTrackID, created, lapStart, speed>>

(* mutant: every detection is appended *)
IsWholeList(q, m, dets) ==
  /\ \A i, k \in DOMAIN q : i < k => q[i] < q[k]
  /\ Range(q) = DOMAIN dets

(* The detections no track took, in the order of the list. *)
IsUnmatchedList(q, m, dets) ==
  /\ \A i, k \in DOMAIN q : i < k => q[i] < q[k]
  /\ Range(q) = {j \in DOMAIN dets : \A s \in Live : m[s] # j}

(* update with detections: match, append a track for each unmatched         *)
(* detection, remove the lost, perhaps start the ids over.                  *)
Update(w, dets) ==
  \E m \in GreedyMatches(dets, w), n \in 0..Len(dets) :
    \E q \in [1..n -> DOMAIN dets] :
      LET fresh == (created + 1) .. (created + n)
          next(s) ==
            IF s \in fresh
            THEN NewTrack(s - created, dets[q[s - created]], w[dets[q[s - created]]])
            ELSE IF m[s] = 0
                 THEN Unmatched(tracks[s])
                 ELSE Matched(tracks[s], dets[m[s]], w[dets[m[s]]])
      IN  /\ IsUnmatchedList(q, m, dets)
          /\ created + n <= MaxCreated
          /\ created' = created + n
          /\ tracks' = RemoveLost([s \in Live \cup fresh |-> next(s)])
          /\ WrapIds(tracks', nextTrackID + n)
          /\ world' = w
          /\ seen' = Range(dets)
          /\ UNCHANGED speed

UpdateFrame ==
  \E w \in NextWorlds, dets \in DetectionLists : dets # << >> /\ Update(w, dets)

Next == UpdateEmpty \/ UpdateFrame

Spec == Init /\ [][Next]_vars

-----------------------------------------------------------------------------
(* What TrackIds sees of the tracks. *)
IdsOf == [s \in Live |-> [id |-> tracks[s].id, lap |-> tracks[s].lap]]

(***************************************************************************)
(* The id bookkeeping of update implements TrackIds: ids are given out in  *)
(* order, stay with their track for life, and start over only when every   *)
(* live id is above ResetAbove.                                            *)
(***************************************************************************)
Ids == INSTANCE TrackIds WITH ids <- IdsOf

ImplementsTrackIds == Ids!IdSpec

(***************************************************************************)
(* Two live tracks share an id only above ResetAbove and only if more than *)
(* a whole lap of ids was created between them (TrackIds!ReuseDistance,    *)
(* for the tracks of update).                                              *)
(***************************************************************************)
IdReuseDistance == Ids!ReuseDistance

(* Track r took the detection of object o in this frame, and the objects a  *)
(* track could have taken.                                                  *)
Took(r, o) == r \in Live' /\ tracks'[r].lastSeen = 0 /\ tracks'[r].obj = o

InReach(s) == {o \in seen' : Distance(Predicted(s), world'[o]) < MatchThreshold}

(***************************************************************************)
(* lastSeen starts again only for a detection within reach that no other   *)
(* track took.  A frame without one counts, whichever of the two exits of  *)
(* update it took, and only when other tracks had taken all within reach;  *)
(* the track lives on up to MaxLost such frames in a row, and the next one *)
(* removes it: never earlier, never later.                                 *)
(***************************************************************************)
LostWindow ==
  [][\A s \in Live :
       \/ \E o \in InReach(s) : Took(s, o) /\ \A r \in Live' \ {s} : ~Took(r, o)
       \/ /\ \A o \in InReach(s) : \E r \in Live \ {s} : Took(r, o)
          /\ IF s \in Live'
             THEN /\ tracks'[s].lastSeen = tracks[s].lastSeen + 1
                  /\ tracks'[s].lastSeen <= MaxLost
             ELSE tracks[s].lastSeen = MaxLost]_vars

(***************************************************************************)
(* A detection becomes a new track only if every old track close enough to *)
(* take it took another detection of the same frame (obstacles are not     *)
(* doubled next to a track that could have continued).                     *)
(***************************************************************************)
NoDoubledObstacle ==
  [][\A s \in Live', r \in Live :
        s > created /\ Distance(Predicted(r), tracks'[s].x) < MatchThreshold
          => r \in Live' /\ tracks'[r].lastSeen = 0]_vars

(***************************************************************************)
(* While the obstacles stand still, each has at most one track, and a      *)
(* track is matched whenever its obstacle is detected: the id of a         *)
(* standing obstacle survives every gap of up to MaxLost frames.           *)
(***************************************************************************)
StandingObstacleKeepsId ==
  speed = 0 => \A s, r \in Live :
    /\ tracks[s].obj = tracks[r].obj => s = r
    /\ tracks[s].obj \in seen => tracks[s].lastSeen = 0

(* The track of an obstacle matched in every frame so far is matched again  *)
(* when the obstacle is detected again, with the same obstacle.             *)
Continues(s) ==
  tracks[s].steady /\ tracks[s].obj \in seen'
    => s \in Live' /\ tracks'[s].lastSeen = 0 /\ tracks'[s].obj = tracks[s].obj

(***************************************************************************)
(* Moving obstacles keep their tracks from frame to frame as long as no    *)
(* live track is without a match: velocity prediction and the matching     *)
(* threshold then always separate the obstacles.                           *)
(***************************************************************************)
SteadyTracksContinue ==
  [][(\A s \in Live : tracks[s].steady) => \A s \in Live : Continues(s)]_vars
=============================================================================
