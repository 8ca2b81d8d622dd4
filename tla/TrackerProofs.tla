---------------------------- MODULE TrackerProofs ----------------------------
(***************************************************************************)
(* Type correctness of Tracker, that it implements TrackIds, when tracks   *)
(* end and begin, and, for obstacles far enough apart for the threshold,   *)
(* that tracks stay with their obstacles.                                  *)
(***************************************************************************)
EXTENDS Tracker, TLAPS

(***************************************************************************)
(* The record update of an unmatched track, with the new value named.      *)
(***************************************************************************)
LEMMA UnmatchedUpdate ==
  ASSUME NEW t \in TrackRecord, NEW c \in Nat, NEW u,
         u = [t EXCEPT !.lastSeen = c, !.steady = FALSE]
  PROVE  /\ u.id = t.id /\ u.lap = t.lap /\ u.lastSeen = c
         /\ c <= MaxLost => u \in TrackRecord
<1>1. u.id = t.id /\ u.lap = t.lap /\ u.lastSeen = c
  BY DEF TrackRecord
<1>2. ASSUME c \in 0..MaxLost PROVE u \in TrackRecord
  BY <1>2 DEF TrackRecord
<1> QED BY <1>1, <1>2, TrackerAssumption

(***************************************************************************)
(* What the helpers of update make of the record of a track: all but       *)
(* NewTrack leave its id and lap alone.  A track that got a detection:     *)
(***************************************************************************)
LEMMA MatchedRecord ==
  ASSUME NEW t \in TrackRecord, NEW o \in Objects, NEW p \in Int
  PROVE  /\ Matched(t, o, p) \in TrackRecord
         /\ Matched(t, o, p).id = t.id /\ Matched(t, o, p).lap = t.lap
         /\ Matched(t, o, p).lastSeen = 0
<1> DEFINE c == 0
           d == p - t.x
           u == [t EXCEPT !.x = p, !.v = d, !.lastSeen = c, !.obj = o]
<1>1. d \in Int /\ c \in 0..MaxLost
  BY TrackerAssumption DEF TrackRecord
<1>2. Matched(t, o, p) = u
  BY DEF Matched
<1> HIDE DEF c, d
<1>3. u \in TrackRecord
  BY <1>1 DEF TrackRecord
<1>4. u.id = t.id /\ u.lap = t.lap /\ u.lastSeen = c
  BY DEF TrackRecord
<1> HIDE DEF u
<1> QED BY <1>2, <1>3, <1>4 DEF c

(* A track that got nothing: one more miss. *)
LEMMA UnmatchedRecord ==
  ASSUME NEW t \in TrackRecord
  PROVE  /\ Unmatched(t).id = t.id /\ Unmatched(t).lap = t.lap
         /\ Unmatched(t).lastSeen = t.lastSeen + 1
         /\ Unmatched(t).lastSeen <= MaxLost => Unmatched(t) \in TrackRecord
<1> DEFINE c == t.lastSeen + 1
           u == [t EXCEPT !.lastSeen = c, !.steady = FALSE]
<1>1. c \in Nat
  BY TrackerAssumption DEF TrackRecord
<1>2. Unmatched(t) = u
  BY DEF Unmatched
<1> HIDE DEF c
<1>3. /\ u.id = t.id /\ u.lap = t.lap /\ u.lastSeen = c
      /\ c <= MaxLost => u \in TrackRecord
  BY <1>1, UnmatchedUpdate
<1> HIDE DEF u
<1> QED BY <1>2, <1>3 DEF c

(* A track in a frame without detections: one more miss, too. *)
LEMMA CoastedRecord ==
  ASSUME NEW t \in TrackRecord
  PROVE  /\ Coasted(t).id = t.id /\ Coasted(t).lap = t.lap
         /\ Coasted(t).lastSeen = t.lastSeen + 1
         /\ Coasted(t).lastSeen <= MaxLost => Coasted(t) \in TrackRecord
<1> DEFINE c == t.lastSeen + 1
           u == [t EXCEPT !.lastSeen = c, !.steady = FALSE]
           y == u.x + t.v
<1>1. c \in Nat
  BY TrackerAssumption DEF TrackRecord
<1>2. Coasted(t) = [u EXCEPT !.x = y]
  BY DEF Coasted, Unmatched
<1>3. u.x = t.x /\ t.x \in Int /\ t.v \in Int
  <2> HIDE DEF c
  <2> QED BY DEF TrackRecord
<1>4. y \in Int
  BY <1>3
<1> HIDE DEF c
<1>5. /\ u.id = t.id /\ u.lap = t.lap /\ u.lastSeen = c
      /\ c <= MaxLost => u \in TrackRecord
  BY <1>1, UnmatchedUpdate
<1> HIDE DEF u, y
<1>6. /\ Coasted(t).id = t.id /\ Coasted(t).lap = t.lap /\ Coasted(t).lastSeen = c
      /\ c <= MaxLost => Coasted(t) \in TrackRecord
  BY <1>2, <1>4, <1>5 DEF TrackRecord
<1> QED BY <1>6 DEF c

(* The k-th new track of a frame. *)
LEMMA NewRecord ==
  ASSUME TypeOK, NEW k \in Nat \ {0}, NEW o \in Objects, NEW p \in Int
  PROVE  /\ NewTrack(k, o, p) \in TrackRecord
         /\ NewTrack(k, o, p).id = nextTrackID + k - 1
         /\ NewTrack(k, o, p).lap = lapStart
         /\ NewTrack(k, o, p).lastSeen = 0
         /\ NewTrack(k, o, p).x = p
<1> DEFINE i == nextTrackID + k - 1
<1>1. i \in Nat /\ lapStart \in Nat /\ 0 \in 0..MaxLost
  BY TrackerAssumption DEF TypeOK
<1>2. NewTrack(k, o, p) = [id |-> i, lastSeen |-> 0, x |-> p, v |-> 0,
                           lap |-> lapStart, obj |-> o, steady |-> TRUE]
  BY DEF NewTrack
<1> HIDE DEF i
<1>3. /\ NewTrack(k, o, p) \in TrackRecord
      /\ NewTrack(k, o, p).id = i
      /\ NewTrack(k, o, p).lap = lapStart
      /\ NewTrack(k, o, p).lastSeen = 0
      /\ NewTrack(k, o, p).x = p
  BY <1>1, <1>2 DEF TrackRecord
<1> QED BY <1>3 DEF i

(***************************************************************************)
(* removeLostTargets keeps the tracks seen recently enough as they are.    *)
(***************************************************************************)
LEMMA RemovedRecords ==
  ASSUME NEW f
  PROVE  /\ DOMAIN RemoveLost(f) = {s \in DOMAIN f : f[s].lastSeen <= MaxLost}
         /\ \A s \in DOMAIN RemoveLost(f) : RemoveLost(f)[s] = f[s]
         /\ RemoveLost(f) = [s \in DOMAIN RemoveLost(f) |-> RemoveLost(f)[s]]
  BY DEF RemoveLost, Restrict
(***************************************************************************)
(* The positions of a frame are integers, whatever the order of the list.  *)
(***************************************************************************)
LEMMA DetectionPlaces ==
  ASSUME NEW w \in NextWorlds, NEW dets \in DetectionLists, NEW j \in DOMAIN dets
  PROVE  dets[j] \in Objects /\ w[dets[j]] \in Int
<1>1. w \in [Objects -> 0..WorldSize]
  BY DEF NextWorlds, Worlds
<1>2. PICK n \in 0..Cardinality(Objects) : dets \in [1..n -> Objects]
  BY DEF DetectionLists
<1>3. dets[j] \in Objects
  BY <1>2
<1> QED BY <1>1, <1>3, TrackerAssumption

Appended(n) == (created + 1) .. (created + n)

(* The records before the lost are removed, when m matched and q lists the  *)
(* n detections that nothing matched; and a frame with that outcome.        *)
RecordsWith(m, n, q, w, dets) ==
  [s \in Live \cup Appended(n) |->
     IF s \in Appended(n)
     THEN NewTrack(s - created, dets[q[s - created]], w[dets[q[s - created]]])
     ELSE IF m[s] = 0
          THEN Unmatched(tracks[s])
          ELSE Matched(tracks[s], dets[m[s]], w[dets[m[s]]])]

UpdateWith(m, n, q, w, dets) ==
  /\ IsUnmatchedList(q, m, dets)
  /\ created + n <= MaxCreated
  /\ created' = created + n
  /\ tracks' = RemoveLost(RecordsWith(m, n, q, w, dets))
  /\ WrapIds(tracks', nextTrackID + n)
  /\ world' = w /\ seen' = Range(dets) /\ speed' = speed

(* What is left of a frame that appended n tracks: the records f.           *)
RecordsAfter(f, n) ==
  /\ Appended(n) \subseteq DOMAIN f
  /\ f = [s \in DOMAIN f |-> f[s]]
  /\ \A s \in Live : IF s \in DOMAIN f
                     THEN f[s].lastSeen \in {0, tracks[s].lastSeen + 1}
                     ELSE tracks[s].lastSeen = MaxLost
  /\ \A s \in Appended(n), r \in Live :
       Distance(Predicted(r), f[s].x) < MatchThreshold
         => r \in DOMAIN f /\ f[r].lastSeen = 0
  /\ \A s \in DOMAIN f :
       /\ f[s] \in TrackRecord
       /\ \/ s \in Appended(n) /\ f[s].id = nextTrackID + (s - created) - 1 /\ f[s].lap = lapStart
          \/ s \in Live /\ s \notin Appended(n) /\ f[s].id = tracks[s].id /\ f[s].lap = tracks[s].lap

(***************************************************************************)
(* What update leaves: old tracks with their ids and a count of misses,    *)
(* and the new ones, none of which is lost at once or next to an old track *)
(* that found nothing.                                                     *)
(***************************************************************************)
LEMMA UpdateRecords ==
  ASSUME TypeOK, NEW w \in NextWorlds, NEW dets \in DetectionLists, Update(w, dets)
  PROVE  \E n \in Nat :
           /\ created + n <= MaxCreated
           /\ created' = created + n
           /\ RecordsAfter(tracks', n)
           /\ WrapIds(tracks', nextTrackID + n)
           /\ world' = w /\ seen' = Range(dets) /\ speed' = speed
<1>1. PICK m \in GreedyMatches(dets, w), n \in 0..Len(dets) :
       \E q \in [1..n -> DOMAIN dets] : UpdateWith(m, n, q, w, dets)
  BY DEF Update, UpdateWith, RecordsWith, Appended
<1>2. PICK q \in [1..n -> DOMAIN dets] : UpdateWith(m, n, q, w, dets)
  BY <1>1
<1> DEFINE f == RecordsWith(m, n, q, w, dets)
<1>3. n \in Nat /\ created \in Nat
  BY DEF TypeOK
<1>4. ASSUME NEW s \in Appended(n)
      PROVE  /\ f[s] \in TrackRecord /\ f[s].lastSeen = 0
             /\ f[s].x = w[dets[q[s - created]]]
             /\ f[s].id = nextTrackID + (s - created) - 1 /\ f[s].lap = lapStart
  <2> DEFINE k == s - created
  <2>1. k \in Nat \ {0} /\ k \in 1..n
    BY <1>3 DEF Appended
  <2>2. q[k] \in DOMAIN dets
    BY <2>1
  <2>3. f[s] = NewTrack(k, dets[q[k]], w[dets[q[k]]])
    BY DEF RecordsWith
  <2> HIDE DEF f, k
  <2>4. dets[q[k]] \in Objects /\ w[dets[q[k]]] \in Int
    BY <2>2, DetectionPlaces
  <2> DEFINE r == NewTrack(k, dets[q[k]], w[dets[q[k]]])
  <2>5. /\ r \in TrackRecord /\ r.lastSeen = 0 /\ r.x = w[dets[q[k]]]
        /\ r.id = nextTrackID + k - 1 /\ r.lap = lapStart
    BY <2>1, <2>4, NewRecord
  <2> HIDE DEF r
  <2> QED BY <2>3, <2>5 DEF k, r
<1>5. ASSUME NEW s \in Live, s \notin Appended(n)
      PROVE  /\ f[s].id = tracks[s].id /\ f[s].lap = tracks[s].lap
             /\ f[s].lastSeen \in {0, tracks[s].lastSeen + 1}
             /\ m[s] # 0 => f[s].lastSeen = 0
             /\ f[s].lastSeen <= MaxLost => f[s] \in TrackRecord
  <2>1. tracks[s] \in TrackRecord
    BY DEF TypeOK
  <2>2. CASE m[s] = 0
    <3>1. f[s] = Unmatched(tracks[s])
      BY <1>5, <2>2 DEF RecordsWith
    <3> HIDE DEF f
    <3> QED BY <2>1, <2>2, <3>1, UnmatchedRecord
  <2>3. CASE m[s] # 0
    <3>1. f[s] = Matched(tracks[s], dets[m[s]], w[dets[m[s]]])
      BY <1>5, <2>3 DEF RecordsWith
    <3>2. m[s] \in DOMAIN dets
      BY <2>3 DEF GreedyMatches
    <3>3. dets[m[s]] \in Objects /\ w[dets[m[s]]] \in Int
      BY <3>2, DetectionPlaces
    <3> DEFINE r == Matched(tracks[s], dets[m[s]], w[dets[m[s]]])
    <3>4. /\ r \in TrackRecord
          /\ r.id = tracks[s].id /\ r.lap = tracks[s].lap /\ r.lastSeen = 0
      BY <2>1, <3>3, MatchedRecord
    <3> HIDE DEF f
    <3> QED BY <3>1, <3>4
  <2> QED BY <2>2, <2>3
<1>6. DOMAIN f = Live \cup Appended(n)
  BY DEF RecordsWith
<1>7. tracks' = RemoveLost(f)
  BY <1>2 DEF UpdateWith
<1> HIDE DEF f
<1>8. /\ DOMAIN tracks' = {s \in Live \cup Appended(n) : f[s].lastSeen <= MaxLost}
      /\ \A s \in DOMAIN tracks' : tracks'[s] = f[s]
      /\ tracks' = [s \in DOMAIN tracks' |-> tracks'[s]]
  BY <1>6, <1>7, RemovedRecords
<1>9. Appended(n) \subseteq DOMAIN tracks'
  BY <1>4, <1>8, TrackerAssumption
<1>10. ASSUME NEW s \in DOMAIN tracks'
       PROVE  /\ tracks'[s] \in TrackRecord
              /\ \/ /\ s \in Appended(n)
                    /\ tracks'[s].id = nextTrackID + (s - created) - 1
                    /\ tracks'[s].lap = lapStart
                 \/ /\ s \in Live /\ s \notin Appended(n)
                    /\ tracks'[s].id = tracks[s].id /\ tracks'[s].lap = tracks[s].lap
  <2>1. tracks'[s] = f[s] /\ f[s].lastSeen <= MaxLost /\ s \in Live \cup Appended(n)
    BY <1>8
  <2>2. CASE s \in Appended(n)
    BY <2>1, <2>2, <1>4
  <2>3. CASE s \in Live /\ s \notin Appended(n)
    BY <2>1, <2>3, <1>5
  <2> QED BY <2>1, <2>2, <2>3
<1>11. ASSUME NEW s \in Live
       PROVE  IF s \in DOMAIN tracks'
              THEN tracks'[s].lastSeen \in {0, tracks[s].lastSeen + 1}
              ELSE tracks[s].lastSeen = MaxLost
  <2>1. s \notin Appended(n) /\ tracks[s].lastSeen \in 0..MaxLost
    BY <1>3 DEF Appended, TypeOK, TrackRecord
  <2>2. f[s].lastSeen \in {0, tracks[s].lastSeen + 1}
    BY <2>1, <1>5
  <2> QED BY <2>1, <2>2, <1>8, TrackerAssumption
<1>12. ASSUME NEW s \in Appended(n), NEW r \in Live,
              Distance(Predicted(r), tracks'[s].x) < MatchThreshold
       PROVE  r \in DOMAIN tracks' /\ tracks'[r].lastSeen = 0
  <2> DEFINE j == q[s - created]
  <2>1. s - created \in 1..n
    BY <1>3 DEF Appended
  <2>2. j \in DOMAIN dets /\ \A t \in Live : m[t] # j
    BY <1>2, <2>1 DEF UpdateWith, IsUnmatchedList, Range
  <2>3. tracks'[s].x = w[dets[j]]
    BY <1>4, <1>8, <1>9
  <2> HIDE DEF j
  <2>4. j \in Available(m, r, dets, w)
    BY <1>12, <2>2, <2>3 DEF Available
  <2>5. m[r] \in DOMAIN dets
    BY <2>4 DEF GreedyMatches, IsGreedyMatch, Available
  <2>6. 0 \notin DOMAIN dets
    BY DEF DetectionLists
  <2>7. r \notin Appended(n)
    BY <1>3 DEF Appended, TypeOK
  <2>8. f[r].lastSeen = 0
    BY <1>5, <2>5, <2>6, <2>7
  <2> QED BY <1>8, <2>8, TrackerAssumption
<1>13. RecordsAfter(tracks', n)
  BY <1>8, <1>9, <1>10, <1>11, <1>12 DEF RecordsAfter
<1> QED BY <1>2, <1>3, <1>13 DEF UpdateWith
(***************************************************************************)
(* The frame without detections appends nothing and keeps the ids.         *)
(***************************************************************************)
LEMMA EmptyRecords ==
  ASSUME TypeOK, UpdateEmpty
  PROVE  RecordsAfter(tracks', 0)
<1> DEFINE f == [s \in Live |-> Coasted(tracks[s])]
<1>1. tracks' = RemoveLost(f) /\ DOMAIN f = Live
  BY DEF UpdateEmpty
<1>2. Appended(0) = {}
  BY DEF Appended, TypeOK
<1>3. ASSUME NEW s \in Live
      PROVE  /\ f[s].id = tracks[s].id /\ f[s].lap = tracks[s].lap
             /\ f[s].lastSeen = tracks[s].lastSeen + 1
             /\ tracks[s].lastSeen \in 0..MaxLost
             /\ f[s].lastSeen <= MaxLost => f[s] \in TrackRecord
  <2>1. tracks[s] \in TrackRecord /\ f[s] = Coasted(tracks[s])
    BY DEF TypeOK
  <2> HIDE DEF f
  <2>2. tracks[s].lastSeen \in 0..MaxLost
    BY <2>1 DEF TrackRecord
  <2> QED BY <2>1, <2>2, CoastedRecord
<1> HIDE DEF f
<1>4. /\ DOMAIN tracks' = {s \in Live : f[s].lastSeen <= MaxLost}
      /\ \A s \in DOMAIN tracks' : tracks'[s] = f[s]
      /\ tracks' = [s \in DOMAIN tracks' |-> tracks'[s]]
  BY <1>1, RemovedRecords
<1>5. \A s \in Live : IF s \in DOMAIN tracks'
                     THEN tracks'[s].lastSeen \in {0, tracks[s].lastSeen + 1}
                     ELSE tracks[s].lastSeen = MaxLost
  BY <1>3, <1>4, TrackerAssumption
<1> QED BY <1>2, <1>3, <1>4, <1>5 DEF RecordsAfter

(* The id counter after n tracks were appended: it goes on or starts over.  *)
CounterAfter(n) ==
  \/ nextTrackID' = nextTrackID + n /\ lapStart' = lapStart
  \/ /\ nextTrackID + n > ResetAbove
     /\ \A s \in DOMAIN tracks' : tracks'[s].id > ResetAbove
     /\ nextTrackID' = FirstId /\ lapStart' = created'

(***************************************************************************)
(* Both exits of update, and what they leave of the environment.           *)
(***************************************************************************)
LEMMA StepRecords ==
  ASSUME TypeOK, Next
  PROVE  /\ \E n \in Nat : /\ created + n <= MaxCreated /\ created' = created + n
                          /\ RecordsAfter(tracks', n) /\ CounterAfter(n)
         /\ world' \in Worlds /\ seen' \subseteq Objects /\ speed' = speed
<1>1. CASE UpdateEmpty
  <2>1. /\ created + 0 <= MaxCreated /\ created' = created + 0
        /\ nextTrackID' = nextTrackID + 0 /\ lapStart' = lapStart
    BY <1>1, TrackerAssumption DEF UpdateEmpty, TypeOK
  <2>2. world' \in Worlds /\ seen' \subseteq Objects /\ speed' = speed
    BY <1>1 DEF UpdateEmpty, NextWorlds
  <2> QED BY <1>1, <2>1, <2>2, EmptyRecords DEF CounterAfter
<1>2. CASE UpdateFrame
  <2>1. PICK w \in NextWorlds, dets \in DetectionLists : Update(w, dets)
    BY <1>2 DEF UpdateFrame
  <2>2. PICK n \in Nat :
          /\ created + n <= MaxCreated /\ created' = created + n
          /\ RecordsAfter(tracks', n) /\ WrapIds(tracks', nextTrackID + n)
          /\ world' = w /\ seen' = Range(dets) /\ speed' = speed
    BY <2>1, UpdateRecords
  <2>3. CounterAfter(n)
    <3>1. \A s \in DOMAIN tracks' : tracks'[s].id \in Nat
      BY <2>2 DEF RecordsAfter, TrackRecord
    <3>2. CASE nextTrackID + n > ResetAbove /\ \A s \in DOMAIN tracks' : tracks'[s].id >= ResetAbove + 1
      BY <3>1, <3>2, <2>2, TrackerAssumption DEF WrapIds, CounterAfter
    <3>3. CASE ~(nextTrackID + n > ResetAbove /\ \A s \in DOMAIN tracks' : tracks'[s].id >= ResetAbove + 1)
      BY <3>3, <2>2 DEF WrapIds, CounterAfter
    <3> QED BY <3>2, <3>3
  <2>4. Range(dets) \subseteq Objects
    BY DetectionPlaces, <2>1 DEF Range
  <2>5. w \in Worlds
    BY DEF NextWorlds
  <2> QED BY <2>2, <2>3, <2>4, <2>5
<1> QED BY <1>1, <1>2 DEF Next

(***************************************************************************)
(* No track exists at the start, and an object is somewhere in the world.  *)
(***************************************************************************)
LEMMA InitTypeOK == Init => TypeOK
  BY TrackerAssumption DEF Init, TypeOK, Live, Worlds

(***************************************************************************)
(* A step of update keeps the types: in particular lastSeen never exceeds  *)
(* MaxLost, for the tracks that would are removed.                         *)
(***************************************************************************)
LEMMA StepTypeOK ==
  ASSUME TypeOK, Next
  PROVE  TypeOK'
<1>1. PICK n \in Nat : /\ created + n <= MaxCreated /\ created' = created + n
                      /\ RecordsAfter(tracks', n) /\ CounterAfter(n)
  BY StepRecords
<1>2. world' \in Worlds /\ seen' \subseteq Objects /\ speed' = speed
  BY StepRecords
<1>3. tracks' \in [DOMAIN tracks' -> TrackRecord]
  BY <1>1 DEF RecordsAfter
<1>4. DOMAIN tracks' \subseteq 1..created'
  BY <1>1 DEF RecordsAfter, Appended, TypeOK
<1>5. /\ nextTrackID' \in Nat /\ created' \in 0..MaxCreated /\ lapStart' \in 0..created'
  BY <1>1, TrackerAssumption DEF CounterAfter, TypeOK
<1> QED BY <1>2, <1>3, <1>4, <1>5 DEF TypeOK, Live, Worlds

(***************************************************************************)
(* Every reachable state of the tracker has the types it should.           *)
(***************************************************************************)
THEOREM TypeCorrect == Spec => []TypeOK
<1>1. TypeOK /\ [Next]_vars => TypeOK'
  <2>1. ASSUME TypeOK, UNCHANGED vars PROVE TypeOK'
    BY <2>1 DEF vars, TypeOK, Live
  <2> QED BY <2>1, StepTypeOK
<1> QED BY InitTypeOK, <1>1, PTL DEF Spec
(***************************************************************************)
(* A detection becomes a new track only if every old track that could have *)
(* taken it took another one, whatever the order of tracks and detections. *)
(***************************************************************************)
THEOREM NoDoubling == Spec => NoDoubledObstacle
<1>1. TypeOK /\ [Next]_vars =>
        [\A s \in Live', r \in Live :
           s > created /\ Distance(Predicted(r), tracks'[s].x) < MatchThreshold
             => r \in Live' /\ tracks'[r].lastSeen = 0]_vars
  <2> SUFFICES ASSUME TypeOK, Next, NEW s \in Live', NEW r \in Live, s > created,
                      Distance(Predicted(r), tracks'[s].x) < MatchThreshold
               PROVE  r \in Live' /\ tracks'[r].lastSeen = 0
    OBVIOUS
  <2>1. PICK n \in Nat : RecordsAfter(tracks', n)
    BY StepRecords
  <2>2. s \in Appended(n)
    BY <2>1 DEF RecordsAfter, Live, TypeOK
  <2> QED BY <2>1, <2>2 DEF RecordsAfter, Live
<1> QED BY <1>1, TypeCorrect, PTL DEF Spec, NoDoubledObstacle

-----------------------------------------------------------------------------
(***************************************************************************)
(* The empty vector is TrackIds' empty map.                                *)
(***************************************************************************)
LEMMA InitImplements == Init => Ids!IdInit
  BY DEF Init, Ids!IdInit, IdsOf, Live

(***************************************************************************)
(* A call of update is one frame of TrackIds: the tracks that stay are     *)
(* those not appended.                                                     *)
(***************************************************************************)
LEMMA StepImplements ==
  ASSUME TypeOK, Next
  PROVE  Ids!IdNext
<1>1. PICK n \in Nat : /\ created + n <= MaxCreated /\ created' = created + n
                      /\ RecordsAfter(tracks', n) /\ CounterAfter(n)
  BY StepRecords
<1> DEFINE kept == DOMAIN tracks' \ Appended(n)
<1>2. /\ n \in 0 .. (MaxCreated - created) /\ created \in Nat
      /\ Live \subseteq 1..created
  BY <1>1, TrackerAssumption DEF TypeOK
<1>3. kept \subseteq Live
  BY <1>1 DEF RecordsAfter
<1>4. kept \cup Appended(n) = DOMAIN tracks'
  BY <1>1 DEF RecordsAfter
<1>5. ASSUME NEW s \in DOMAIN tracks'
      PROVE  IdsOf'[s] = IF s \in Appended(n)
                         THEN [id |-> Ids!NewId(s - created), lap |-> lapStart]
                         ELSE IdsOf[s]
  <2>1. IdsOf'[s] = [id |-> tracks'[s].id, lap |-> tracks'[s].lap]
    BY DEF IdsOf, Live
  <2>2. CASE s \in Appended(n)
    <3>1. tracks'[s].id = nextTrackID + (s - created) - 1 /\ tracks'[s].lap = lapStart
      BY <1>1, <2>2 DEF RecordsAfter
    <3>2. tracks'[s].id = Ids!NewId(s - created)
      BY <3>1 DEF Ids!NewId
    <3> QED BY <2>1, <2>2, <3>1, <3>2, Zenon
  <2>3. CASE s \notin Appended(n)
    <3>1. s \in Live /\ tracks'[s].id = tracks[s].id /\ tracks'[s].lap = tracks[s].lap
      BY <1>1, <2>3 DEF RecordsAfter
    <3>2. IdsOf[s] = [id |-> tracks[s].id, lap |-> tracks[s].lap]
      BY <3>1 DEF IdsOf
    <3> QED BY <2>1, <2>3, <3>1, <3>2, Zenon
  <2> QED BY <2>2, <2>3
<1>6. IdsOf' = [s \in kept \cup Appended(n) |->
                  IF s \in Appended(n)
                  THEN [id |-> Ids!NewId(s - created), lap |-> lapStart]
                  ELSE IdsOf[s]]
  <2>1. IdsOf' = [s \in DOMAIN tracks' |-> IdsOf'[s]]
    BY DEF IdsOf, Live
  <2> QED BY <2>1, <1>4, <1>5
<1>7. \/ nextTrackID' = nextTrackID + n /\ lapStart' = lapStart
      \/ /\ nextTrackID + n > ResetAbove
         /\ \A s \in DOMAIN IdsOf' : IdsOf'[s].id > ResetAbove
         /\ nextTrackID' = FirstId /\ lapStart' = created'
  BY <1>1 DEF CounterAfter, IdsOf, Live
<1>8. Ids!IdFrame(kept, n)
  BY <1>1, <1>6, <1>7 DEF Ids!IdFrame, Ids!MayStartOver, IdsOf, Appended
<1> QED BY <1>2, <1>3, <1>8 DEF Ids!IdNext, IdsOf, Live

(***************************************************************************)
(* The tracker implements TrackIds, whatever the objects, the threshold,   *)
(* the ids and the number of frames a track may be lost.                   *)
(***************************************************************************)
THEOREM Implementation == Spec => ImplementsTrackIds
<1>1. TypeOK /\ [Next]_vars => [Ids!IdNext]_(Ids!idVars)
  <2>1. ASSUME UNCHANGED vars PROVE UNCHANGED Ids!idVars
    BY <2>1 DEF vars, Ids!idVars, IdsOf, Live
  <2> QED BY <2>1, StepImplements
<1> QED BY InitImplements, <1>1, TypeCorrect, PTL DEF Spec, ImplementsTrackIds, Ids!IdSpec
(***************************************************************************)
(* What is proved about TrackIds, for the ids of the tracker.              *)
(***************************************************************************)
Proved == INSTANCE TrackIdsProofs WITH ids <- IdsOf

(***************************************************************************)
(* Two live tracks of the tracker share an id only above ResetAbove and    *)
(* only more than a whole lap of ids apart, for all values of the          *)
(* constants.                                                              *)
(***************************************************************************)
THEOREM ReuseOfIds == Spec => []IdReuseDistance
<1>1. Ids!IdInit => Proved!IdInit
  BY DEF Ids!IdInit, Proved!IdInit
<1>2. [Ids!IdNext]_(Ids!idVars) => [Proved!IdNext]_(Proved!idVars)
  BY DEF Ids!IdNext, Ids!idVars, Proved!IdNext, Proved!idVars, Ids!IdFrame, Proved!IdFrame,
         Ids!NewId, Proved!NewId, Ids!MayStartOver, Proved!MayStartOver
<1>3. Proved!ReuseDistance => IdReuseDistance
  BY DEF IdReuseDistance, Ids!ReuseDistance, Proved!ReuseDistance, Ids!LapLength, Proved!LapLength
<1>4. Proved!IdSpec => []Proved!ReuseDistance
  BY Proved!IdReuse, TrackerAssumption DEF Proved!IdAssumption
<1>5. ImplementsTrackIds => Proved!IdSpec
  BY <1>1, <1>2, PTL DEF ImplementsTrackIds, Ids!IdSpec, Proved!IdSpec
<1>6. []Proved!ReuseDistance => []IdReuseDistance
  BY <1>3, PTL
<1> QED
  BY <1>4, <1>5, <1>6, Implementation, PTL

-----------------------------------------------------------------------------
(* Which obstacle a track follows.                                          *)

(***************************************************************************)
(* The place, velocity and obstacle in the record of a track that got a    *)
(* detection, that got none, and of one in an empty frame.                 *)
(***************************************************************************)
LEMMA MatchedPlace ==
  ASSUME NEW t \in TrackRecord, NEW o, NEW p
  PROVE  /\ Matched(t, o, p).x = p /\ Matched(t, o, p).v = p - t.x
         /\ Matched(t, o, p).obj = o /\ Matched(t, o, p).steady = t.steady
         /\ Matched(t, o, p).lastSeen = 0
<1> DEFINE d == p - t.x
           u == [t EXCEPT !.x = p, !.v = d, !.lastSeen = 0, !.obj = o]
<1>1. Matched(t, o, p) = u
  BY DEF Matched
<1> HIDE DEF d
<1>2. u.x = p /\ u.v = d /\ u.obj = o /\ u.steady = t.steady /\ u.lastSeen = 0
  BY DEF TrackRecord
<1> HIDE DEF u
<1> QED BY <1>1, <1>2 DEF d

LEMMA UnmatchedPlace ==
  ASSUME NEW t \in TrackRecord
  PROVE  /\ Unmatched(t).x = t.x /\ Unmatched(t).v = t.v
         /\ Unmatched(t).obj = t.obj /\ Unmatched(t).steady = FALSE
<1> DEFINE c == t.lastSeen + 1
           u == [t EXCEPT !.lastSeen = c, !.steady = FALSE]
<1>1. Unmatched(t) = u
  BY DEF Unmatched
<1> HIDE DEF c
<1>2. u.x = t.x /\ u.v = t.v /\ u.obj = t.obj /\ u.steady = FALSE
  BY DEF TrackRecord
<1> HIDE DEF u
<1> QED BY <1>1, <1>2

LEMMA CoastedPlace ==
  ASSUME NEW t \in TrackRecord
  PROVE  /\ Coasted(t).x = t.x + t.v /\ Coasted(t).v = t.v
         /\ Coasted(t).obj = t.obj /\ Coasted(t).steady = FALSE
<1> DEFINE c == t.lastSeen + 1
           u == [t EXCEPT !.lastSeen = c, !.steady = FALSE]
           y == u.x + t.v
<1>1. Coasted(t) = [u EXCEPT !.x = y]
  BY DEF Coasted, Unmatched
<1> HIDE DEF c
<1>2. u.x = t.x /\ u.v = t.v /\ u.obj = t.obj /\ u.steady = FALSE
  BY DEF TrackRecord
<1> DEFINE r == [u EXCEPT !.x = y]
<1>3. r.v = u.v /\ r.obj = u.obj /\ r.steady = u.steady
  <2> HIDE DEF y
  <2> QED BY DEF TrackRecord
<1>4. r.x = y
  <2> HIDE DEF y
  <2> QED BY DEF TrackRecord
<1> HIDE DEF u, r
<1> QED BY <1>1, <1>2, <1>3, <1>4 DEF y, r

(* Obstacles too far apart for a track to take another one's detection, and *)
(* none so fast that its track, wherever it expects it, loses it.           *)
ApartAt(step) == 2 * step < MatchThreshold /\ MatchThreshold + 2 * step <= Separation
ObstaclesApart == ApartAt(speed)

(* A track whose obstacle is known: matched in every frame so far, or that  *)
(* of a world that stands still.                                            *)
Sure(s) == tracks[s].steady \/ speed = 0

TrackedInv ==
  /\ world \in Worlds
  /\ \A s \in Live : Sure(s) => /\ tracks[s].x = world[tracks[s].obj]
                                /\ Distance(tracks[s].v, 0) <= speed
  /\ \A s, r \in Live : Sure(s) /\ Sure(r) /\ tracks[s].obj = tracks[r].obj => s = r
  /\ speed = 0 => \A s \in Live : tracks[s].obj \in seen => tracks[s].lastSeen = 0

(***************************************************************************)
(* A sure track is near the detection of its own obstacle and no other.    *)
(***************************************************************************)
LEMMA OwnIsNear ==
  ASSUME TypeOK, TrackedInv, ObstaclesApart, NEW w \in NextWorlds, NEW o \in Objects,
         NEW s \in Live, Sure(s)
  PROVE  Distance(Predicted(s), w[o]) < MatchThreshold <=> o = tracks[s].obj
<1> DEFINE a == tracks[s].obj
<1>1. a \in Objects /\ tracks[s].v \in Int /\ tracks[s].x = world[a]
      /\ Distance(tracks[s].v, 0) <= speed
  BY DEF TypeOK, TrackRecord, TrackedInv
<1>2. world[a] \in Int /\ w[a] \in Int /\ w[o] \in Int /\ Distance(w[a], world[a]) <= speed
      /\ (o # a => Distance(w[o], w[a]) >= Separation)
  BY <1>1 DEF TypeOK, NextWorlds, Worlds
<1>3. speed \in Nat /\ MatchThreshold \in Nat /\ Separation \in Nat
  BY TrackerAssumption DEF TypeOK
<1>4. Predicted(s) = world[a] + tracks[s].v
  BY <1>1 DEF Predicted
<1> HIDE DEF a
<1> DEFINE v == tracks[s].v
           y == world[a]
           z == w[a]
           u == w[o]
<1>5. /\ v \in Int /\ y \in Int /\ z \in Int /\ u \in Int
      /\ -speed <= v /\ v <= speed /\ -speed <= z - y /\ z - y <= speed
  BY <1>1, <1>2, <1>3 DEF Distance
<1>6. o = a => u = z
  OBVIOUS
<1>7. o # a => u - z >= Separation \/ z - u >= Separation
  BY <1>2 DEF Distance
<1>8. Predicted(s) = y + v
  BY <1>4
<1> HIDE DEF v, y, z, u
<1>9. CASE o = a
  <2>1. Distance(y + v, u) < MatchThreshold
    BY <1>3, <1>5, <1>6, <1>9 DEF Distance, ObstaclesApart, ApartAt
  <2> QED BY <1>8, <1>9, <2>1 DEF a, u
<1>10. CASE o # a
  <2>1. ~ (Distance(y + v, u) < MatchThreshold)
    BY <1>3, <1>5, <1>7, <1>10 DEF Distance, ObstaclesApart, ApartAt
  <2> QED BY <1>8, <1>10, <2>1 DEF a, u
<1> QED BY <1>9, <1>10

(* The three ways a track comes out of a frame with detections.             *)
Appears(s, n, q, w, dets) ==
  LET j == q[s - created]
  IN  /\ s \in Appended(n) /\ s - created \in 1..n
      /\ tracks'[s].obj = dets[j] /\ tracks'[s].x = w[dets[j]]
      /\ tracks'[s].v = 0 /\ tracks'[s].lastSeen = 0
Follows(s, m, w, dets) ==
  /\ s \in Live /\ m[s] \in DOMAIN dets
  /\ tracks'[s].obj = dets[m[s]] /\ tracks'[s].x = w[dets[m[s]]]
  /\ tracks'[s].v = w[dets[m[s]]] - tracks[s].x
  /\ tracks'[s].steady = tracks[s].steady /\ tracks'[s].lastSeen = 0
Misses(s, m) ==
  /\ s \in Live /\ m[s] = 0
  /\ tracks'[s].obj = tracks[s].obj /\ tracks'[s].x = tracks[s].x
  /\ tracks'[s].v = tracks[s].v /\ tracks'[s].steady = FALSE

(* A miss more, or the end after the last one allowed.                      *)
Counts(s) ==
  IF s \in Live'
  THEN tracks'[s].lastSeen = tracks[s].lastSeen + 1 /\ tracks'[s].lastSeen <= MaxLost
  ELSE tracks[s].lastSeen = MaxLost

LEMMA FrameOutcome ==
  ASSUME TypeOK, NEW w \in NextWorlds, NEW dets \in DetectionLists,
         NEW m \in GreedyMatches(dets, w), NEW n \in 0..Len(dets),
         NEW q \in [1..n -> DOMAIN dets], UpdateWith(m, n, q, w, dets)
  PROVE  /\ \A s \in DOMAIN tracks' :
              Appears(s, n, q, w, dets) \/ Follows(s, m, w, dets) \/ Misses(s, m)
         /\ \A s \in Live : m[s] # 0 => s \in DOMAIN tracks' /\ Follows(s, m, w, dets)
         /\ \A s \in Live : m[s] = 0 => Counts(s)
<1> DEFINE f == RecordsWith(m, n, q, w, dets)
<1>1. n \in Nat /\ created \in Nat /\ Live \subseteq 1..created
  BY DEF TypeOK
<1>2. DOMAIN f = Live \cup Appended(n) /\ tracks' = RemoveLost(f)
  BY DEF RecordsWith, UpdateWith
<1>3. ASSUME NEW s \in Appended(n)
      PROVE  /\ s - created \in 1..n /\ f[s].obj = dets[q[s - created]]
             /\ f[s].x = w[dets[q[s - created]]] /\ f[s].v = 0 /\ f[s].lastSeen = 0
  <2>1. f[s] = NewTrack(s - created, dets[q[s - created]], w[dets[q[s - created]]])
    BY DEF RecordsWith
  <2>2. s - created \in 1..n
    BY <1>1 DEF Appended
  <2> HIDE DEF f
  <2> QED BY <2>1, <2>2 DEF NewTrack
<1>4. ASSUME NEW s \in Live, m[s] # 0
      PROVE  /\ m[s] \in DOMAIN dets /\ f[s].obj = dets[m[s]] /\ f[s].x = w[dets[m[s]]]
             /\ f[s].v = w[dets[m[s]]] - tracks[s].x
             /\ f[s].steady = tracks[s].steady /\ f[s].lastSeen = 0
  <2>1. s \notin Appended(n) /\ tracks[s] \in TrackRecord
    BY <1>1 DEF Appended, TypeOK
  <2>2. f[s] = Matched(tracks[s], dets[m[s]], w[dets[m[s]]])
    BY <1>4, <2>1 DEF RecordsWith
  <2>3. m[s] \in DOMAIN dets
    BY <1>4 DEF GreedyMatches
  <2> HIDE DEF f
  <2> QED BY <2>1, <2>2, <2>3, MatchedPlace
<1>5. ASSUME NEW s \in Live, m[s] = 0
      PROVE  /\ f[s].obj = tracks[s].obj /\ f[s].x = tracks[s].x
             /\ f[s].v = tracks[s].v /\ f[s].steady = FALSE
             /\ f[s].lastSeen = tracks[s].lastSeen + 1 /\ tracks[s].lastSeen \in 0..MaxLost
  <2>1. s \notin Appended(n) /\ tracks[s] \in TrackRecord
    BY <1>1 DEF Appended, TypeOK
  <2>2. f[s] = Unmatched(tracks[s])
    BY <1>5, <2>1 DEF RecordsWith
  <2> HIDE DEF f
  <2>3. tracks[s].lastSeen \in 0..MaxLost
    BY <2>1 DEF TrackRecord
  <2> QED BY <2>1, <2>2, <2>3, UnmatchedPlace, UnmatchedRecord
<1> HIDE DEF f
<1>6. /\ DOMAIN tracks' = {s \in Live \cup Appended(n) : f[s].lastSeen <= MaxLost}
      /\ \A s \in DOMAIN tracks' : tracks'[s] = f[s]
  BY <1>2, RemovedRecords
<1>7. \A s \in Live : m[s] # 0 => s \in DOMAIN tracks' /\ Follows(s, m, w, dets)
  BY <1>4, <1>6, TrackerAssumption DEF Follows
<1>8. ASSUME NEW s \in DOMAIN tracks'
      PROVE  Appears(s, n, q, w, dets) \/ Follows(s, m, w, dets) \/ Misses(s, m)
  <2>1. CASE s \in Appended(n)
    BY <1>3, <1>6, <2>1 DEF Appears
  <2>2. CASE s \in Live /\ m[s] # 0
    BY <1>7, <2>2
  <2>3. CASE s \in Live /\ m[s] = 0
    BY <1>5, <1>6, <2>3 DEF Misses
  <2> QED BY <1>6, <2>1, <2>2, <2>3
<1>9. ASSUME NEW s \in Live, m[s] = 0 PROVE Counts(s)
  <2>1. /\ f[s].lastSeen = tracks[s].lastSeen + 1
        /\ tracks[s].lastSeen \in 0..MaxLost /\ MaxLost \in Nat
    BY <1>5, <1>9, TrackerAssumption
  <2>2. s \in DOMAIN tracks' <=> f[s].lastSeen <= MaxLost
    BY <1>6
  <2>3. CASE s \in DOMAIN tracks'
    BY <1>6, <2>1, <2>2, <2>3 DEF Counts, Live
  <2>4. CASE s \notin DOMAIN tracks'
    BY <2>1, <2>2, <2>4 DEF Counts, Live
  <2> QED BY <2>3, <2>4
<1> QED BY <1>7, <1>8, <1>9

LEMMA ListsInjective ==
  ASSUME NEW dets \in DetectionLists, NEW m, NEW n \in Nat, NEW q \in [1..n -> DOMAIN dets],
         IsUnmatchedList(q, m, dets)
  PROVE  /\ \A i, j \in DOMAIN dets : dets[i] = dets[j] => i = j
         /\ \A i, k \in 1..n : q[i] = q[k] => i = k
         /\ \A k \in 1..n : q[k] \in DOMAIN dets /\ \A s \in Live : m[s] # q[k]
         /\ \A j \in DOMAIN dets : dets[j] \in Objects /\ j # 0
<1>1. PICK k \in Nat : dets \in [1..k -> Objects]
  BY DEF DetectionLists
<1>2. \A i, j \in DOMAIN dets : dets[i] = dets[j] => i = j
  BY DEF DetectionLists, IsInjective
<1>3. \A j \in DOMAIN dets : dets[j] \in Objects /\ j # 0 /\ j \in Nat
  BY <1>1
<1>4. ASSUME NEW i \in 1..n, NEW j \in 1..n, q[i] = q[j] PROVE i = j
  <2>1. q[i] \in Nat /\ q[j] \in Nat
    BY <1>3
  <2>2. (i < j => q[i] < q[j]) /\ (j < i => q[j] < q[i])
    BY DEF IsUnmatchedList
  <2> QED BY <1>4, <2>1, <2>2
<1>5. \A i \in 1..n : q[i] \in DOMAIN dets /\ \A s \in Live : m[s] # q[i]
  BY DEF IsUnmatchedList, Range
<1> QED BY <1>2, <1>3, <1>4, <1>5

(***************************************************************************)
(* With detections: a track that the greedy match gave one follows it, and *)
(* nobody else has it; one that got none found all within reach taken.     *)
(***************************************************************************)
LEMMA UpdateLost ==
  ASSUME TypeOK, NEW w \in NextWorlds, NEW dets \in DetectionLists, Update(w, dets),
         NEW s \in Live
  PROVE  \/ \E o \in InReach(s) : Took(s, o) /\ \A r \in Live' \ {s} : ~Took(r, o)
         \/ (\A o \in InReach(s) : \E r \in Live \ {s} : Took(r, o)) /\ Counts(s)
<1>1. PICK m \in GreedyMatches(dets, w), n \in 0..Len(dets) :
       \E q \in [1..n -> DOMAIN dets] : UpdateWith(m, n, q, w, dets)
  BY DEF Update, UpdateWith, RecordsWith, Appended
<1>2. PICK q \in [1..n -> DOMAIN dets] : UpdateWith(m, n, q, w, dets)
  BY <1>1
<1>3. n \in Nat /\ IsUnmatchedList(q, m, dets) /\ world' = w /\ seen' = Range(dets)
  BY <1>2 DEF UpdateWith
<1>4. /\ \A i, j \in DOMAIN dets : dets[i] = dets[j] => i = j
      /\ \A k \in 1..n : q[k] \in DOMAIN dets /\ \A t \in Live : m[t] # q[k]
      /\ \A j \in DOMAIN dets : j # 0
  BY <1>3, ListsInjective
<1>5. /\ \A t \in DOMAIN tracks' :
           Appears(t, n, q, w, dets) \/ Follows(t, m, w, dets) \/ Misses(t, m)
      /\ \A t \in Live : m[t] # 0 => t \in DOMAIN tracks' /\ Follows(t, m, w, dets)
      /\ \A t \in Live : m[t] = 0 => Counts(t)
  BY <1>2, FrameOutcome
<1>6. /\ m[s] # 0 => m[s] \in Available(m, s, dets, w)
      /\ m[s] = 0 => Available(m, s, dets, w) = {}
  <2>1. Available(m, s, dets, w) # {} => m[s] \in Available(m, s, dets, w)
    BY DEF GreedyMatches, IsGreedyMatch
  <2>2. Available(m, s, dets, w) = {} => m[s] = 0
    BY DEF GreedyMatches, IsGreedyMatch
  <2> QED BY <2>1, <2>2, <1>4 DEF Available
<1>7. \A r, t \in Live : r < t /\ m[t] # 0 => m[r] # m[t]
  BY DEF GreedyMatches, IsGreedyMatch, Available
<1>8. CASE m[s] # 0
  <2> DEFINE o == dets[m[s]]
  <2>1. m[s] \in DOMAIN dets /\ o \in InReach(s) /\ Took(s, o)
    BY <1>3, <1>5, <1>6, <1>8 DEF Available, Follows, InReach, Took, Range, Live
  <2>2. ASSUME NEW r \in Live' \ {s}, Took(r, o) PROVE FALSE
    <3>1. CASE Appears(r, n, q, w, dets)
      <4> DEFINE k == r - created
      <4>1. k \in 1..n /\ dets[q[k]] = dets[m[s]]
        BY <3>1, <2>2 DEF Appears, Took
      <4>2. q[k] \in DOMAIN dets /\ m[s] # q[k]
        BY <4>1, <1>4
      <4> HIDE DEF k
      <4> QED BY <4>1, <4>2, <2>1, <1>4
    <3>2. CASE Follows(r, m, w, dets)
      <4>1. m[r] = m[s] /\ r \in Live /\ m[r] # 0
        BY <3>2, <2>1, <2>2, <1>4 DEF Follows, Took
      <4>2. r \in Nat /\ s \in Nat /\ r # s
        BY <4>1, <2>2 DEF TypeOK
      <4> QED BY <4>1, <4>2, <1>7, <1>8
    <3>3. CASE Misses(r, m)
      <4>1. r \in Live /\ m[r] = 0
        BY <3>3 DEF Misses
      <4>2. Counts(r)
        BY <4>1, <1>5
      <4>3. tracks[r] \in TrackRecord
        BY <4>1 DEF TypeOK
      <4>4. tracks[r].lastSeen \in Nat
        BY <4>3, TrackerAssumption DEF TrackRecord
      <4> QED BY <4>2, <4>4, <2>2 DEF Counts, Took
    <3> QED BY <2>2, <3>1, <3>2, <3>3, <1>5 DEF Live
  <2> QED BY <2>1, <2>2
<1>9. CASE m[s] = 0
  <2>1. ASSUME NEW o \in InReach(s) PROVE \E r \in Live \ {s} : Took(r, o)
    <3>1. PICK j \in DOMAIN dets : o = dets[j]
      BY <1>3 DEF InReach, Range
    <3>2. PICK r \in Live : r < s /\ m[r] = j
      BY <3>1, <1>3, <1>6, <1>9 DEF InReach, Available
    <3>3. r # s /\ Took(r, o)
      BY <3>1, <3>2, <1>4, <1>5, <1>9 DEF Follows, Took, Live
    <3> QED BY <3>3
  <2> QED BY <2>1, <1>5, <1>9
<1> QED BY <1>8, <1>9

(***************************************************************************)
(* Without detections nothing is within reach, and every track counts.     *)
(***************************************************************************)
LEMMA EmptyLost ==
  ASSUME TypeOK, UpdateEmpty, NEW s \in Live
  PROVE  (\A o \in InReach(s) : \E r \in Live \ {s} : Took(r, o)) /\ Counts(s)
<1> DEFINE f == [t \in Live |-> Coasted(tracks[t])]
<1>1. tracks' = RemoveLost(f) /\ DOMAIN f = Live /\ seen' = {}
  BY DEF UpdateEmpty
<1>2. f[s] = Coasted(tracks[s]) /\ tracks[s] \in TrackRecord
  BY DEF TypeOK
<1> HIDE DEF f
<1>3. f[s].lastSeen = tracks[s].lastSeen + 1 /\ tracks[s].lastSeen \in 0..MaxLost
  BY <1>2, CoastedRecord DEF TrackRecord
<1>4. /\ DOMAIN tracks' = {t \in Live : f[t].lastSeen <= MaxLost}
      /\ \A t \in DOMAIN tracks' : tracks'[t] = f[t]
  BY <1>1, RemovedRecords
<1>5. Counts(s)
  BY <1>3, <1>4, TrackerAssumption DEF Counts, Live
<1> QED BY <1>1, <1>5 DEF InReach

(***************************************************************************)
(* removeLostTargets removes a track in its (MaxLost + 1)-th frame without *)
(* a detection in a row, on both exits of update, never earlier or later;  *)
(* and only a detection it alone took starts the count again.              *)
(***************************************************************************)
THEOREM RemovalInTime == Spec => LostWindow
<1>1. TypeOK /\ [Next]_vars =>
        [\A s \in Live :
           \/ \E o \in InReach(s) : Took(s, o) /\ \A r \in Live' \ {s} : ~Took(r, o)
           \/ /\ \A o \in InReach(s) : \E r \in Live \ {s} : Took(r, o)
              /\ IF s \in Live'
                 THEN /\ tracks'[s].lastSeen = tracks[s].lastSeen + 1
                      /\ tracks'[s].lastSeen <= MaxLost
                 ELSE tracks[s].lastSeen = MaxLost]_vars
  <2> SUFFICES ASSUME TypeOK, Next, NEW s \in Live
               PROVE  \/ \E o \in InReach(s) : Took(s, o) /\ \A r \in Live' \ {s} : ~Took(r, o)
                      \/ (\A o \in InReach(s) : \E r \in Live \ {s} : Took(r, o)) /\ Counts(s)
    BY DEF Counts
  <2>1. CASE UpdateEmpty
    BY <2>1, EmptyLost
  <2>2. CASE UpdateFrame
    <3>1. PICK w \in NextWorlds, dets \in DetectionLists : Update(w, dets)
      BY <2>2 DEF UpdateFrame
    <3> QED BY <3>1, UpdateLost
  <2> QED BY <2>1, <2>2 DEF Next
<1> QED BY <1>1, TypeCorrect, PTL DEF Spec, LostWindow

(***************************************************************************)
(* A sure track takes no detection but that of its own obstacle, and finds *)
(* nothing only if an earlier track took it.                               *)
(***************************************************************************)
LEMMA TakesItsOwn ==
  ASSUME TypeOK, TrackedInv, ObstaclesApart, NEW w \in NextWorlds, NEW dets \in DetectionLists,
         NEW m \in GreedyMatches(dets, w), NEW s \in Live, Sure(s),
         \A j \in DOMAIN dets : dets[j] \in Objects /\ j # 0
  PROVE  /\ m[s] # 0 => m[s] \in DOMAIN dets /\ dets[m[s]] = tracks[s].obj
         /\ m[s] = 0 => \A j \in DOMAIN dets :
                          dets[j] = tracks[s].obj => \E r \in Live : r < s /\ m[r] = j
         /\ m[s] # 0 => \A r \in Live : r < s => m[r] # m[s]
<1>1. \A j \in DOMAIN dets :
        Distance(Predicted(s), w[dets[j]]) < MatchThreshold <=> dets[j] = tracks[s].obj
  BY OwnIsNear
<1>2. m[s] # 0 => m[s] \in Available(m, s, dets, w)
  BY DEF GreedyMatches, IsGreedyMatch
<1>3. m[s] = 0 => Available(m, s, dets, w) = {}
  <2>1. Available(m, s, dets, w) # {} => m[s] \in DOMAIN dets
    BY DEF GreedyMatches, IsGreedyMatch, Available
  <2> QED BY <2>1
<1>4. m[s] # 0 => /\ m[s] \in DOMAIN dets /\ dets[m[s]] = tracks[s].obj
                  /\ \A r \in Live : r < s => m[r] # m[s]
  BY <1>1, <1>2 DEF Available
<1>5. m[s] = 0 => \A j \in DOMAIN dets :
                    dets[j] = tracks[s].obj => \E r \in Live : r < s /\ m[r] = j
  BY <1>1, <1>3 DEF Available
<1> QED BY <1>4, <1>5

(***************************************************************************)
(* When all tracks are sure, each takes the detection of its obstacle.     *)
(***************************************************************************)
LEMMA AllTakeTheirOwn ==
  ASSUME TypeOK, TrackedInv, ObstaclesApart, NEW w \in NextWorlds, NEW dets \in DetectionLists,
         NEW m \in GreedyMatches(dets, w), \A s \in Live : Sure(s),
         \A j \in DOMAIN dets : dets[j] \in Objects /\ j # 0
  PROVE  \A s \in Live, j \in DOMAIN dets : dets[j] = tracks[s].obj => m[s] # 0
<1> SUFFICES ASSUME NEW s \in Live, NEW j \in DOMAIN dets, dets[j] = tracks[s].obj, m[s] = 0
             PROVE  FALSE
  OBVIOUS
<1>1. PICK r \in Live : r < s /\ m[r] = j
  BY TakesItsOwn
<1>2. dets[j] = tracks[r].obj
  BY <1>1, TakesItsOwn
<1>3. r = s
  BY <1>2 DEF TrackedInv
<1> QED BY <1>1, <1>3 DEF TypeOK

(***************************************************************************)
(* TrackedInv in a frame with detections.                                  *)
(***************************************************************************)
LEMMA UpdateTracked ==
  ASSUME TypeOK, TrackedInv, ObstaclesApart, NEW w \in NextWorlds, NEW dets \in DetectionLists,
         Update(w, dets)
  PROVE  TrackedInv'
<1>1. PICK m \in GreedyMatches(dets, w), n \in 0..Len(dets) :
       \E q \in [1..n -> DOMAIN dets] : UpdateWith(m, n, q, w, dets)
  BY DEF Update, UpdateWith, RecordsWith, Appended
<1>2. PICK q \in [1..n -> DOMAIN dets] : UpdateWith(m, n, q, w, dets)
  BY <1>1
<1>3. world' = w /\ speed' = speed /\ seen' = Range(dets)
  BY <1>2 DEF UpdateWith
<1>4. /\ \A i, j \in DOMAIN dets : dets[i] = dets[j] => i = j
      /\ \A i, k \in 1..n : q[i] = q[k] => i = k
      /\ \A k \in 1..n : q[k] \in DOMAIN dets /\ \A s \in Live : m[s] # q[k]
      /\ \A j \in DOMAIN dets : dets[j] \in Objects /\ j # 0
  <2>1. n \in Nat /\ IsUnmatchedList(q, m, dets)
    BY <1>2 DEF UpdateWith
  <2> QED BY <2>1, ListsInjective
<1>5. \A s \in DOMAIN tracks' :
        Appears(s, n, q, w, dets) \/ Follows(s, m, w, dets) \/ Misses(s, m)
  BY <1>2, FrameOutcome
<1>6. w \in Worlds /\ (\A o \in Objects : Distance(w[o], world[o]) <= speed /\ w[o] \in Int
                                         /\ world[o] \in Int)
      /\ speed \in Nat
  BY TrackerAssumption DEF NextWorlds, Worlds, TypeOK
<1>7. ASSUME NEW s \in Live, Sure(s)
      PROVE  /\ m[s] # 0 => m[s] \in DOMAIN dets /\ dets[m[s]] = tracks[s].obj
             /\ m[s] = 0 => \A j \in DOMAIN dets :
                              dets[j] = tracks[s].obj => \E r \in Live : r < s /\ m[r] = j
             /\ tracks[s].obj \in Objects /\ tracks[s].x = world[tracks[s].obj]
             /\ Distance(tracks[s].v, 0) <= speed
  <2>1. tracks[s].obj \in Objects /\ tracks[s].x = world[tracks[s].obj]
        /\ Distance(tracks[s].v, 0) <= speed
    BY <1>7 DEF TrackedInv, TypeOK, TrackRecord
  <2> QED BY <1>4, <1>7, <2>1, TakesItsOwn
<1>8. ASSUME NEW s \in DOMAIN tracks', Sure(s)', s \in Live, Follows(s, m, w, dets) \/ Misses(s, m)
      PROVE  /\ Sure(s) /\ tracks'[s].obj = tracks[s].obj
             /\ Misses(s, m) => speed = 0
  BY <1>3, <1>7, <1>8 DEF Sure, Follows, Misses
<1>9. ASSUME NEW s \in DOMAIN tracks', Sure(s)'
      PROVE  tracks'[s].x = w[tracks'[s].obj] /\ Distance(tracks'[s].v, 0) <= speed
  <2>1. CASE Appears(s, n, q, w, dets)
    BY <1>6, <2>1 DEF Appears, Distance
  <2>2. CASE Follows(s, m, w, dets)
    <3>1. tracks[s].obj \in Objects /\ tracks[s].x = world[tracks[s].obj]
          /\ tracks'[s].obj = tracks[s].obj /\ tracks'[s].x = w[tracks'[s].obj]
          /\ tracks'[s].v = w[tracks'[s].obj] - tracks[s].x
      BY <1>7, <1>8, <1>9, <2>2 DEF Follows
    <3> QED BY <1>6, <3>1 DEF Distance
  <2>3. CASE Misses(s, m)
    <3>1. tracks[s].obj \in Objects /\ tracks[s].x = world[tracks[s].obj]
          /\ tracks'[s].obj = tracks[s].obj /\ tracks'[s].x = tracks[s].x
          /\ tracks'[s].v = tracks[s].v /\ Distance(tracks[s].v, 0) <= speed /\ speed = 0
      BY <1>7, <1>8, <1>9, <2>3 DEF Misses
    <3>2. w[tracks[s].obj] = world[tracks[s].obj]
      BY <1>6, <3>1 DEF Distance
    <3> QED BY <3>1, <3>2
  <2> QED BY <1>5, <2>1, <2>2, <2>3
\* a new track has no obstacle of an old one
<1>10. ASSUME NEW s \in DOMAIN tracks', NEW r \in DOMAIN tracks', Sure(r)',
              Appears(s, n, q, w, dets), Follows(r, m, w, dets) \/ Misses(r, m),
              tracks'[s].obj = tracks'[r].obj
       PROVE  FALSE
  <2> DEFINE j == q[s - created]
  <2>1. j \in DOMAIN dets /\ (\A t \in Live : m[t] # j) /\ tracks'[s].obj = dets[j]
    BY <1>4, <1>10 DEF Appears
  <2> HIDE DEF j
  <2>2. r \in Live /\ Sure(r) /\ dets[j] = tracks[r].obj
    BY <1>8, <1>10, <2>1 DEF Follows, Misses
  <2>3. m[r] = 0
    BY <1>4, <1>7, <2>1, <2>2
  <2> QED BY <1>7, <2>1, <2>2, <2>3
<1>11. ASSUME NEW s \in DOMAIN tracks', NEW r \in DOMAIN tracks', Sure(s)', Sure(r)',
              tracks'[s].obj = tracks'[r].obj
       PROVE  s = r
  <2>1. CASE Appears(s, n, q, w, dets) /\ Appears(r, n, q, w, dets)
    <3>1. dets[q[s - created]] = dets[q[r - created]] /\ s - created \in 1..n
          /\ r - created \in 1..n
      BY <1>11, <2>1 DEF Appears
    <3>2. s - created = r - created
      BY <1>4, <3>1
    <3> QED BY <2>1, <3>2 DEF Appears, Appended, TypeOK
  <2>2. CASE /\ Follows(s, m, w, dets) \/ Misses(s, m)
             /\ Follows(r, m, w, dets) \/ Misses(r, m)
    <3>1. s \in Live /\ r \in Live
      BY <2>2 DEF Follows, Misses
    <3>2. Sure(s) /\ Sure(r) /\ tracks[s].obj = tracks[r].obj
      BY <1>8, <1>11, <2>2, <3>1
    <3> QED BY <3>1, <3>2 DEF TrackedInv
  <2>3. ~Appears(s, n, q, w, dets) => Follows(s, m, w, dets) \/ Misses(s, m)
    BY <1>5
  <2>4. ~Appears(r, n, q, w, dets) => Follows(r, m, w, dets) \/ Misses(r, m)
    BY <1>5
  <2>5. CASE Appears(s, n, q, w, dets) /\ ~Appears(r, n, q, w, dets)
    BY <1>10, <1>11, <2>4, <2>5
  <2>6. CASE ~Appears(s, n, q, w, dets) /\ Appears(r, n, q, w, dets)
    BY <1>10, <1>11, <2>3, <2>6
  <2> QED BY <2>1, <2>2, <2>3, <2>4, <2>5, <2>6
<1>12. ASSUME speed = 0, NEW s \in DOMAIN tracks', tracks'[s].obj \in Range(dets)
       PROVE  tracks'[s].lastSeen = 0
  <2>1. CASE Appears(s, n, q, w, dets) \/ Follows(s, m, w, dets)
    BY <2>1 DEF Appears, Follows
  <2>2. CASE Misses(s, m)
    <3>1. \A r \in Live : Sure(r)
      BY <1>12 DEF Sure
    <3>2. PICK j \in DOMAIN dets : dets[j] = tracks[s].obj
      BY <1>12, <2>2 DEF Misses, Range
    <3>3. m[s] # 0
      BY <1>4, <2>2, <3>1, <3>2, AllTakeTheirOwn DEF Misses
    <3> QED BY <2>2, <3>3 DEF Misses
  <2> QED BY <1>5, <2>1, <2>2
<1> QED BY <1>3, <1>6, <1>9, <1>11, <1>12 DEF TrackedInv, Live

(***************************************************************************)
(* TrackedInv in a frame without detections.                               *)
(***************************************************************************)
LEMMA EmptyTracked ==
  ASSUME TypeOK, TrackedInv, UpdateEmpty
  PROVE  TrackedInv'
<1> DEFINE f == [s \in Live |-> Coasted(tracks[s])]
<1>1. PICK w \in NextWorlds : world' = w
  BY DEF UpdateEmpty
<1>2. tracks' = RemoveLost(f) /\ DOMAIN f = Live /\ seen' = {} /\ speed' = speed
  BY DEF UpdateEmpty
<1>3. ASSUME NEW s \in Live
      PROVE  /\ f[s].x = tracks[s].x + tracks[s].v /\ f[s].v = tracks[s].v
             /\ f[s].obj = tracks[s].obj /\ f[s].steady = FALSE
  <2>1. tracks[s] \in TrackRecord /\ f[s] = Coasted(tracks[s])
    BY DEF TypeOK
  <2> HIDE DEF f
  <2> QED BY <2>1, CoastedPlace
<1> HIDE DEF f
<1>4. \A s \in DOMAIN tracks' : s \in Live /\ tracks'[s] = f[s]
  BY <1>2, RemovedRecords
<1>5. w \in Worlds /\ (\A o \in Objects : Distance(w[o], world[o]) <= speed /\ w[o] \in Int
                                         /\ world[o] \in Int)
  BY DEF NextWorlds, Worlds, TypeOK
<1>6. ASSUME NEW s \in DOMAIN tracks', Sure(s)'
      PROVE  speed = 0 /\ Sure(s)
  BY <1>2, <1>3, <1>4, <1>6 DEF Sure
<1>7. ASSUME NEW s \in DOMAIN tracks', Sure(s)'
      PROVE  tracks'[s].x = w[tracks'[s].obj] /\ Distance(tracks'[s].v, 0) <= speed
  <2> DEFINE a == tracks[s].obj
  <2>1. s \in Live /\ speed = 0 /\ Sure(s)
    BY <1>4, <1>6, <1>7
  <2>2. a \in Objects /\ tracks[s].v \in Int /\ tracks[s].x = world[a]
        /\ Distance(tracks[s].v, 0) <= 0
    BY <2>1 DEF TypeOK, TrackRecord, TrackedInv
  <2>3. w[a] = world[a] /\ world[a] \in Int
    BY <1>5, <2>1, <2>2 DEF Distance
  <2>4. tracks[s].v = 0
    BY <2>2 DEF Distance
  <2>5. tracks'[s].x = tracks[s].x + tracks[s].v /\ tracks'[s].v = tracks[s].v
        /\ tracks'[s].obj = a
    BY <1>3, <1>4, <2>1
  <2> HIDE DEF a
  <2> QED BY <2>1, <2>2, <2>3, <2>4, <2>5
<1>8. ASSUME NEW s \in DOMAIN tracks', NEW r \in DOMAIN tracks', Sure(s)', Sure(r)',
             tracks'[s].obj = tracks'[r].obj
      PROVE  s = r
  <2>1. s \in Live /\ r \in Live /\ Sure(s) /\ Sure(r) /\ tracks[s].obj = tracks[r].obj
    BY <1>3, <1>4, <1>6, <1>8
  <2> QED BY <2>1 DEF TrackedInv
<1> QED BY <1>1, <1>2, <1>5, <1>7, <1>8 DEF TrackedInv, Live

(***************************************************************************)
(* TrackedInv is invariant, when the obstacles are far enough apart for    *)
(* their speed.                                                            *)
(***************************************************************************)
THEOREM TrackedInvariant == Spec => [](ObstaclesApart => TrackedInv)
<1>1. Init => TrackedInv
  BY DEF Init, TrackedInv, Live
<1>2. TypeOK /\ (ObstaclesApart => TrackedInv) /\ [Next]_vars => (ObstaclesApart => TrackedInv)'
  <2> SUFFICES ASSUME TypeOK, ObstaclesApart => TrackedInv, [Next]_vars, ObstaclesApart'
               PROVE  TrackedInv'
    OBVIOUS
  <2>1. speed' = speed
    BY StepRecords DEF vars
  <2>2. ObstaclesApart /\ TrackedInv
    BY <2>1 DEF ObstaclesApart, ApartAt
  <2>3. CASE UNCHANGED vars
    BY <2>2, <2>3 DEF vars, TrackedInv, Live, Sure
  <2>4. CASE Next
    BY <2>2, <2>4, UpdateTracked, EmptyTracked DEF Next, UpdateFrame
  <2> QED BY <2>3, <2>4
<1> QED BY <1>1, <1>2, TypeCorrect, PTL DEF Spec

(***************************************************************************)
(* An obstacle that stands still keeps its one track, and id, over every   *)
(* gap of up to MaxLost frames, when no other is close enough to be taken  *)
(* for it, for any threshold and number of obstacles.                      *)
(***************************************************************************)
THEOREM StandingIdsKept ==
  ASSUME ApartAt(0)
  PROVE  Spec => []StandingObstacleKeepsId
<1>1. (ObstaclesApart => TrackedInv) => StandingObstacleKeepsId
  BY DEF ObstaclesApart, TrackedInv, StandingObstacleKeepsId, Sure
<1> QED BY <1>1, TrackedInvariant, PTL

(***************************************************************************)
(* While every track was matched in every frame, the prediction and the    *)
(* threshold keep the tracks of moving obstacles apart: each is matched    *)
(* with its obstacle again when that is detected again.                    *)
(***************************************************************************)
THEOREM SteadyContinue ==
  ASSUME ApartAt(MaxStep)
  PROVE  Spec => SteadyTracksContinue
<1>1. TypeOK => ObstaclesApart
  BY TrackerAssumption DEF TypeOK, ObstaclesApart, ApartAt
<1>2. TypeOK /\ ObstaclesApart /\ TrackedInv /\ [Next]_vars =>
        [(\A s \in Live : tracks[s].steady) => \A s \in Live : Continues(s)]_vars
  <2> SUFFICES ASSUME TypeOK, ObstaclesApart, TrackedInv, Next, \A s \in Live : tracks[s].steady,
                      NEW s \in Live, tracks[s].obj \in seen'
               PROVE  s \in Live' /\ tracks'[s].lastSeen = 0 /\ tracks'[s].obj = tracks[s].obj
    BY DEF Continues
  <2>1. CASE UpdateEmpty
    BY <2>1 DEF UpdateEmpty
  <2>2. CASE UpdateFrame
    <3>1. PICK w \in NextWorlds, dets \in DetectionLists : Update(w, dets)
      BY <2>2 DEF UpdateFrame
    <3>2. PICK m \in GreedyMatches(dets, w), n \in 0..Len(dets) :
           \E q \in [1..n -> DOMAIN dets] : UpdateWith(m, n, q, w, dets)
      BY <3>1 DEF Update, UpdateWith, RecordsWith, Appended
    <3>3. PICK q \in [1..n -> DOMAIN dets] : UpdateWith(m, n, q, w, dets)
      BY <3>2
    <3>4. \A j \in DOMAIN dets : dets[j] \in Objects /\ j # 0
      <4>1. n \in Nat /\ IsUnmatchedList(q, m, dets)
        BY <3>3 DEF UpdateWith
      <4> QED BY <4>1, ListsInjective
    <3>5. PICK j \in DOMAIN dets : dets[j] = tracks[s].obj
      BY <3>3 DEF UpdateWith, Range
    <3>6. \A r \in Live : Sure(r)
      BY DEF Sure
    <3>7. m[s] # 0 /\ dets[m[s]] = tracks[s].obj
      BY <3>4, <3>5, <3>6, AllTakeTheirOwn, TakesItsOwn
    <3>8. s \in DOMAIN tracks' /\ Follows(s, m, w, dets)
      BY <3>3, <3>7, FrameOutcome
    <3> QED BY <3>7, <3>8 DEF Follows, Live
  <2> QED BY <2>1, <2>2 DEF Next
<1> QED BY <1>1, <1>2, TypeCorrect, TrackedInvariant, PTL DEF Spec, SteadyTracksContinue
=============================================================================
