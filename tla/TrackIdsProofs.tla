--------------------------- MODULE TrackIdsProofs ---------------------------
(* IdInv is an inductive invariant of TrackIds, and what follows from it.   *)
EXTENDS TrackIds, TLAPS

(***************************************************************************)
(* No track exists at the start, so the invariant holds there: the id      *)
(* counter of track.cpp:9 starts the first lap.                            *)
(***************************************************************************)
LEMMA IdInitInv == IdInit => IdInv
  BY IdAssumption
  DEF IdInit, IdInv, IdTypeOK, IdOfCreation, CounterOfLap, LapsApart

(***************************************************************************)
(* What one call of update does to the record of a track that is live      *)
(* after it: an old track keeps its record, a new one gets the next id of  *)
(* the lap that was current when the call began.                           *)
(***************************************************************************)
LEMMA FrameRecords ==
  ASSUME IdInv, NEW kept \in SUBSET DOMAIN ids, NEW n \in Nat, IdFrame(kept, n)
  PROVE  /\ DOMAIN ids' = kept \cup ((created + 1) .. (created + n))
         /\ \A s \in DOMAIN ids' :
              \/ s \in DOMAIN ids /\ s \in 1..created /\ ids'[s] = ids[s]
              \/ /\ s \in (created + 1) .. (created + n)
                 /\ ids'[s] \in IdRecord
                 /\ ids'[s].id = nextTrackID + (s - created - 1)
                 /\ ids'[s].lap = lapStart
<1>1. /\ created \in Nat /\ nextTrackID \in Nat /\ lapStart \in Nat
      /\ DOMAIN ids \subseteq 1..created
  BY DEF IdInv, IdTypeOK
<1>2. DOMAIN ids' = kept \cup ((created + 1) .. (created + n))
  BY DEF IdFrame
<1>3. ASSUME NEW s \in (created + 1) .. (created + n)
      PROVE  ids'[s] = [id |-> nextTrackID + (s - created - 1), lap |-> lapStart]
  <2>1. ids'[s] = [id |-> NewId(s - created), lap |-> lapStart]
    BY DEF IdFrame
  <2>2. NewId(s - created) = nextTrackID + (s - created - 1)
    BY <1>1 DEF NewId
  <2> QED BY <2>1, <2>2, Zenon
<1>4. ASSUME NEW s \in (created + 1) .. (created + n)
      PROVE  /\ ids'[s] \in IdRecord
             /\ ids'[s].id = nextTrackID + (s - created - 1)
             /\ ids'[s].lap = lapStart
  <2> DEFINE i == nextTrackID + (s - created - 1)
  <2>1. i \in Nat
    BY <1>1
  <2>2. ids'[s] = [id |-> i, lap |-> lapStart]
    BY <1>3
  <2> HIDE DEF i
  <2>3. ids'[s] \in IdRecord /\ ids'[s].id = i /\ ids'[s].lap = lapStart
    BY <1>1, <2>1, <2>2 DEF IdRecord
  <2> QED BY <2>3 DEF i
<1>5. ASSUME NEW s \in kept
      PROVE  s \in DOMAIN ids /\ s \in 1..created /\ ids'[s] = ids[s]
  BY <1>1 DEF IdFrame
<1> QED BY <1>2, <1>4, <1>5

(***************************************************************************)
(* One call of update preserves the invariant.  The steps follow its       *)
(* conjuncts; a reset of the counter matters for the last two.             *)
(***************************************************************************)
LEMMA IdFrameInv ==
  ASSUME IdInv, NEW kept \in SUBSET DOMAIN ids, NEW n \in Nat, IdFrame(kept, n)
  PROVE  IdInv'
<1> DEFINE fresh == (created + 1) .. (created + n)
<1>1. /\ created \in Nat /\ nextTrackID \in Nat /\ lapStart \in 0..created
      /\ FirstId \in Nat /\ ResetAbove \in Nat /\ FirstId <= ResetAbove
      /\ created' = created + n
      /\ nextTrackID = FirstId + (created - lapStart)
  BY IdAssumption DEF IdInv, IdTypeOK, IdFrame, CounterOfLap
<1>2. /\ DOMAIN ids' = kept \cup fresh
      /\ \A s \in DOMAIN ids' :
           \/ s \in DOMAIN ids /\ s \in 1..created /\ ids'[s] = ids[s]
           \/ /\ s \in fresh
              /\ ids'[s] \in IdRecord
              /\ ids'[s].id = nextTrackID + (s - created - 1)
              /\ ids'[s].lap = lapStart
  BY FrameRecords
<1>3. \/ nextTrackID' = nextTrackID + n /\ lapStart' = lapStart
      \/ /\ MayStartOver(nextTrackID + n, ids')
         /\ nextTrackID' = FirstId /\ lapStart' = created'
  BY DEF IdFrame
<1>4. IdTypeOK'
  <2>1. ids' \in [DOMAIN ids' -> IdRecord]
    <3>1. ids' = [s \in DOMAIN ids' |-> ids'[s]]
      BY DEF IdFrame
    <3>2. ASSUME NEW s \in DOMAIN ids' PROVE ids'[s] \in IdRecord
      <4>1. CASE s \in DOMAIN ids /\ ids'[s] = ids[s]
        BY <4>1 DEF IdInv, IdTypeOK
      <4>2. CASE s \in fresh /\ ids'[s] \in IdRecord
        BY <4>2
      <4> QED BY <4>1, <4>2, <1>2
    <3> QED BY <3>1, <3>2
  <2>2. DOMAIN ids' \subseteq 1..created'
    BY <1>1, <1>2 DEF IdInv, IdTypeOK
  <2> QED BY <1>1, <1>3, <2>1, <2>2 DEF IdTypeOK
<1>5. \A s \in DOMAIN ids' :
        /\ s \in Nat /\ ids'[s].lap \in Nat
        /\ ids'[s].lap < s /\ ids'[s].lap <= lapStart
        /\ ids'[s].id = FirstId + (s - ids'[s].lap - 1)
  <2> SUFFICES ASSUME NEW s \in DOMAIN ids'
               PROVE  /\ s \in Nat /\ ids'[s].lap \in Nat
                      /\ ids'[s].lap < s /\ ids'[s].lap <= lapStart
                      /\ ids'[s].id = FirstId + (s - ids'[s].lap - 1)
    OBVIOUS
  <2>1. CASE s \in DOMAIN ids /\ s \in 1..created /\ ids'[s] = ids[s]
    <3>1. ids[s] \in IdRecord
      BY <2>1 DEF IdInv, IdTypeOK
    <3> QED BY <2>1, <3>1, <1>1 DEF IdInv, IdOfCreation, IdRecord
  <2>2. CASE /\ s \in fresh
             /\ ids'[s].id = nextTrackID + (s - created - 1)
             /\ ids'[s].lap = lapStart
    BY <2>2, <1>1
  <2> QED BY <2>1, <2>2, <1>2
<1>6. IdOfCreation'
  BY <1>1, <1>3, <1>5 DEF IdOfCreation
<1>7. CounterOfLap'
  BY <1>1, <1>3 DEF CounterOfLap
<1>8. \A s \in DOMAIN ids' : ids'[s].lap # lapStart =>
        s <= lapStart /\ ids'[s].id > ResetAbove
  BY <1>2 DEF IdInv, LapsApart
<1>9. \A s, t \in DOMAIN ids' : ids'[s].lap < ids'[t].lap =>
        s <= ids'[t].lap
  <2> SUFFICES ASSUME NEW s \in DOMAIN ids', NEW t \in DOMAIN ids',
                      ids'[s].lap < ids'[t].lap
               PROVE  s <= ids'[t].lap
    OBVIOUS
  <2>1. CASE t \in fresh /\ ids'[t].lap = lapStart
    BY <2>1, <1>1, <1>5, <1>8
  <2>2. CASE t \in DOMAIN ids /\ ids'[t] = ids[t]
    <3>1. ids[t].lap <= lapStart
      BY <2>2 DEF IdInv, IdOfCreation
    <3>2. ids'[s].lap # lapStart
      BY <3>1, <2>2, <1>1, <1>5
    <3>3. s \in DOMAIN ids /\ ids'[s] = ids[s]
      BY <3>2, <1>2
    <3> QED BY <3>3, <2>2 DEF IdInv, LapsApart
  <2> QED BY <2>1, <2>2, <1>2
<1>10. \A s \in DOMAIN ids' : ids'[s].lap # lapStart' =>
        s <= lapStart' /\ ids'[s].id > ResetAbove
  <2>1. CASE lapStart' = lapStart
    BY <2>1, <1>8
  <2>2. CASE MayStartOver(nextTrackID + n, ids') /\ lapStart' = created'
    BY <2>2, <1>4 DEF IdTypeOK, MayStartOver
  <2> QED BY <2>1, <2>2, <1>3
<1> QED BY <1>4, <1>6, <1>7, <1>9, <1>10 DEF IdInv, LapsApart

(***************************************************************************)
(* Two live tracks with the same id belong to different laps, so the older *)
(* has a high id, and its lap lies before the other's.                     *)
(***************************************************************************)
LEMMA IdInvReuseDistance == IdInv => ReuseDistance
<1> SUFFICES ASSUME IdInv, NEW s \in DOMAIN ids, NEW t \in DOMAIN ids,
                    s < t, ids[s].id = ids[t].id
             PROVE  ids[s].id > ResetAbove /\ t - s > LapLength
  BY DEF ReuseDistance
<1>1. /\ s \in Nat /\ t \in Nat /\ ids[s].lap \in Nat /\ ids[t].lap \in Nat
      /\ ids[s].lap < s /\ ids[t].lap < t
      /\ ids[s].id = FirstId + (s - ids[s].lap - 1)
      /\ ids[t].id = FirstId + (t - ids[t].lap - 1)
  BY DEF IdInv, IdTypeOK, IdRecord, IdOfCreation
<1>2. FirstId \in Nat /\ ResetAbove \in Nat
  BY IdAssumption
<1>3. t - s = ids[t].lap - ids[s].lap
  <2>1. FirstId + (s - ids[s].lap - 1) = FirstId + (t - ids[t].lap - 1)
    BY <1>1, Zenon
  <2> QED BY <2>1, <1>1, <1>2
<1>4. ids[s].lap < ids[t].lap
  BY <1>1, <1>3
<1>5. ids[s].id > ResetAbove /\ s <= ids[t].lap
  <2>1. ids[t].lap <= lapStart /\ lapStart \in Nat
    BY DEF IdInv, IdTypeOK, IdOfCreation
  <2>2. ids[s].lap # lapStart
    BY <2>1, <1>1, <1>4
  <2> QED BY <2>2, <1>4 DEF IdInv, LapsApart
<1>6. s - ids[s].lap > LapLength
  BY <1>1, <1>2, <1>5 DEF LapLength
<1>7. ids[t].lap - ids[s].lap > LapLength
  BY <1>1, <1>2, <1>5, <1>6 DEF LapLength
<1> QED BY <1>1, <1>2, <1>3, <1>5, <1>7 DEF LapLength

(***************************************************************************)
(* The invariant holds in every reachable state.                           *)
(***************************************************************************)
THEOREM IdInvariance == IdSpec => []IdInv
<1>1. IdInv /\ [IdNext]_idVars => IdInv'
  <2>1. ASSUME IdInv, IdNext PROVE IdInv'
    <3>1. PICK kept \in SUBSET DOMAIN ids, n \in 0 .. (MaxCreated - created) :
            IdFrame(kept, n)
      BY <2>1 DEF IdNext
    <3> QED BY <2>1, <3>1, IdFrameInv
  <2>2. ASSUME IdInv, UNCHANGED idVars PROVE IdInv'
    BY <2>2 DEF idVars, IdInv, IdTypeOK, IdOfCreation, CounterOfLap, LapsApart
  <2> QED BY <2>1, <2>2
<1> QED BY IdInitInv, <1>1, PTL DEF IdSpec

(***************************************************************************)
(* For every first id, reset limit and number of tracks: an id is shared   *)
(* only above the limit and more than a whole lap of the counter apart.    *)
(***************************************************************************)
THEOREM IdReuse == IdSpec => []ReuseDistance
  BY IdInvariance, IdInvReuseDistance, PTL
=============================================================================
