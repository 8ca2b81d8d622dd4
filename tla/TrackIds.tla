------------------------------ MODULE TrackIds ------------------------------
(***************************************************************************)
(* What SimpleTracker (include/track.cpp) promises about identifiers, with *)
(* positions and matching abstracted away.                                 *)
(*                                                                         *)
(* The vector vtrackings is a function over creation numbers: track s is   *)
(* the s-th track ever created.  push_back and a stable remove_if keep the *)
(* vector in creation order, so the order of the numbers is the order of   *)
(* the vector.  Creation numbers, "lap" and lapStart are history: the code *)
(* only stores the id.                                                     *)
(*                                                                         *)
(* A lap is a stretch of creations between two resets of nextTrackID.      *)
(***************************************************************************)
EXTENDS Integers

CONSTANTS
  FirstId,      (* 9999: the first id, and the id a new lap starts with      *)
  ResetAbove,   (* 50000: nextTrackID may start over once it is above this   *)
  MaxCreated    (* bound of the model: tracks created in one behaviour       *)

ASSUME IdAssumption ==
  /\ FirstId \in Nat
  /\ ResetAbove \in Nat
  /\ FirstId <= ResetAbove
  /\ MaxCreated \in Nat

VARIABLES
  ids,          (* live track -> [id, lap]                                   *)
  nextTrackID,
  created,      (* tracks created so far                                     *)
  lapStart      (* value of created when nextTrackID last started over       *)

idVars == <<ids, nextTrackID, created, lapStart>>

(* The ids FirstId .. ResetAbove, which every lap uses. *)
LapLength == ResetAbove - FirstId + 1

IdRecord == [id : Nat, lap : Nat]

IdTypeOK ==
  /\ ids \in [DOMAIN ids -> IdRecord]
  /\ DOMAIN ids \subseteq 1..created
  /\ nextTrackID \in Nat
  /\ created \in Nat
  /\ lapStart \in 0..created

IdInit ==
  /\ ids = << >>
  /\ nextTrackID = FirstId
  /\ created = 0
  /\ lapStart = 0

(* The id of the k-th track a frame appends. *)
NewIdSkipping(k) == nextTrackID + k          (* mutant: incremented before use *)
NewId(k) == nextTrackID + k - 1

(* When nextTrackID may start over: it and every id in f are above the bound. *)
MayStartOver(next, f) ==
  /\ next > ResetAbove
  /\ \A s \in DOMAIN f : f[s].id > ResetAbove

(***************************************************************************)
(* One call of update: the tracks outside "kept" are removed, n tracks are *)
(* appended with consecutive ids, and the counter may start over, but only *)
(* when it is above ResetAbove and every remaining id is above it too.     *)
(***************************************************************************)
IdFrame(kept, n) ==
  LET fresh == (created + 1) .. (created + n)
  IN  /\ created + n <= MaxCreated
      /\ created' = created + n
      /\ ids' = [s \in kept \cup fresh |->
                   IF s \in fresh
                   THEN [id |-> NewId(s - created), lap |-> lapStart]
                   ELSE ids[s]]
      /\ \/ /\ nextTrackID' = nextTrackID + n
            /\ UNCHANGED lapStart
         \/ /\ MayStartOver(nextTrackID + n, ids')
            /\ nextTrackID' = FirstId
            /\ lapStart' = created'

IdNext == \E kept \in SUBSET DOMAIN ids, n \in 0 .. (MaxCreated - created) :
            IdFrame(kept, n)

IdSpec == IdInit /\ [][IdNext]_idVars

-----------------------------------------------------------------------------
(* The id of a track is fixed by its creation number within its lap. *)
IdOfCreation ==
  \A s \in DOMAIN ids : /\ ids[s].lap < s
                        /\ ids[s].lap <= lapStart
                        /\ ids[s].id = FirstId + (s - ids[s].lap - 1)

(* The counter continues the current lap. *)
CounterOfLap == nextTrackID = FirstId + (created - lapStart)

(* Laps do not overlap, and what is left of a finished lap has high ids. *)
LapsApart ==
  /\ \A s \in DOMAIN ids : ids[s].lap # lapStart =>
       s <= lapStart /\ ids[s].id > ResetAbove
  /\ \A s, t \in DOMAIN ids : ids[s].lap < ids[t].lap => s <= ids[t].lap

IdInv == IdTypeOK /\ IdOfCreation /\ CounterOfLap /\ LapsApart

(***************************************************************************)
(* Two live tracks carry the same id only if it is above ResetAbove, and   *)
(* only if more than LapLength tracks were created from the one to the     *)
(* other: the counter starts over among ids no live track has, and a track *)
(* is ambiguous only when it outlives a whole further lap.  (Step 6 of     *)
(* update, the test of the smallest live id before nextTrackID starts      *)
(* over.)                                                                  *)
(***************************************************************************)
ReuseDistance ==
  \A s, t \in DOMAIN ids :
    s < t /\ ids[s].id = ids[t].id => ids[s].id > ResetAbove /\ t - s > LapLength
=============================================================================
