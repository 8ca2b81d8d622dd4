---------------------------- MODULE GroundFilter ----------------------------
(***************************************************************************)
(* ElevationMapGroundFilter::ProcessWithObstacleDetection: one cloud is    *)
(* binned into an elevation grid, the ground is grown over it from the     *)
(* columns next to the car, each column gets a reference height, the cells *)
(* that hold something low above it become candidates, and the candidates  *)
(* are gathered into clusters.  BuildGrid clears every cell, so a call     *)
(* keeps nothing of the one before: a behaviour is one call.               *)
(*                                                                         *)
(* A cell holds the heights of its points.  Lengths are in millimetres, a  *)
(* slope is in thousandths, and a division rounds down to the unit.  Both  *)
(* queues (bfs_queue) are emptied a wave at a time: what is labelled does  *)
(* not depend on the order in which the cells of a wave are popped.        *)
(***************************************************************************)
EXTENDS Integers, FiniteSets, FiniteSetsExt

CONSTANTS
  Rows, Cols,             \* m_grid_rows (y), m_grid_cols (x)
  SeedCols,               \* kSeedRows: the columns the ground is grown from
  MinPoints,              \* min_points_per_cell
  Resolution, XMin, XMax, \* grid_resolution, m_effective_roi_x_min, roi_x_max
  SlopeThreshold, HeightThreshold,
  NearBoundary,           \* near_range_boundary
  NearBand, FarBand,      \* <<least, most>> of obstacle_top_height_*
  LayerResolution, MinLayers,
  VerticalMin, VerticalLayers,
  MinTall, MinCluster,
  SensorHeight,           \* sensor_height_nominal
  Clouds                  \* the clouds, as cell |-> heights

Cells == (0 .. Rows - 1) \X (0 .. Cols - 1)

ASSUME GridAssumption ==
  /\ Rows \in Nat \ {0} /\ Cols \in Nat \ {0}
  /\ Clouds \subseteq [Cells -> SUBSET Int]
  /\ \A p \in Clouds : \A c \in Cells : IsFiniteSet(p[c])
  /\ NearBand \in Int \X Int /\ FarBand \in Int \X Int

VARIABLES
  points,     \* m_vGridCell: the heights in each cell
  stage,      \* which loop of the call is running
  ground,     \* the cells with label >= 0
  front,      \* bfs_queue, of the loop that is running
  candidates, \* is_obstacle_candidate
  taken,      \* the cells with obstacle_label # -1
  cluster,    \* cluster_cells of the component being collected
  clusters    \* the clusters returned so far

groundVars == <<points, stage, ground, front, candidates, taken, cluster, clusters>>

-----------------------------------------------------------------------------
(* The grid: validity, heights, neighbours and thresholds.                 *)

Around(c) == (c[1] - 1 .. c[1] + 1) \X (c[2] - 1 .. c[2] + 1)

Neighbours(c) == {d \in Around(c) : d # c /\ d \in Cells}

Valid(c) == points[c] # {} /\ Cardinality(points[c]) >= MinPoints

MinZ(c) == Min(points[c])
MaxZ(c) == Max(points[c])

CentreX(col) == XMin + col * Resolution + Resolution \div 2

Climb(c, d) == IF MinZ(c) > MinZ(d) THEN MinZ(c) - MinZ(d) ELSE MinZ(d) - MinZ(c)

DynamicSlope(x) ==
  CASE x < 3500 -> SlopeThreshold
    [] x > XMax -> 800
    [] OTHER    -> SlopeThreshold + (x - SlopeThreshold) \div 10

DynamicHeight(x) ==
  CASE x < 3500 -> HeightThreshold
    [] x > XMax -> 600
    [] OTHER    -> HeightThreshold
                     + ((x - 3500) * (600 - HeightThreshold)) \div (XMax - 3500)

\* |dz| / dist > t, where a diagonal step is Resolution * sqrt(2) long.
Steeper(c, d, t) ==
  LET stretch == IF c[1] # d[1] /\ c[2] # d[2] THEN 1414 ELSE 1000
  IN  Climb(c, d) * 1000000 > t * Resolution * stretch

\* cell.slope, the steepest step to any valid neighbour, against the threshold.
Gentle(c) ==
  \A d \in Neighbours(c) : Valid(d) => ~Steeper(c, d, DynamicSlope(CentreX(c[2])))

Seeds == {c \in Cells : c[2] < SeedCols /\ Valid(c)}

\* The neighbours the gates of RegionGrowing open from a labelled cell.
Opened(c) ==
  {d \in Neighbours(c) :
     /\ Valid(d)
     /\ Gentle(d)
     /\ Climb(c, d) <= DynamicHeight(CentreX(d[2]))}

-----------------------------------------------------------------------------
(* ComputeGroundReference: the height of the ground in each column.        *)

ColumnGround(col) == {c \in ground : c[2] = col}

GroundCols == {col \in 0 .. Cols - 1 : ColumnGround(col) # {}}

\* zs[k - 1] of the sorted heights: fewer than k lie below it, k at or below.
Sorted(cells, k) ==
  CHOOSE z \in {MinZ(c) : c \in cells} :
    /\ Cardinality({c \in cells : MinZ(c) < z}) < k
    /\ k <= Cardinality({c \in cells : MinZ(c) <= z})

\* mutant: the index of the middle is one too high.
MedianLate(col) ==
  LET n == Cardinality(ColumnGround(col))
  IN  Sorted(ColumnGround(col), Min({n, n \div 2 + 2}))

Median(col) ==
  LET zs  == ColumnGround(col)
      n   == Cardinality(zs)
      mid == n \div 2
  IN  IF n % 2 = 1 THEN Sorted(zs, mid + 1)
      ELSE (Sorted(zs, mid) + Sorted(zs, mid + 1)) \div 2

Filled(col) ==
  LET before == {k \in GroundCols : k <= col}
      after  == {k \in GroundCols : k >= col}
      p == Max(before)
      n == Min(after)
  IN  CASE GroundCols = {} -> SensorHeight
        [] before = {}     -> Median(n)
        [] after = {}      -> Median(p)
        [] p = n           -> Median(p)
        [] OTHER           -> Median(p)
                                + ((Median(n) - Median(p)) * (col - p)) \div (n - p)

Reference(col) ==
  IF col \in {0, Cols - 1} THEN Filled(col)
  ELSE (Filled(col - 1) + Filled(col) + Filled(col + 1)) \div 3

-----------------------------------------------------------------------------
(* AnalyzeVerticalOccupancy: what stands in each cell.                     *)

HeightRange(c) == MaxZ(c) - MinZ(c)

NumLayers(c) ==
  Min({200, Max({1, (HeightRange(c) + LayerResolution - 1) \div LayerResolution})})

OccupiedLayers(c) ==
  Cardinality({Min({(z - MinZ(c)) \div LayerResolution, NumLayers(c) - 1}) : z \in points[c]})

Vertical(c) == HeightRange(c) > VerticalMin /\ OccupiedLayers(c) <= VerticalLayers

Band(col) == IF CentreX(col) < NearBoundary THEN NearBand ELSE FarBand

LowObstacle(c, reference) ==
  LET top == MaxZ(c) - reference[c[2]]
  IN  /\ Valid(c)
      /\ top >= 0
      /\ ~Vertical(c)
      /\ top >= Band(c[2])[1]
      /\ top <= Band(c[2])[2]
      /\ HeightRange(c) >= 20
      /\ OccupiedLayers(c) >= MinLayers

TallNeighbours(c, reference) ==
  {d \in Neighbours(c) \cap ground : MaxZ(d) - reference[d[2]] >= FarBand[2]}

Candidates ==
  LET reference == [col \in 0 .. Cols - 1 |-> Reference(col)]
  IN  {c \in Cells : /\ LowObstacle(c, reference)
                     /\ Cardinality(TallNeighbours(c, reference)) < MinTall}

-----------------------------------------------------------------------------
GroundInit ==
  /\ points \in Clouds
  /\ stage = "growing"
  /\ ground = Seeds
  /\ front = Seeds
  /\ candidates = {}
  /\ taken = {}
  /\ cluster = {}
  /\ clusters = {}

\* mutant: the diagonal offsets are left out.
ReachedStraight ==
  {d \in (UNION {Opened(c) : c \in front}) \ ground :
     \E c \in front : d \in Opened(c) /\ (c[1] = d[1] \/ c[2] = d[2])}

\* The cells that join the ground from those in the queue.
Reached == (UNION {Opened(c) : c \in front}) \ ground

RegionGrowing ==
  /\ stage = "growing"
  /\ front # {}
  /\ front' = Reached
  /\ ground' = ground \cup Reached
  /\ UNCHANGED <<points, stage, candidates, taken, cluster, clusters>>

AnalyzeVerticalOccupancy ==
  /\ stage = "growing"
  /\ front = {}
  /\ candidates' = Candidates
  /\ stage' = "clustering"
  /\ UNCHANGED <<points, ground, front, taken, cluster, clusters>>

\* The row-major scan stands on the first candidate without a label.
First(c) ==
  /\ c \in candidates \ taken
  /\ \A d \in candidates \ taken : c[1] * Cols + c[2] <= d[1] * Cols + d[2]

StartCluster ==
  /\ stage = "clustering"
  /\ cluster = {}
  /\ \E c \in candidates :
       /\ First(c)
       /\ front' = {c}
       /\ cluster' = {c}
       /\ taken' = taken \cup {c}
  /\ UNCHANGED <<points, stage, ground, candidates, clusters>>

\* mutant: a component grows straight only.
JoinedStraight ==
  {d \in candidates \ taken :
     \E c \in front : d \in Neighbours(c) /\ (c[1] = d[1] \/ c[2] = d[2])}

\* The cells that join the component from those in the queue.
Joined == ((UNION {Neighbours(c) : c \in front}) \cap candidates) \ taken

GrowCluster ==
  /\ stage = "clustering"
  /\ front # {}
  /\ front' = Joined
  /\ cluster' = cluster \cup Joined
  /\ taken' = taken \cup Joined
  /\ UNCHANGED <<points, stage, ground, candidates, clusters>>

EndCluster ==
  /\ stage = "clustering"
  /\ front = {}
  /\ cluster # {}
  /\ clusters' = IF Cardinality(cluster) >= MinCluster
                   THEN clusters \cup {cluster} ELSE clusters
  /\ cluster' = {}
  /\ UNCHANGED <<points, stage, ground, front, candidates, taken>>

Return ==
  /\ stage = "clustering"
  /\ cluster = {}
  /\ candidates \subseteq taken
  /\ stage' = "done"
  /\ UNCHANGED <<points, ground, front, candidates, taken, cluster, clusters>>

GroundNext ==
  \/ RegionGrowing
  \/ AnalyzeVerticalOccupancy
  \/ StartCluster
  \/ GrowCluster
  \/ EndCluster
  \/ Return

GroundSpec == GroundInit /\ [][GroundNext]_groundVars

-----------------------------------------------------------------------------
GroundTypeOK ==
  /\ points \in [Cells -> SUBSET Int]
  /\ stage \in {"growing", "clustering", "done"}
  /\ ground \subseteq Cells
  /\ front \subseteq Cells
  /\ candidates \subseteq Cells
  /\ taken \subseteq candidates
  /\ cluster \subseteq taken
  /\ clusters \subseteq SUBSET taken

Closed(S) == \A c \in S : Opened(c) \subseteq S

(* The ground is what can be driven to: when the growth ends, every cell   *)
(* the gates open from a ground cell is ground, and no part of the ground  *)
(* could be left out - each cell of it is reached from the seeds by gates  *)
(* that open, whatever the order of the queue and however the clouds lie.  *)
GroundIsReachable ==
  stage = "done" =>
    /\ Closed(ground)
    /\ \A T \in SUBSET (ground \ Seeds) :
         Closed(Seeds \cup T) => ground = Seeds \cup T

\* No candidate outside S is next to one in S.
Whole(S) == \A c \in S : Neighbours(c) \cap candidates \subseteq S

Component(S) ==
  /\ S # {}
  /\ Whole(S)
  /\ \A T \in SUBSET S : T # {} /\ Whole(T) => T = S

(* One obstacle is one cluster: the clusters returned are exactly the      *)
(* connected components of the candidates that have enough cells, so that  *)
(* none is split, merged with another, dropped or returned twice.          *)
ClustersAreComponents ==
  stage = "done" =>
    clusters = {S \in SUBSET candidates : Component(S) /\ Cardinality(S) >= MinCluster}

\* The ground of every column that has some lies, for the greater part, at z.
LevelAt(z) ==
  /\ ground # {}
  /\ \A col \in GroundCols :
       2 * Cardinality({c \in ColumnGround(col) : MinZ(c) = z})
         > Cardinality(ColumnGround(col))

(* What stands on a level road is found: if most of the ground found in    *)
(* each column lies at one height, a cell with something thicker than 2 cm *)
(* whose top is in the band of its distance above that height is marked,   *)
(* unless it is slender or among tall neighbours - and nothing else is.    *)
StandingIsFound ==
  stage = "done" =>
    \A z \in UNION {points[c] : c \in ground} : LevelAt(z) =>
      candidates =
        {c \in Cells :
           /\ Valid(c)
           /\ MaxZ(c) - z \in Max({0, Band(c[2])[1]}) .. Band(c[2])[2]
           /\ MaxZ(c) - MinZ(c) >= 20
           /\ OccupiedLayers(c) >= MinLayers
           /\ ~Vertical(c)
           /\ Cardinality({d \in ground \cap Neighbours(c) :
                             MaxZ(d) - z >= FarBand[2]}) < MinTall}
=============================================================================
