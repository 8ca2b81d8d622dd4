-------------------------- MODULE LsDecoderProofs --------------------------
(***************************************************************************)
(* The decoders of ls_driver that end a cloud at a mark, CH and LS128, for *)
(* every setup, start and course of losses that spares the marks: a cloud  *)
(* holds one round, and the whole of it when no packet was lost.           *)
(***************************************************************************)
EXTENDS LsDecoders, FiniteSetTheorems, WellFoundedInduction, TLAPS

-----------------------------------------------------------------------------
(* The inductive invariant, in named parts.                                *)

List == [n : Nat, rounds : SUBSET (0 .. 2)]
Fields == DOMAIN LsStart

Ls == lidar = "LS128"
\* Each return goes to a list of its own.
Both == echo = "dual" /\ ~Ls
\* The first place of a round that the filters leave out.
Top == IF Ls \/ (lidar = "CH64w" /\ echo = "single") THEN Wide ELSE Filler

TurnOf(k) == (k \div Around) % 3
Place(k) == k % Around
Seen(place) == IF place < Top THEN place ELSE Top

OneTurn(list) == \E t \in 0 .. 2 : list.rounds \subseteq {t}

\* LS128 hands over the first list, or the second as long as it reads a packet
\* with two returns; the others both lists.
EchoRight(d) ==
  IF Ls THEN d.echo \in {1, 2} /\ (echo = "single" => d.echo = 1) ELSE d.echo = 0

\* The lists hold points of the round the LiDAR is in, and only of that.
OfTurn(d, k) ==
  /\ d.all \in List /\ d.all.rounds \subseteq {TurnOf(k)}
  /\ d.all_d \in List /\ d.all_d.rounds \subseteq {TurnOf(k)}

\* They hold every point the round had so far.
Counted(d, k) ==
  /\ d.all.n = Seen(Place(k))
  /\ d.all_d.n = IF Both THEN Seen(Place(k)) ELSE 0

Exact == lost = 0 /\ ~(Ls /\ echo = "dual")

\* LS128 decodes nothing before it was told.
Deaf == Ls /\ ~dec.difop => made = 0 /\ dec.all.rounds = {} /\ dec.all_d.rounds = {}

Clouds ==
  /\ OfTurn(dec, at)
  /\ made \in 0 .. 3
  /\ Deaf
  /\ cloud \in List /\ OneTurn(cloud)
  /\ Exact /\ made > 0 => Counted(dec, at)
  /\ Exact /\ made > 1 => cloud.n = FullRound

MarkShape ==
  /\ lidar \in Lidars
  /\ echo \in {"single", "dual"}
  /\ lidar \in Marking => at \in Nat
  /\ lost \in Nat

MarkInv ==
  /\ MarkShape
  /\ lidar \in Marking /\ ~merged =>
       /\ DOMAIN dec = Fields
       /\ EchoRight(dec)
       /\ ~TwoRoundsAsked => Clouds

-----------------------------------------------------------------------------
(* Rounds and places.                                                      *)

LEMMA MinOfTwo ==
  ASSUME NEW a \in Int, NEW b \in Int
  PROVE  Min({a, b}) = IF a < b THEN a ELSE b
PROOF
  <1> DEFINE m == IF a < b THEN a ELSE b
  <1>1. m \in {a, b} /\ \A y \in {a, b} : m =< y
    OBVIOUS
  <1>2. \A x \in {a, b} : (\A y \in {a, b} : x =< y) => x = m
    OBVIOUS
  <1> QED
    BY <1>1, <1>2 DEF Min

\* From an entry to the next: on to the next place, or past the mark.
LEMMA NextPlace ==
  ASSUME NEW k \in Nat
  PROVE  /\ Place(k) \in 0 .. 7 /\ TurnOf(k) \in 0 .. 2
         /\ Place(k) < 7 => Place(k + 1) = Place(k) + 1 /\ TurnOf(k + 1) = TurnOf(k)
         /\ Place(k) = 7 => Place(k + 1) = 0
PROOF
  <1>1. Around = 8
    BY DEF Around, Filler
  <1>2. /\ k % 8 \in 0 .. 7 /\ k = 8 * (k \div 8) + (k % 8) /\ k \div 8 \in Nat
        /\ (k + 1) % 8 \in 0 .. 7 /\ k + 1 = 8 * ((k + 1) \div 8) + ((k + 1) % 8)
        /\ (k + 1) \div 8 \in Nat
    OBVIOUS
  <1>3. k % 8 < 7 => (k + 1) % 8 = (k % 8) + 1 /\ (k + 1) \div 8 = k \div 8
    BY <1>2
  <1>4. k % 8 = 7 => (k + 1) % 8 = 0
    BY <1>2
  <1>5. (k \div 8) % 3 \in 0 .. 2
    BY <1>2
  <1> QED
    BY <1>1, <1>2, <1>3, <1>4, <1>5 DEF Place, TurnOf

LEMMA EntryIs ==
  ASSUME NEW k \in Nat
  PROVE  /\ Entry(k).mark <=> Place(k) = 7
         /\ Place(k) < 7 => Entry(k).place = Place(k)
         /\ Entry(k).round = TurnOf(k)
PROOF
  <1>1. Around = 8 /\ Filler = 6
    BY DEF Around, Filler
  <1>2. Place(k) \in 0 .. 7
    BY NextPlace
  <1>3. Min({Place(k), 6}) = IF Place(k) < 6 THEN Place(k) ELSE 6
    BY <1>2, MinOfTwo
  <1>4. Place(k) < 7 => Min({Place(k), 6}) = Place(k)
    BY <1>2, <1>3
  <1>5. Entry(k) = [mark |-> Place(k) = 7, place |-> Min({Place(k), 6}), round |-> TurnOf(k)]
    BY <1>1 DEF Entry, Place, TurnOf
  <1>6. Entry(k).mark <=> Place(k) = 7
    <2>1. \A m \in BOOLEAN : \A p, r : [mark |-> m, place |-> p, round |-> r].mark = m
      OBVIOUS
    <2>2. (Place(k) = 7) \in BOOLEAN
      BY Zenon
    <2>3. Entry(k).mark = (Place(k) = 7)
      BY <1>5, <2>1, <2>2, Zenon
    <2> QED
      BY <2>3, Zenon
  <1> QED
    BY <1>4, <1>5, <1>6

LEMMA TopIs == Top \in {5, 6} /\ Wide = 5 /\ Filler = 6 /\ MaxPoints \in Nat /\ MaxPoints >= 12
  BY PointsAssumption DEF Top, Wide, Filler

\* The cloud of a whole round.
LEMMA FullRoundIs ==
  ASSUME lidar \in Marking
  PROVE  FullRound = IF Both THEN 2 * Top ELSE Top
PROOF
  <1>1. Cardinality(Places) = 7
    <2>1. 0 \in Int /\ 6 \in Int /\ 6 - 0 + 1 = 7 /\ ~(0 > 6)
      OBVIOUS
    <2>2. Cardinality(0 .. 6) = IF 0 > 6 THEN 0 ELSE 6 - 0 + 1
      BY <2>1, FS_Interval, Zenon
    <2> QED
      BY <2>1, <2>2 DEF Places, Filler
  <1>2. lidar \notin Windowed /\ lidar # "M10"
    BY DEF Marking, Channelled, Windowed
  <1> QED
    BY <1>1, <1>2 DEF FullRound, Both, Top, Ls, Wide, Filler

-----------------------------------------------------------------------------
(* The lists.                                                              *)

LEMMA JoinedIs ==
  ASSUME NEW a \in List, NEW b \in List
  PROVE  /\ Joined(a, b) \in List
         /\ Joined(a, b).rounds = a.rounds \cup b.rounds
         /\ a.n + b.n <= 12 => Joined(a, b).n = a.n + b.n
PROOF
  <1>1. a.n \in Nat /\ b.n \in Nat /\ a.rounds \in SUBSET (0 .. 2) /\ b.rounds \in SUBSET (0 .. 2)
    BY DEF List
  <1>2. Min({a.n + b.n, MaxPoints}) = IF a.n + b.n < MaxPoints THEN a.n + b.n ELSE MaxPoints
    BY <1>1, TopIs, MinOfTwo
  <1>3. Min({a.n + b.n, MaxPoints}) \in Nat
    BY <1>1, <1>2, TopIs
  <1>4. a.n + b.n <= 12 => Min({a.n + b.n, MaxPoints}) = a.n + b.n
    BY <1>1, <1>2, TopIs
  <1> QED
    BY <1>1, <1>3, <1>4 DEF Joined, List

LEMMA NoneIs == None \in List /\ None.n = 0 /\ None.rounds = {}
  BY DEF None, List

\* What a decoder hands over at an entry.
LEMMA HandedIs ==
  ASSUME lidar \in Marking, echo \in {"single", "dual"}, NEW k \in Nat, NEW d, EchoRight(d), OfTurn(d, k)
  PROVE  /\ Handed(d) \in List /\ OneTurn(Handed(d))
         /\ Exact /\ Counted(d, k) /\ Place(k) = 7 => Handed(d).n = FullRound
PROOF
  <1>1. TurnOf(k) \in 0 .. 2
    BY NextPlace
  <1>2. /\ d.all \in List /\ d.all_d \in List
        /\ d.all.rounds \subseteq {TurnOf(k)} /\ d.all_d.rounds \subseteq {TurnOf(k)}
    BY DEF OfTurn
  <1>3. /\ Joined(d.all, d.all_d) \in List
        /\ Joined(d.all, d.all_d).rounds \subseteq {TurnOf(k)}
        /\ d.all.n + d.all_d.n <= 12 => Joined(d.all, d.all_d).n = d.all.n + d.all_d.n
    BY <1>2, JoinedIs
  <1>4. /\ d.echo \in {0, 1, 2}
        /\ d.echo = 0 => Handed(d) = Joined(d.all, d.all_d)
        /\ d.echo = 1 => Handed(d) = d.all
        /\ d.echo = 2 => Handed(d) = d.all_d
    BY DEF EchoRight, Handed
  <1>5. Handed(d) \in List /\ Handed(d).rounds \subseteq {TurnOf(k)}
    BY <1>2, <1>3, <1>4
  <1>6. Counted(d, k) /\ Place(k) = 7 => d.all.n = Top /\ d.all_d.n = IF Both THEN Top ELSE 0
    BY TopIs DEF Counted, Seen
  <1>7. ASSUME Exact, Counted(d, k), Place(k) = 7
        PROVE  Handed(d).n = FullRound
    <2>1. d.all.n = Top /\ d.all_d.n = (IF Both THEN Top ELSE 0)
      BY <1>6, <1>7
    <2>2. FullRound = IF Both THEN 2 * Top ELSE Top
      BY FullRoundIs
    <2>3. CASE Ls
      <3>1. d.echo = 1 /\ ~Both
        BY <1>7, <2>3 DEF Exact, EchoRight, Both
      <3> QED
        BY <1>4, <2>1, <2>2, <3>1
    <2>4. CASE ~Ls
      <3>1. d.echo = 0
        BY <2>4 DEF EchoRight
      <3>2. Joined(d.all, d.all_d).n = d.all.n + d.all_d.n
        BY <1>3, <2>1, TopIs
      <3> QED
        BY <1>4, <2>1, <2>2, <3>1, <3>2, TopIs
    <2> QED
      BY <2>3, <2>4
  <1> QED
    BY <1>1, <1>5, <1>7 DEF OneTurn

\* An entry with a point puts it into the first list, or into both.
LEMMA AddedIs ==
  ASSUME NEW k \in Nat, Place(k) < 7, NEW d, DOMAIN d = Fields, OfTurn(d, k), NEW c \in 1 .. 2
  PROVE  /\ OfTurn(Added(d, [n |-> c, rounds |-> {TurnOf(k)}], Both), k + 1)
         /\ Place(k) < Top /\ c = 1 /\ Counted(d, k) =>
              Counted(Added(d, [n |-> c, rounds |-> {TurnOf(k)}], Both), k + 1)
PROOF
  <1> DEFINE point == [n |-> c, rounds |-> {TurnOf(k)}]
             new == Added(d, point, Both)
  <1>1. /\ TurnOf(k) \in 0 .. 2 /\ TurnOf(k + 1) = TurnOf(k)
        /\ Place(k) \in 0 .. 7 /\ Place(k + 1) = Place(k) + 1
    BY NextPlace
  <1>2. point \in List /\ point.n = c /\ point.rounds = {TurnOf(k)}
    BY <1>1 DEF List
  <1>3. /\ d.all \in List /\ d.all_d \in List
        /\ d.all.rounds \subseteq {TurnOf(k)} /\ d.all_d.rounds \subseteq {TurnOf(k)}
        /\ d.all.n \in Nat /\ d.all_d.n \in Nat
    BY DEF OfTurn, List
  <1> HIDE DEF point
  <1>4. \A l \in List : /\ Joined(l, point) \in List
                        /\ Joined(l, point).rounds = l.rounds \cup {TurnOf(k)}
                        /\ l.n + c <= 12 => Joined(l, point).n = l.n + c
    BY <1>2, JoinedIs
  <1>5. /\ new.all = Joined(d.all, point)
        /\ new.all_d = IF Both THEN Joined(d.all_d, point) ELSE d.all_d
    BY DEF Added, Fields, LsStart
  <1> HIDE DEF new
  <1>6. OfTurn(new, k + 1)
    BY <1>1, <1>3, <1>4, <1>5 DEF OfTurn
  <1>7. ASSUME Place(k) < Top, c = 1, Counted(d, k)
        PROVE  Counted(new, k + 1)
    <2>1. /\ Seen(Place(k)) = Place(k) /\ Seen(Place(k + 1)) = Place(k) + 1
      BY <1>1, <1>7, TopIs DEF Seen
    <2>2. d.all.n = Place(k) /\ (Both => d.all_d.n = Place(k)) /\ (~Both => d.all_d.n = 0)
      BY <1>7, <2>1 DEF Counted
    <2>3. Place(k) + 1 <= 12
      BY <1>1
    <2>4. new.all.n = Place(k) + 1
      BY <1>3, <1>4, <1>5, <1>7, <2>2, <2>3
    <2>5. new.all_d.n = IF Both THEN Place(k) + 1 ELSE 0
      BY <1>3, <1>4, <1>5, <1>7, <2>2, <2>3
    <2> QED
      BY <2>1, <2>4, <2>5 DEF Counted
  <1> QED
    BY <1>6, <1>7 DEF point, new

-----------------------------------------------------------------------------
(* A packet, entry by entry.                                               *)

\* A packet is read as far as entry k: the decoder it left so far, and the
\* clouds it ended.
Reading(s, k) ==
  /\ s = [d |-> s.d, out |-> s.out]
  /\ DOMAIN s.d = Fields
  /\ s.d.add = dec.add /\ s.d.difop = dec.difop
  /\ EchoRight(s.d)
  /\ ~TwoRoundsAsked =>
       /\ OfTurn(s.d, k)
       /\ s.out \in Seq(List)
       /\ Exact /\ made + Len(s.out) > 0 => Counted(s.d, k)
       /\ \A i \in 1 .. Len(s.out) :
            /\ OneTurn(s.out[i])
            /\ Exact /\ made + i > 1 => s.out[i].n = FullRound

\* The loop bodies of the packets, for all the LiDARs with marks.
Take(s, e) ==
  IF Ls THEN LS128Entry(s, e, echo = "dual")
  ELSE MarkEntry(s, e, 0 .. Top - 1, echo = "dual")

\* A mark ends the cloud and leaves the lists empty.
LEMMA MarkIsTaken ==
  ASSUME lidar \in Marking, echo \in {"single", "dual"}, ~TwoRoundsAsked, made \in Nat,
         NEW k \in Nat, Place(k) = 7, NEW s, Reading(s, k)
  PROVE  Reading([d |-> Cleared(s.d), out |-> Append(s.out, Handed(s.d))], k + 1)
PROOF
  <1> DEFINE d == s.d
             out == s.out
             h == Handed(d)
             c == Cleared(d)
             more == Append(out, h)
             r == [d |-> c, out |-> more]
  <1>1. /\ DOMAIN d = Fields /\ d.add = dec.add /\ d.difop = dec.difop
        /\ EchoRight(d) /\ OfTurn(d, k)
        /\ out \in Seq(List)
        /\ Exact /\ made + Len(out) > 0 => Counted(d, k)
        /\ \A i \in 1 .. Len(out) :
             /\ OneTurn(out[i])
             /\ Exact /\ made + i > 1 => out[i].n = FullRound
    BY DEF Reading
  <1> HIDE DEF d, out
  <1>2. /\ DOMAIN c = Fields /\ c.add = d.add /\ c.difop = d.difop /\ c.echo = d.echo
        /\ c.all = None /\ c.all_d = None
    BY <1>1 DEF Cleared, Fields, LsStart
  <1>3. EchoRight(c)
    BY <1>1, <1>2 DEF EchoRight
  <1>4. TurnOf(k + 1) \in 0 .. 2 /\ Place(k + 1) = 0
    BY NextPlace
  <1>5. OfTurn(c, k + 1)
    BY <1>2, NoneIs DEF OfTurn
  <1>6. Counted(c, k + 1)
    BY <1>2, <1>4, NoneIs, TopIs DEF Counted, Seen
  <1>7. h \in List /\ OneTurn(h) /\ (Exact /\ Counted(d, k) => h.n = FullRound)
    BY <1>1, HandedIs
  <1> HIDE DEF h, c
  <1>8. /\ more \in Seq(List) /\ Len(more) = Len(out) + 1 /\ Len(out) \in Nat
        /\ \A i \in 1 .. Len(out) : more[i] = out[i]
        /\ more[Len(out) + 1] = h
    BY <1>1, <1>7
  <1> HIDE DEF more
  <1>9. ASSUME NEW i \in 1 .. Len(more)
        PROVE  OneTurn(more[i]) /\ (Exact /\ made + i > 1 => more[i].n = FullRound)
    <2>1. CASE i \in 1 .. Len(out)
      BY <1>1, <1>8, <2>1
    <2>2. CASE i = Len(out) + 1
      <3>1. Exact /\ made + i > 1 => Counted(d, k)
        BY <1>1, <1>8, <2>2
      <3> QED
        BY <1>7, <1>8, <2>2, <3>1
    <2> QED
      BY <1>8, <2>1, <2>2
  <1>10. r.d = c /\ r.out = more /\ r = [d |-> r.d, out |-> r.out]
    OBVIOUS
  <1> HIDE DEF r
  <1>11. Reading(r, k + 1)
    BY <1>1, <1>2, <1>3, <1>5, <1>6, <1>8, <1>9, <1>10 DEF Reading
  <1> QED
    BY <1>11 DEF r, c, more, h, d, out

\* So does a point, which goes to the lists, and a point that is left out.
LEMMA PointIsTaken ==
  ASSUME NEW k \in Nat, Place(k) < Top, NEW s, Reading(s, k),
         NEW c \in 1 .. 2, Exact => c = 1
  PROVE  Reading([s EXCEPT !.d = Added(@, [n |-> c, rounds |-> {TurnOf(k)}], Both)], k + 1)
PROOF
  <1> DEFINE point == [n |-> c, rounds |-> {TurnOf(k)}]
             new == Added(s.d, point, Both)
             r == [s EXCEPT !.d = new]
  <1>1. /\ s = [d |-> s.d, out |-> s.out] /\ DOMAIN s.d = Fields /\ EchoRight(s.d)
        /\ ~TwoRoundsAsked => OfTurn(s.d, k)
    BY DEF Reading
  <1>2. ASSUME ~TwoRoundsAsked
        PROVE  OfTurn(new, k + 1) /\ (Exact /\ Counted(s.d, k) => Counted(new, k + 1))
    <2>1. Place(k) < 7
      BY TopIs, NextPlace
    <2>2. OfTurn(new, k + 1) /\ (c = 1 /\ Counted(s.d, k) => Counted(new, k + 1))
      BY <1>1, <1>2, <2>1, AddedIs, Zenon
    <2> QED
      BY <2>2
  <1>3. /\ DOMAIN new = Fields /\ new.add = s.d.add /\ new.difop = s.d.difop
        /\ new.echo = s.d.echo
    BY <1>1 DEF Added, Fields, LsStart
  <1>4. EchoRight(new)
    BY <1>1, <1>3 DEF EchoRight
  <1> HIDE DEF new
  <1>5. r.d = new /\ r.out = s.out /\ r = [d |-> r.d, out |-> r.out]
    BY <1>1
  <1> HIDE DEF r
  <1>6. Reading(r, k + 1)
    BY <1>2, <1>3, <1>4, <1>5 DEF Reading
  <1> QED
    BY <1>6 DEF r, new, point

LEMMA PointIsLeft ==
  ASSUME NEW k \in Nat, Place(k) < 7, Top <= Place(k), NEW s, Reading(s, k)
  PROVE  Reading(s, k + 1)
PROOF
  <1>1. /\ TurnOf(k + 1) = TurnOf(k)
        /\ Place(k) \in 0 .. 7 /\ Place(k + 1) = Place(k) + 1
    BY NextPlace
  <1>2. Seen(Place(k + 1)) = Seen(Place(k))
    BY <1>1, TopIs DEF Seen
  <1> QED
    BY <1>1, <1>2 DEF Reading, OfTurn, Counted

\* LS128 asked for two rounds per cloud: nothing is claimed but the settings.
LEMMA MarkOfTwoRounds ==
  ASSUME TwoRoundsAsked, NEW k \in Nat, NEW s, Reading(s, k)
  PROVE  LET m == LS128Mark(s.d, echo = "dual")
         IN  Reading([d |-> m.d, out |-> s.out \o m.out], k + 1)
PROOF
  <1> DEFINE d == s.d
             m == LS128Mark(d, echo = "dual")
             r == [d |-> m.d, out |-> s.out \o m.out]
  <1>1. /\ DOMAIN d = Fields /\ d.add = dec.add /\ d.difop = dec.difop
        /\ EchoRight(d) /\ Ls /\ dec.add
    BY DEF Reading, TwoRoundsAsked, Ls
  <1> HIDE DEF d
  <1>2. /\ DOMAIN m.d = DOMAIN d /\ m.d.add = d.add /\ m.d.difop = d.difop
        /\ m.d.echo \in {1, d.echo}
    BY <1>1 DEF LS128Mark, Cleared, Ignored, Fields, LsStart
  <1> HIDE DEF m
  <1>3. EchoRight(m.d)
    BY <1>1, <1>2 DEF EchoRight
  <1>4. Reading(r, k + 1)
    BY <1>1, <1>2, <1>3 DEF Reading
  <1> QED
    BY <1>4 DEF r, m, d

LEMMA EntryIsTaken ==
  ASSUME lidar \in Marking, echo \in {"single", "dual"}, ~TwoRoundsAsked => made \in Nat,
         NEW k \in Nat, NEW s, Reading(s, k)
  PROVE  Reading(Take(s, Entry(k)), k + 1)
PROOF
  <1> DEFINE e == Entry(k)
             dual == echo = "dual"
  <1>1. /\ Place(k) \in 0 .. 7
        /\ e.mark <=> Place(k) = 7
        /\ Place(k) < 7 => e.place = Place(k)
        /\ e.round = TurnOf(k)
    BY NextPlace, EntryIs
  <1> HIDE DEF e
  <1>2. Ls => Top = 5 /\ LS128Kept = 0 .. Top - 1
    BY DEF Top, LS128Kept, Places, Wide, Filler
  <1>3. CASE Place(k) = 7 /\ TwoRoundsAsked
    <2>1. Take(s, e) = LET m == LS128Mark(s.d, dual) IN [d |-> m.d, out |-> s.out \o m.out]
      BY <1>1, <1>3 DEF Take, LS128Entry, TwoRoundsAsked, Ls
    <2> QED
      BY <1>3, <2>1, MarkOfTwoRounds, Zenon DEF e
  <1>4. CASE Place(k) = 7 /\ ~TwoRoundsAsked
    <2> DEFINE h == Handed(s.d)
    <2>1. s.out \in Seq(List) /\ h \in List
      BY <1>4, HandedIs DEF Reading
    <2>2. CASE Ls
      <3>1. ~s.d.add
        BY <1>4, <2>2 DEF Reading, TwoRoundsAsked, Ls
      <3>2. LS128Mark(s.d, dual) = [d |-> Cleared(s.d), out |-> <<h>>]
        BY <3>1, Zenon DEF LS128Mark
      <3>3. Take(s, e) = [d |-> Cleared(s.d), out |-> s.out \o <<h>>]
        <4> DEFINE m == LS128Mark(s.d, dual)
        <4>1. Take(s, e) = [d |-> m.d, out |-> s.out \o m.out]
          BY <1>1, <1>4, <2>2 DEF Take, LS128Entry
        <4>2. m = [d |-> Cleared(s.d), out |-> <<h>>]
          BY <3>2
        <4> HIDE DEF m, h
        <4>3. m.d = Cleared(s.d) /\ m.out = <<h>>
          BY <4>2
        <4> QED
          BY <4>1, <4>3
      <3> HIDE DEF h
      <3>4. s.out \o <<h>> = Append(s.out, h)
        BY <2>1
      <3>5. Take(s, e) = [d |-> Cleared(s.d), out |-> Append(s.out, h)]
        BY <3>3, <3>4
      <3> QED
        BY <1>4, <3>5, MarkIsTaken DEF h, e
    <2>3. CASE ~Ls
      <3>1. Take(s, e) = [d |-> Cleared(s.d), out |-> Append(s.out, h)]
        BY <1>1, <1>4, <2>3 DEF Take, MarkEntry
      <3> QED
        BY <1>4, <3>1, MarkIsTaken DEF e
    <2> QED
      BY <2>2, <2>3
  <1>5. CASE Place(k) < Top
    <2>1. ~e.mark /\ e.place = Place(k) /\ e.place \in 0 .. Top - 1
      BY <1>1, <1>5, TopIs
    <2>2. PICK c \in 1 .. 2 :
            /\ Exact => c = 1
            /\ Take(s, e) = [s EXCEPT !.d = Added(@, [n |-> c, rounds |-> {TurnOf(k)}], Both)]
      <3>1. CASE Ls
        <4>1. Take(s, e) = [s EXCEPT !.d = Added(@, [n |-> IF dual THEN 2 ELSE 1,
                                                     rounds |-> {TurnOf(k)}], FALSE)]
          BY <1>1, <1>2, <2>1, <3>1 DEF Take, LS128Entry
        <4>2. \A p : Added(s.d, p, FALSE) = Added(s.d, p, Both)
          BY <3>1 DEF Added, Both
        <4> DEFINE c == IF dual THEN 2 ELSE 1
        <4>3. c \in 1 .. 2 /\ (Exact => c = 1)
          BY <3>1 DEF Exact
        <4> QED
          BY <4>1, <4>2, <4>3
      <3>2. CASE ~Ls
        <4>1. Take(s, e) = [s EXCEPT !.d = Added(@, [n |-> 1, rounds |-> {TurnOf(k)}], dual)]
          BY <1>1, <2>1, <3>2 DEF Take, MarkEntry
        <4>2. \A p : Added(s.d, p, dual) = Added(s.d, p, Both)
          BY <3>2 DEF Added, Both
        <4> QED
          BY <4>1, <4>2
      <3> QED
        BY <3>1, <3>2
    <2> QED
      BY <1>5, <2>2, PointIsTaken DEF e
  <1>6. CASE Place(k) < 7 /\ Top <= Place(k)
    <2>1. ~e.mark /\ e.place \notin 0 .. Top - 1
      BY <1>1, <1>6, TopIs
    <2>2. Take(s, e) = s
      BY <1>2, <2>1 DEF Take, LS128Entry, MarkEntry
    <2> QED
      BY <1>6, <2>2, PointIsLeft DEF e
  <1> QED
    BY <1>1, <1>3, <1>4, <1>5, <1>6, TopIs DEF e

-----------------------------------------------------------------------------
(* The loop over the entries of a packet.                                  *)

\* The loop reads n entries of q, from s on.
IsLoop(f, n, s, q) == f = [i \in 0 .. n |-> IF i = 0 THEN s ELSE Take(f[i - 1], q[i])]

LEMMA LoopEnds ==
  ASSUME NEW s, NEW q, NEW n \in Nat
  PROVE  \E f : IsLoop(f, n, s, q)
PROOF
  <1> DEFINE S == {m \in Nat : ~ \E f : IsLoop(f, m, s, q)}
  <1>1. SUFFICES ASSUME S # {} PROVE FALSE
    OBVIOUS
  <1>2. PICK m \in S : \A j \in S : ~(<<j, m>> \in OpToRel(<, Nat))
    BY <1>1, NatLessThanWellFounded, WFMin
  <1>3. m \in Nat /\ ~ \E f : IsLoop(f, m, s, q)
    OBVIOUS
  <1>4. CASE m = 0
    <2> DEFINE f == [i \in 0 .. 0 |-> s]
    <2>1. \A i \in 0 .. 0 : i = 0
      OBVIOUS
    <2>2. f = [i \in 0 .. 0 |-> IF i = 0 THEN s ELSE Take(f[i - 1], q[i])]
      BY <2>1
    <2> QED
      BY <1>3, <1>4, <2>2 DEF IsLoop
  <1>5. CASE m # 0
    <2>1. m - 1 \in Nat /\ m - 1 < m
      BY <1>3, <1>5
    <2>2. <<m - 1, m>> \in OpToRel(<, Nat)
      BY <1>3, <2>1 DEF OpToRel
    <2>3. PICK f : IsLoop(f, m - 1, s, q)
      BY <1>2, <2>1, <2>2
    <2> DEFINE g == [i \in 0 .. m |-> IF i = m THEN Take(f[m - 1], q[m]) ELSE f[i]]
    <2>4. \A i \in 0 .. m - 1 : g[i] = f[i]
      BY <1>3
    <2>5. \A i \in 0 .. m - 1 : f[i] = IF i = 0 THEN s ELSE Take(f[i - 1], q[i])
      BY <2>3 DEF IsLoop
    <2>6. \A i \in 0 .. m : g[i] = IF i = 0 THEN s ELSE Take(g[i - 1], q[i])
      <3> TAKE i \in 0 .. m
      <3>1. CASE i = m
        <4>1. g[i] = Take(f[m - 1], q[m]) /\ m - 1 \in 0 .. m - 1
          BY <1>3, <2>1, <3>1
        <4> QED
          BY <1>5, <2>4, <3>1, <4>1
      <3>2. CASE i # m
        <4>1. i \in 0 .. m - 1 /\ (i # 0 => i - 1 \in 0 .. m - 1)
          BY <1>3, <3>2
        <4> QED
          BY <2>4, <2>5, <4>1
      <3> QED
        BY <3>1, <3>2
    <2>7. g = [i \in 0 .. m |-> IF i = 0 THEN s ELSE Take(g[i - 1], q[i])]
      <3> HIDE DEF g
      <3>1. g = [i \in 0 .. m |-> g[i]]
        BY DEF g
      <3> QED
        BY <2>6, <3>1
    <2> QED
      BY <1>3, <2>7 DEF IsLoop
  <1> QED
    BY <1>4, <1>5

LEMMA LoopReads ==
  ASSUME lidar \in Marking, echo \in {"single", "dual"}, ~TwoRoundsAsked => made \in Nat,
         NEW k \in Nat, NEW s, Reading(s, k), NEW n \in Nat, NEW q,
         \A i \in 1 .. n : q[i] = Entry(k + i - 1),
         NEW f, IsLoop(f, n, s, q)
  PROVE  Reading(f[n], k + n)
PROOF
  <1> DEFINE S == {m \in Nat : m <= n /\ ~Reading(f[m], k + m)}
  <1>1. SUFFICES ASSUME S # {} PROVE FALSE
    OBVIOUS
  <1>2. PICK m \in S : \A j \in S : ~(<<j, m>> \in OpToRel(<, Nat))
    BY <1>1, NatLessThanWellFounded, WFMin
  <1>3. m \in Nat /\ m <= n /\ ~Reading(f[m], k + m)
    OBVIOUS
  <1>4. \A i \in 0 .. n : f[i] = IF i = 0 THEN s ELSE Take(f[i - 1], q[i])
    BY DEF IsLoop
  <1>5. m # 0
    <2>1. f[0] = s /\ k + 0 = k
      BY <1>4
    <2> QED
      BY <1>3, <2>1
  <1>6. m - 1 \in Nat /\ m - 1 < m /\ m - 1 <= n /\ k + (m - 1) \in Nat
    BY <1>3, <1>5
  <1>7. <<m - 1, m>> \in OpToRel(<, Nat)
    BY <1>3, <1>6 DEF OpToRel
  <1>8. Reading(f[m - 1], k + (m - 1))
    BY <1>2, <1>6, <1>7
  <1>9. f[m] = Take(f[m - 1], Entry(k + (m - 1)))
    <2>1. m \in 0 .. n /\ m \in 1 .. n /\ k + m - 1 = k + (m - 1)
      BY <1>3, <1>5
    <2> QED
      BY <1>4, <1>5, <2>1
  <1>10. Reading(Take(f[m - 1], Entry(k + (m - 1))), k + (m - 1) + 1)
    BY <1>6, <1>8, EntryIsTaken
  <1>11. k + (m - 1) + 1 = k + m
    BY <1>3
  <1> QED
    BY <1>3, <1>9, <1>10, <1>11

\* A packet of n entries that is taken apart as it was set up.
LEMMA PacketIsRead ==
  ASSUME lidar \in Marking, echo \in {"single", "dual"}, ~TwoRoundsAsked => made \in Nat,
         NEW k \in Nat, NEW n \in Nat, NEW p, p.echo = echo,
         p.entries = [i \in 1 .. n |-> Entry(k + i - 1)], Reading(Ignored(dec), k)
  PROVE  /\ ~Ls => Reading(MarkPacket(dec, p, 0 .. Top - 1, echo = "dual"), k + n)
         /\ Ls => Reading(LS128Packet(dec, p), k + n)
PROOF
  <1> DEFINE q == p.entries
  <1>1. Len(q) = n /\ \A i \in 1 .. n : q[i] = Entry(k + i - 1)
    <2> DEFINE T == {Entry(k + i - 1) : i \in 1 .. n}
    <2>1. \A i \in 1 .. n : Entry(k + i - 1) \in T
      OBVIOUS
    <2> HIDE DEF T
    <2>2. q \in [1 .. n -> T] /\ DOMAIN q = 1 .. n
      BY <2>1
    <2>3. q \in Seq(T)
      BY <2>2
    <2> QED
      BY <2>2, <2>3
  <1> HIDE DEF q
  <1>2. CASE ~Ls
    <2> DEFINE Is(f) == f = [i \in 0 .. n |-> IF i = 0 THEN Ignored(dec)
                               ELSE MarkEntry(f[i - 1], q[i], 0 .. Top - 1, echo = "dual")]
               F == CHOOSE f : Is(f)
    <2>1. \A f : Is(f) <=> IsLoop(f, n, Ignored(dec), q)
      BY <1>2 DEF IsLoop, Take
    <2>2. IsLoop(F, n, Ignored(dec), q)
      <3>1. \E f : Is(f)
        BY <2>1, LoopEnds
      <3>2. Is(F)
        BY <3>1, Zenon
      <3> QED
        BY <2>1, <3>2
    <2>3. MarkPacket(dec, p, 0 .. Top - 1, echo = "dual") = F[n]
      BY <1>1, Zenon DEF MarkPacket, q
    <2> HIDE DEF F
    <2>4. Reading(F[n], k + n)
      BY <1>1, <2>2, LoopReads
    <2> QED
      BY <1>2, <2>3, <2>4
  <1>3. CASE Ls
    <2> DEFINE first == IF p.echo = "dual" THEN [dec EXCEPT !.echo = 2] ELSE dec
               dual == first.echo # 1
               read == IF dual = (p.echo = "dual") THEN p ELSE Misread(p)
               Is(f) == f = [i \in 0 .. Len(read.entries) |-> IF i = 0 THEN Ignored(first)
                               ELSE LS128Entry(f[i - 1], read.entries[i], dual)]
               F == CHOOSE f : Is(f)
    <2>1. /\ DOMAIN dec = Fields /\ EchoRight(dec)
          /\ Ignored(dec).d = dec /\ Ignored(dec).out = <<>>
      BY DEF Reading, Ignored
    <2>2. /\ DOMAIN first = Fields /\ first.add = dec.add /\ first.difop = dec.difop
          /\ first.all = dec.all /\ first.all_d = dec.all_d
          /\ first.echo = IF echo = "dual" THEN 2 ELSE 1
      BY <1>3, <2>1 DEF EchoRight, Fields, LsStart
    <2>3. dual <=> echo = "dual"
      BY <2>2
    <2> HIDE DEF first
    <2>4. Reading(Ignored(first), k)
      BY <1>3, <2>1, <2>2 DEF Reading, Ignored, EchoRight, OfTurn, Counted
    <2>5. \A s, e : Take(s, e) = LS128Entry(s, e, dual)
      <3>1. dual \in BOOLEAN /\ (echo = "dual") \in BOOLEAN
        BY Zenon
      <3>2. dual = (echo = "dual")
        BY <2>3, <3>1
      <3> QED
        BY <1>3, <3>2 DEF Take
    <2>6. \A f : Is(f) <=> IsLoop(f, n, Ignored(first), q)
      <3>1. dual = (p.echo = "dual")
        BY <2>3
      <3>2. read.entries = q /\ Len(read.entries) = n
        BY <1>1, <3>1 DEF q
      <3> HIDE DEF read
      <3> QED
        BY <2>5, <3>2 DEF IsLoop
    <2>7. IsLoop(F, n, Ignored(first), q)
      <3>1. \E f : Is(f)
        BY <2>6, LoopEnds
      <3>2. Is(F)
        BY <3>1, Zenon
      <3> QED
        BY <2>6, <3>2
    <2>8. LS128Packet(dec, p) = F[n]
      <3>1. LS128Packet(dec, p) = F[Len(read.entries)]
        BY Zenon DEF LS128Packet, first
      <3>2. Len(read.entries) = n
        BY <1>1, <2>3 DEF q
      <3> HIDE DEF F, read
      <3> QED
        BY <3>1, <3>2
    <2> HIDE DEF F
    <2>9. Reading(F[n], k + n)
      BY <1>1, <2>4, <2>7, LoopReads
    <2> QED
      BY <1>3, <2>8, <2>9
  <1> QED
    BY <1>2, <1>3

-----------------------------------------------------------------------------
(* The packets of the LiDARs.                                              *)

LEMMA MarkingIs ==
  ASSUME lidar \in Marking
  PROVE  /\ lidar \notin Windowed /\ lidar # "M10"
         /\ lidar \in {"CH64w", "CH128x1", "CH128S1", "CH16x1", "CH32", "CH32_WideAngle",
                       "CH64", "LS128"}
  BY DEF Marking, Channelled, Windowed

LEMMA SpanIs ==
  ASSUME lidar \in Marking
  PROVE  Span \in {2, 3}
  BY MarkingIs DEF Span

LEMMA KeptIs == Places \ {Filler} = 0 .. 5 /\ Places \ {Wide, Filler} = 0 .. 4
  BY DEF Places, Filler, Wide

\* A packet of points is read with the filters and the number of returns that
\* Take has, by each of the classes.
LEMMA DecodeIs ==
  ASSUME lidar \in Marking, echo \in {"single", "dual"}, NEW p, p.kind = "points", p.echo = echo, p.stray = echo
  PROVE  /\ ~Ls => Decode(p) = MarkPacket(dec, p, 0 .. Top - 1, echo = "dual")
         /\ Ls => Decode(p) = IF dec.difop THEN LS128Packet(dec, p) ELSE Ignored(dec)
PROOF
  <1> DEFINE Read(top, dual) == MarkPacket(dec, p, 0 .. top - 1, dual)
  <1>1. 6 - 1 = 5 /\ 5 - 1 = 4
    OBVIOUS
  <1>2. MarkPacket(dec, p, Places \ {Filler}, TRUE) = Read(6, TRUE)
    BY <1>1, KeptIs
  <1>3. MarkPacket(dec, p, Places \ {Filler}, FALSE) = Read(6, FALSE)
    BY <1>1, KeptIs
  <1>4. MarkPacket(dec, p, Places \ {Wide, Filler}, FALSE) = Read(5, FALSE)
    BY <1>1, KeptIs
  <1>5. CASE lidar \notin {"CH64w", "LS128"}
    <2>1. Top = 6 /\ ~Ls
      BY <1>5 DEF Top, Ls, Filler
    <2>2. Decode(p) = IF echo = "dual" THEN MarkPacket(dec, p, Places \ {Filler}, TRUE)
                                       ELSE MarkPacket(dec, p, Places \ {Filler}, FALSE)
      <3>1. CASE lidar = "CH128x1"
        BY <3>1 DEF Decode, CH128x1Run, CH128x1Single, CH128x1Double
      <3>2. CASE lidar = "CH128S1"
        BY <3>2 DEF Decode, CH128S1Run, CH128S1Single, CH128S1Double
      <3>3. CASE lidar = "CH16x1"
        BY <3>3 DEF Decode, CH16x1Run, CH16x1Single, CH16x1Double
      <3>4. CASE lidar = "CH32"
        BY <3>4 DEF Decode, CH32Run, CH32Single, CH32Double
      <3>5. CASE lidar = "CH32_WideAngle"
        BY <3>5 DEF Decode, CH32WideRun, CH32WideSingle, CH32WideDouble
      <3>6. CASE lidar = "CH64"
        BY <3>6 DEF Decode, CH64Run, CH64Single, CH64Double
      <3> QED
        BY <1>5, <3>1, <3>2, <3>3, <3>4, <3>5, <3>6, MarkingIs
    <2>3. Decode(p) = Read(Top, echo = "dual")
      <3>1. CASE echo = "dual"
        <4>1. (echo = "dual") = TRUE
          BY <3>1, Zenon
        <4>2. Decode(p) = Read(Top, TRUE)
          BY <1>2, <2>1, <2>2, <3>1
        <4> QED
          BY <4>1, <4>2, Zenon
      <3>2. CASE echo # "dual"
        <4>1. (echo = "dual") = FALSE
          BY <3>2, Zenon
        <4>2. Decode(p) = Read(Top, FALSE)
          BY <1>3, <2>1, <2>2, <3>2
        <4> QED
          BY <4>1, <4>2, Zenon
      <3> QED
        BY <3>1, <3>2
    <2> QED
      BY <2>1, <2>3
  <1>6. CASE lidar = "CH64w"
    <2>1. Decode(p) = IF echo = "dual" THEN MarkPacket(dec, p, Places \ {Filler}, TRUE)
                                       ELSE MarkPacket(dec, p, Places \ {Wide, Filler}, FALSE)
      BY <1>6 DEF Decode, CH64wRun, CH64wSingle, CH64wDouble
    <2>2. CASE echo = "dual"
      <3>1. (echo = "dual") = TRUE
        BY <2>2, Zenon
      <3>2. Top = 6 \/ echo = "single"
        BY <1>6 DEF Top, Ls, Filler
      <3>3. Decode(p) = Read(Top, TRUE)
        BY <1>2, <2>1, <2>2, <3>2
      <3>4. Decode(p) = Read(Top, echo = "dual")
        BY <3>1, <3>3, Zenon
      <3> QED
        BY <1>6, <3>4 DEF Ls
    <2>3. CASE echo = "single"
      <3>1. (echo = "dual") = FALSE
        BY <2>3
      <3>2. Top = 5
        BY <1>6, <2>3 DEF Top, Wide
      <3>3. Decode(p) = Read(Top, FALSE)
        BY <1>4, <2>1, <2>3, <3>2
      <3>4. Decode(p) = Read(Top, echo = "dual")
        BY <3>1, <3>3, Zenon
      <3> QED
        BY <1>6, <3>4 DEF Ls
    <2> QED
      BY <2>2, <2>3
  <1>7. CASE lidar = "LS128"
    BY <1>7 DEF Decode, LS128Run, Ls
  <1> QED
    BY <1>5, <1>6, <1>7

\* A device packet leaves the lists alone; LS128 hears of two rounds there.
LEMMA DeviceIs ==
  ASSUME lidar \in Marking, lidar \in HasDevicePackets, DOMAIN dec = Fields,
         NEW p, p.kind = "device"
  PROVE  LET d == Decode(p).d
         IN  /\ Decode(p).out = <<>>
             /\ DOMAIN d = Fields /\ d.echo = dec.echo
             /\ d.all = dec.all /\ d.all_d = dec.all_d
             /\ Ls => d.difop /\ (dec.add => d.add)
PROOF
  <1>1. CASE Ls
    <2>1. Decode(p) = Ignored(LS128Device(dec, p))
      BY <1>1 DEF Decode, LS128Run, Ls
    <2> DEFINE more == dec.add \/ p.add
               d == [dec EXCEPT !.difop = TRUE, !.add = more]
    <2>2. LS128Device(dec, p) = d
      BY Zenon DEF LS128Device
    <2>3. more \in BOOLEAN /\ (dec.add => more)
      BY Zenon
    <2>4. \A m \in BOOLEAN : LET e == [dec EXCEPT !.difop = TRUE, !.add = m]
                            IN  /\ DOMAIN e = Fields /\ e.echo = dec.echo
                                /\ e.all = dec.all /\ e.all_d = dec.all_d
                                /\ e.difop = TRUE /\ e.add = m
      BY DEF Fields, LsStart
    <2>5. /\ DOMAIN d = Fields /\ d.echo = dec.echo
          /\ d.all = dec.all /\ d.all_d = dec.all_d
          /\ d.difop = TRUE /\ d.add = more
      BY <2>3, <2>4, Zenon
    <2>6. d.difop /\ (dec.add => d.add)
      BY <2>3, <2>5, Zenon
    <2> HIDE DEF d
    <2>7. Decode(p).d = d /\ Decode(p).out = <<>>
      BY <2>1, <2>2 DEF Ignored
    <2> QED
      BY <2>5, <2>6, <2>7, Zenon
  <1>2. CASE ~Ls
    <2>1. Decode(p) \in {Ignored(CH64wOffset(dec, p)), Ignored(CH128x1Offset(dec, p)),
                         Ignored(CH128S1Offset(dec, p)), Ignored(CH16x1Offset(dec, p))}
      <3>1. lidar \in {"CH64w", "CH128x1", "CH128S1", "CH16x1"}
        BY <1>2, MarkingIs DEF HasDevicePackets, Ls
      <3>2. CASE lidar = "CH64w"
        BY <3>2 DEF Decode, CH64wRun
      <3>3. CASE lidar = "CH128x1"
        BY <3>3 DEF Decode, CH128x1Run
      <3>4. CASE lidar = "CH128S1"
        BY <3>4 DEF Decode, CH128S1Run
      <3>5. CASE lidar = "CH16x1"
        BY <3>5 DEF Decode, CH16x1Run
      <3> QED
        BY <3>1, <3>2, <3>3, <3>4, <3>5
    <2>2. PICK x : Decode(p) = Ignored([dec EXCEPT !.prism = x])
      BY <2>1 DEF CH64wOffset, CH128x1Offset, CH128S1Offset, CH16x1Offset
    <2> QED
      BY <1>2, <2>2 DEF Ignored, Fields, LsStart
  <1> QED
    BY <1>1, <1>2

-----------------------------------------------------------------------------
(* The steps.                                                              *)

LEMMA SetUpKept ==
  ASSUME lidar' = lidar, echo' = echo, turn' = turn
  PROVE  /\ Ls' <=> Ls
         /\ Both' <=> Both
         /\ Top' = Top
         /\ FullRound' = FullRound
         /\ \A d : EchoRight(d)' <=> EchoRight(d)
         /\ \A d, k : Counted(d, k)' <=> Counted(d, k)
PROOF
  <1>1. (Ls' <=> Ls) /\ (Both' <=> Both) /\ Top' = Top
    BY DEF Ls, Both, Top
  <1>2. FullRound' = FullRound
    BY DEF FullRound, Columns
  <1>3. \A j : Seen(j)' = Seen(j)
    BY <1>1 DEF Seen
  <1>4. \A d : EchoRight(d)' <=> EchoRight(d)
    BY <1>1 DEF EchoRight
  <1>5. \A d, k : Counted(d, k)' <=> Counted(d, k)
    BY <1>1, <1>3 DEF Counted
  <1> QED
    BY <1>1, <1>2, <1>4, <1>5

LEMMA MarkStarts == Init => MarkInv
PROOF
  <1> SUFFICES ASSUME Init PROVE MarkInv
    OBVIOUS
  <1>1. MarkShape
    BY MarkingIs, StartsAssumption DEF Init, MarkShape
  <1>2. /\ DOMAIN dec = Fields
        /\ dec.all = None /\ dec.all_d = None
        /\ dec.echo = IF Ls THEN 1 ELSE 0
    BY DEF Init, Fields, LsStart, LS128Start, Ls
  <1>3. EchoRight(dec)
    BY <1>2 DEF EchoRight
  <1>4. Clouds
    BY <1>2, NoneIs DEF Init, Clouds, OfTurn, Deaf, OneTurn
  <1> QED
    BY <1>1, <1>2, <1>3, <1>4 DEF MarkInv

\* What was read of a packet becomes the state.
LEMMA ReadingIsKept ==
  ASSUME MarkInv, lidar \in Marking, ~merged, UNCHANGED <<lidar, echo, turn, lost>>,
         Ls => dec.difop, NEW p, NEW n \in Nat, at' = at + n, Decoded(p),
         Reading(Decode(p), at + n)
  PROVE  MarkInv'
PROOF
  <1> DEFINE r == Decode(p)
  <1>1. /\ dec' = r.d
        /\ made' = Min({made + Len(r.out), 3})
        /\ cloud' = IF r.out = <<>> THEN cloud ELSE Last(r.out)
    BY DEF Decoded
  <1>2. at + n \in Nat /\ MarkShape'
    BY DEF MarkInv, MarkShape
  <1>3. /\ Reading(r, at + n)
        /\ DOMAIN dec' = Fields /\ EchoRight(dec') /\ dec'.add = dec.add
        /\ dec'.difop = dec.difop
    BY <1>1 DEF Reading
  <1>4. (DOMAIN dec = Fields)' /\ EchoRight(dec)'
    BY <1>3, SetUpKept
  <1>5. (TwoRoundsAsked' <=> TwoRoundsAsked) /\ (Exact' <=> Exact)
    BY <1>3, SetUpKept DEF TwoRoundsAsked, Exact
  <1> HIDE DEF r
  <1>6. ASSUME ~TwoRoundsAsked
        PROVE  Clouds'
    <2>1. Clouds /\ made \in 0 .. 3 /\ cloud \in List /\ OneTurn(cloud)
          /\ (Exact /\ made > 1 => cloud.n = FullRound)
      BY <1>6 DEF MarkInv, Clouds
    <2>2. /\ OfTurn(dec', at') /\ r.out \in Seq(List) /\ Len(r.out) \in Nat
          /\ Exact /\ made + Len(r.out) > 0 => Counted(dec', at')
          /\ \A i \in 1 .. Len(r.out) :
               /\ OneTurn(r.out[i])
               /\ Exact /\ made + i > 1 => r.out[i].n = FullRound
      BY <1>1, <1>3, <1>6 DEF Reading
    <2>3. made' = IF made + Len(r.out) < 3 THEN made + Len(r.out) ELSE 3
      BY <1>1, <2>1, <2>2, MinOfTwo
    <2>4. made' \in 0 .. 3 /\ (made' > 0 => made + Len(r.out) > 0)
          /\ (made' > 1 => made + Len(r.out) > 1)
      BY <2>1, <2>2, <2>3
    <2>5. cloud' \in List /\ OneTurn(cloud') /\ (Exact /\ made' > 1 => cloud'.n = FullRound)
      <3>1. CASE r.out = <<>>
        BY <1>1, <2>1, <2>3, <3>1
      <3>2. CASE r.out # <<>>
        <4>1. Len(r.out) \in 1 .. Len(r.out) /\ r.out[Len(r.out)] \in List
          BY <2>2, <3>2
        <4>2. cloud' = r.out[Len(r.out)]
          BY <1>1, <3>2 DEF Last
        <4> QED
          BY <2>2, <2>4, <4>1, <4>2
      <3> QED
        BY <3>1, <3>2
    <2>6. Exact /\ made' > 0 => Counted(dec, at)'
      BY <2>2, <2>4, SetUpKept
    <2>7. Deaf'
      BY <1>3, SetUpKept DEF Deaf
    <2> QED
      BY <1>5, <2>2, <2>4, <2>5, <2>6, <2>7, SetUpKept DEF Clouds, OfTurn, OneTurn
  <1> QED
    BY <1>2, <1>4, <1>5, <1>6 DEF MarkInv

\* Points that LS128 is deaf to, and device packets, leave lists and clouds.
LEMMA NothingIsRead ==
  ASSUME MarkInv, lidar \in Marking, ~merged, UNCHANGED <<lidar, echo, turn, lost>>,
         at' \in Nat, at' = at \/ (Ls /\ ~dec.difop),
         DOMAIN dec' = Fields, dec'.echo = dec.echo,
         dec'.all = dec.all, dec'.all_d = dec.all_d,
         Ls /\ dec.difop => dec'.difop, Ls => (dec.add => dec'.add),
         made' = made, cloud' = cloud
  PROVE  MarkInv'
PROOF
  <1>1. MarkShape'
    BY DEF MarkInv, MarkShape
  <1>2. EchoRight(dec)'
    <2>1. EchoRight(dec')
      BY DEF MarkInv, EchoRight
    <2> QED
      BY <2>1, SetUpKept
  <1>3. (Exact' <=> Exact) /\ (TwoRoundsAsked => TwoRoundsAsked')
    BY SetUpKept DEF Exact, TwoRoundsAsked, Ls
  <1>4. ASSUME ~TwoRoundsAsked
        PROVE  Clouds'
    <2>1. Clouds
      BY <1>4 DEF MarkInv
    <2>2. OfTurn(dec', at')
      BY <2>1 DEF Clouds, Deaf, OfTurn
    <2>3. Exact /\ made > 0 => Counted(dec', at')
      BY <2>1 DEF Clouds, Deaf, Counted
    <2>4. Deaf'
      BY <2>1, SetUpKept DEF Clouds, Deaf
    <2> QED
      BY <1>3, <2>1, <2>2, <2>3, <2>4, SetUpKept DEF Clouds, OfTurn, OneTurn
  <1> QED
    BY <1>1, <1>2, <1>3, <1>4 DEF MarkInv

LEMMA HeardKeeps == MarkInv /\ Heard => MarkInv'
PROOF
  <1> SUFFICES ASSUME MarkInv, Heard PROVE MarkInv'
    OBVIOUS
  <1>1. UNCHANGED <<lidar, echo, turn, told, lost>> /\ at' = at + Span
    BY DEF Heard
  <1>2. CASE lidar \notin Marking \/ merged'
    <2>1. MarkShape'
      BY <1>1, SpanIs DEF MarkInv, MarkShape
    <2> QED
      BY <1>1, <1>2, <2>1 DEF MarkInv
  <1>3. CASE lidar \in Marking /\ ~merged'
    <2>1. PICK stray \in IF lidar = "CH128S1" THEN {"single", "dual"} ELSE {echo},
               kind \in IF lidar = "M10" THEN {"plain", "gps", "P"} ELSE {"points"} :
            /\ Decoded(Points(stray, 4, kind))
            /\ merged' = (merged \/ stray # echo)
      BY DEF Heard
    <2> DEFINE p == Points(stray, 4, kind)
    <2>2. ~merged /\ stray = echo /\ kind = "points"
      BY <1>3, <2>1, MarkingIs
    <2>3. /\ p.kind = "points" /\ p.echo = echo /\ p.stray = echo
          /\ p.entries = [i \in 1 .. Span |-> Entry(at + i - 1)]
      BY <1>3, <2>2, MarkingIs DEF Points
    <2> HIDE DEF p
    <2>4. Span \in Nat /\ at \in Nat /\ echo \in {"single", "dual"}
      BY <1>3, SpanIs DEF MarkInv, MarkShape
    <2>5. /\ ~Ls => Decode(p) = MarkPacket(dec, p, 0 .. Top - 1, echo = "dual")
          /\ Ls => Decode(p) = IF dec.difop THEN LS128Packet(dec, p) ELSE Ignored(dec)
      BY <1>3, <2>3, <2>4, DecodeIs
    <2>6. Decoded(p)
      BY <2>1 DEF p
    <2>7. DOMAIN dec = Fields /\ EchoRight(dec) /\ (~TwoRoundsAsked => Clouds)
      BY <1>3, <2>2 DEF MarkInv
    <2>8. CASE Ls /\ ~dec.difop
      <3>1. Decode(p).d = dec /\ Decode(p).out = <<>> /\ Len(<<>>) = 0
        BY <2>5, <2>8 DEF Ignored
      <3>2. dec' = dec /\ made' = Min({made + 0, 3}) /\ cloud' = cloud
        BY <2>6, <3>1 DEF Decoded
      <3>3. CASE TwoRoundsAsked
        <4>1. TwoRoundsAsked'
          BY <1>1, <3>2, <3>3 DEF TwoRoundsAsked
        <4>2. MarkShape'
          BY <1>1, <2>4 DEF MarkInv, MarkShape
        <4>3. (DOMAIN dec = Fields)' /\ EchoRight(dec)'
          BY <1>1, <2>7, <3>2, SetUpKept
        <4> QED
          BY <4>1, <4>2, <4>3 DEF MarkInv
      <3>4. CASE ~TwoRoundsAsked
        <4>1. made = 0
          BY <2>7, <2>8, <3>4 DEF Clouds, Deaf
        <4>2. made' = made
          BY <3>2, <4>1, MinOfTwo
        <4> QED
          BY <1>1, <1>3, <2>2, <2>4, <2>7, <2>8, <3>2, <4>2, NothingIsRead
      <3> QED
        BY <3>3, <3>4
    <2>9. CASE Ls => dec.difop
      <3>1. Reading(Ignored(dec), at)
        <4>1. /\ Ignored(dec) = [d |-> dec, out |-> <<>>] /\ Len(<<>>) = 0
              /\ <<>> \in Seq(List)
          BY DEF Ignored
        <4>2. Ignored(dec).d = dec /\ Ignored(dec).out = <<>>
          BY <4>1
        <4> QED
          BY <2>7, <4>1, <4>2 DEF Reading, Clouds
      <3>2. ~TwoRoundsAsked => made \in Nat
        BY <2>7 DEF Clouds
      <3>3. Reading(Decode(p), at + Span)
        BY <1>3, <2>3, <2>4, <2>5, <2>9, <3>1, <3>2, PacketIsRead
      <3> QED
        BY <1>1, <1>3, <2>2, <2>4, <2>6, <2>9, <3>3, ReadingIsKept
    <2> QED
      BY <2>8, <2>9
  <1> QED
    BY <1>2, <1>3

LEMMA ToldKeeps == MarkInv /\ Told => MarkInv'
PROOF
  <1> SUFFICES ASSUME MarkInv, Told PROVE MarkInv'
    OBVIOUS
  <1>1. UNCHANGED <<lidar, echo, turn, at, lost, merged>> /\ lidar \in HasDevicePackets
    BY DEF Told
  <1>2. CASE lidar \notin Marking \/ merged
    BY <1>1, <1>2 DEF MarkInv, MarkShape
  <1>3. CASE lidar \in Marking /\ ~merged
    <2>1. PICK p : p.kind = "device" /\ Decoded(p)
      <3>1. PICK near \in BOOLEAN, adjust \in {<<0, 0>>, <<0, 4>>}, offset \in {0, 1},
                 add \in BOOLEAN :
              Decoded([kind |-> "device", near |-> near, adjust |-> adjust,
                       offset |-> offset, add |-> add])
        BY DEF Told
      <3> DEFINE p == [kind |-> "device", near |-> near, adjust |-> adjust,
                       offset |-> offset, add |-> add]
      <3>2. p.kind = "device"
        OBVIOUS
      <3> HIDE DEF p
      <3>3. Decoded(p)
        BY <3>1, Zenon DEF p
      <3> QED
        BY <3>2, <3>3
    <2>2. DOMAIN dec = Fields /\ EchoRight(dec) /\ (~TwoRoundsAsked => Clouds) /\ at \in Nat
      BY <1>3 DEF MarkInv, MarkShape
    <2>3. LET d == Decode(p).d
          IN  /\ Decode(p).out = <<>>
              /\ DOMAIN d = Fields /\ d.echo = dec.echo
              /\ d.all = dec.all /\ d.all_d = dec.all_d
              /\ Ls => d.difop /\ (dec.add => d.add)
      BY <1>1, <1>3, <2>1, <2>2, DeviceIs
    <2>4. /\ DOMAIN dec' = Fields /\ dec'.echo = dec.echo
          /\ dec'.all = dec.all /\ dec'.all_d = dec.all_d
          /\ Ls => dec'.difop /\ (dec.add => dec'.add)
          /\ made' = Min({made + 0, 3}) /\ cloud' = cloud
      <3>1. Len(<<>>) = 0
        OBVIOUS
      <3> QED
        BY <2>1, <2>3, <3>1 DEF Decoded
    <2>5. CASE TwoRoundsAsked
      <3>1. TwoRoundsAsked'
        BY <1>1, <2>4, <2>5 DEF TwoRoundsAsked, Ls
      <3>2. MarkShape'
        BY <1>1 DEF MarkInv, MarkShape
      <3>3. EchoRight(dec)'
        <4>1. EchoRight(dec')
          BY <2>2, <2>4 DEF EchoRight
        <4> QED
          BY <1>1, <4>1, SetUpKept
      <3> QED
        BY <2>4, <3>1, <3>2, <3>3 DEF MarkInv
    <2>6. CASE ~TwoRoundsAsked
      <3>1. made \in 0 .. 3
        BY <2>2, <2>6 DEF Clouds
      <3>2. made' = made
        BY <2>4, <3>1, MinOfTwo
      <3> QED
        BY <1>1, <1>3, <2>2, <2>4, <3>2, NothingIsRead
    <2> QED
      BY <2>5, <2>6
  <1> QED
    BY <1>2, <1>3

\* A lost packet without a mark leaves the LiDAR in its round; the points are
\* not counted any more.
LEMMA LoseKeeps == MarkInv /\ Lose => MarkInv'
PROOF
  <1> SUFFICES ASSUME MarkInv, Lose PROVE MarkInv'
    OBVIOUS
  <1>1. /\ UNCHANGED <<lidar, echo, turn, dec, told, made, cloud>>
        /\ at' = at + Span /\ lost' = lost + 1
    BY DEF Lose
  <1>2. MarkShape'
    BY <1>1, SpanIs DEF MarkInv, MarkShape
  <1>3. CASE lidar \notin Marking \/ merged'
    BY <1>1, <1>2, <1>3 DEF MarkInv
  <1>4. CASE lidar \in Marking /\ ~merged'
    <2>1. /\ ~merged /\ \A i \in 1 .. Span : ~Entry(at + i - 1).mark
          /\ Span \in {2, 3} /\ at \in Nat
      BY <1>4, SpanIs DEF Lose, MarkInv, MarkShape
    <2>2. TurnOf(at') = TurnOf(at)
      <3>1. \A k \in Nat : ~Entry(k).mark => TurnOf(k + 1) = TurnOf(k)
        <4>1. \A k \in Nat : ~Entry(k).mark => Place(k) < 7
          BY NextPlace, EntryIs
        <4> QED
          BY <4>1, NextPlace
      <3>2. ~Entry(at + 1 - 1).mark /\ ~Entry(at + 2 - 1).mark
            /\ (Span = 3 => ~Entry(at + 3 - 1).mark)
        BY <2>1
      <3>3. ~Entry(at).mark /\ ~Entry(at + 1).mark /\ (Span = 3 => ~Entry(at + 1 + 1).mark)
        <4>1. at + 1 - 1 = at /\ at + 2 - 1 = at + 1 /\ at + 3 - 1 = at + 1 + 1
          BY <2>1
        <4> QED
          BY <3>2, <4>1
      <3>4. TurnOf(at + 1) = TurnOf(at) /\ TurnOf(at + 1 + 1) = TurnOf(at)
            /\ (Span = 3 => TurnOf(at + 1 + 1 + 1) = TurnOf(at))
        BY <2>1, <3>1, <3>3
      <3>5. at' = IF Span = 3 THEN at + 1 + 1 + 1 ELSE at + 1 + 1
        BY <1>1, <2>1
      <3> QED
        BY <3>4, <3>5
    <2>3. ~Exact'
      BY <1>1 DEF Exact, MarkInv, MarkShape
    <2>4. DOMAIN dec = Fields /\ EchoRight(dec) /\ (~TwoRoundsAsked => Clouds)
      BY <1>4, <2>1 DEF MarkInv
    <2>5. (DOMAIN dec = Fields)' /\ EchoRight(dec)' /\ (TwoRoundsAsked' <=> TwoRoundsAsked)
      BY <1>1, <2>4, SetUpKept DEF TwoRoundsAsked
    <2>6. ~TwoRoundsAsked => Clouds'
      BY <1>1, <2>2, <2>3, <2>4, SetUpKept DEF Clouds, OfTurn, Deaf, OneTurn
    <2> QED
      BY <1>2, <2>5, <2>6 DEF MarkInv
  <1> QED
    BY <1>3, <1>4

(* Between packets the lists and the clouds of the LiDARs that mark the end of *)
(* a frame in their data hold what MarkInv says: what the two theorems on the  *)
(* clouds of these LiDARs rest on.                                            *)
THEOREM MarkInvariant == Spec => []MarkInv
PROOF
  <1>1. MarkInv /\ [Next]_vars => MarkInv'
    <2> SUFFICES ASSUME MarkInv, [Next]_vars PROVE MarkInv'
      OBVIOUS
    <2>1. CASE Heard
      BY <2>1, HeardKeeps
    <2>2. CASE HeardThin
      <3>1. lidar = "M10" /\ lidar' = lidar /\ echo' = echo /\ lost' = lost + 1
        BY <2>2 DEF HeardThin
      <3>2. lidar \notin Marking
        BY <3>1 DEF Marking, Channelled
      <3> QED
        BY <3>1, <3>2 DEF MarkInv, MarkShape
    <2>3. CASE Lose
      BY <2>3, LoseKeeps
    <2>4. CASE Told
      BY <2>4, ToldKeeps
    <2>5. CASE UNCHANGED vars
      <3>1. /\ UNCHANGED <<lidar, echo, turn, at, dec, lost, merged, made, cloud>>
        BY <2>5 DEF vars
      <3>2. (TwoRoundsAsked' <=> TwoRoundsAsked) /\ (Exact' <=> Exact)
        BY <3>1, SetUpKept DEF TwoRoundsAsked, Exact
      <3>3. Clouds => Clouds'
        BY <3>1, <3>2, SetUpKept DEF Clouds, OfTurn, Deaf, OneTurn
      <3>4. EchoRight(dec) => EchoRight(dec)'
        BY <3>1, SetUpKept
      <3> QED
        BY <3>1, <3>2, <3>3, <3>4 DEF MarkInv, MarkShape
    <2> QED
      BY <2>1, <2>2, <2>3, <2>4, <2>5 DEF Next
  <1> QED
    BY <1>1, MarkStarts, PTL DEF Spec

(* For every start, setup and course of losses: as long as every mark is   *)
(* heard, no cloud of a CH LiDAR or of LS128 holds points of two rounds;   *)
(* and with no packet lost each cloud after the first holds every point of *)
(* its round that the filters keep, with both returns, and none twice.     *)
THEOREM MarksBoundRounds == Spec => []MarkClouds
PROOF
  <1>1. MarkInv => OneRoundByMark
    <2> SUFFICES ASSUME MarkInv, MarksHeard PROVE Cardinality(cloud.rounds) <= 1
      BY DEF OneRoundByMark
    <2>1. PICK t \in 0 .. 2 : cloud.rounds \subseteq {t}
      BY DEF MarkInv, MarksHeard, Clouds, OneTurn
    <2>2. IsFiniteSet({t}) /\ Cardinality({t}) = 1
      BY FS_Singleton, Zenon
    <2>3. Cardinality(cloud.rounds) <= Cardinality({t})
      BY <2>1, <2>2, FS_Subset
    <2> QED
      BY <2>2, <2>3
  <1>2. MarkInv => WholeByMark
    BY DEF MarkInv, WholeByMark, MarksHeard, Clouds, Exact, Ls
  <1>3. MarkInv => MarkClouds
    BY <1>1, <1>2 DEF MarkClouds
  <1> QED
    BY <1>3, MarkInvariant, PTL
=============================================================================
