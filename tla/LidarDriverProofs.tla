------------------------- MODULE LidarDriverProofs -------------------------
(***************************************************************************)
(* What the two threads of LidarDriverImpl share, for every size of the    *)
(* packet pool and any number of packets and sessions: pkt_queue_ and the  *)
(* buffers are bounded although push and clear lock separately, no         *)
(* notification is lost although it is sent after the lock, no buffer is   *)
(* in two places, points are published in the order of their packets, and  *)
(* a packet is lost only when the queue overflows.                         *)
(***************************************************************************)
EXTENDS LidarDriver, SequenceTheorems, FiniteSetTheorems, TLAPS

-----------------------------------------------------------------------------
(* The inductive invariant, in named parts.                                *)

\* Queues and threads hold buffers of some set S.
Holds(S) ==
  /\ pool \in Seq(S) /\ queue \in Seq(S)
  /\ recv \in [at : {"dead", "idle", "filled", "notify", "check"},
               buf : S, empty : BOOLEAN, size : Nat]
  /\ handle \in [at : {"dead", "check", "waiting", "woken", "have", "recycle"}, buf : S]

\* Only a caller that joined a thread starts it again.
Joined ==
  /\ ctl \in {"new", "stopped"} => recv.at = "dead" /\ handle.at = "dead"
  /\ ctl = "joinHandle" => recv.at = "dead"

\* A thread owns a buffer only between taking it and giving it on.
Owns ==
  /\ recv.at # "filled" => recv.buf = None
  /\ handle.at \notin {"have", "recycle"} => handle.buf = None

\* Between push and clear the queue is no longer than push saw it.
Measured ==
  IF recv.at \in {"notify", "check"}
  THEN Len(queue) <= recv.size /\ recv.size <= PoolMax + 1
  ELSE Len(queue) <= PoolMax

One(b) == IF b THEN 1 ELSE 0
InHand == One(recv.at = "filled") + One(handle.at \in {"have", "recycle"})

\* A buffer is made only when the pool is empty.
Counted == Len(pool) + Len(queue) + InHand <= PoolMax + 2

DriverInv == (\E S : Holds(S)) /\ Joined /\ Owns /\ Measured /\ Counted

-----------------------------------------------------------------------------
LEMMA InitDriverInv == Init => DriverInv
PROOF
  <1> SUFFICES ASSUME Init PROVE DriverInv
    OBVIOUS
  <1>1. Holds({None})
    BY DEF Init, Holds
  <1>2. Joined /\ Owns
    BY DEF Init, Joined, Owns
  <1>3. Len(pool) = 0 /\ Len(queue) = 0 /\ InHand = 0
    BY DEF Init, InHand, One
  <1>4. Measured /\ Counted
    BY <1>3, DriverAssumption DEF Init, Measured, Counted
  <1> QED
    BY <1>1, <1>2, <1>4 DEF DriverInv

(* Steps that move neither a thread nor a buffer.                          *)
LEMMA CallerKeeps ==
  ASSUME DriverInv, UNCHANGED <<recv, handle, pool, queue>>, Joined'
  PROVE  DriverInv'
PROOF
  <1>1. \E S : Holds(S)'
    BY DEF DriverInv, Holds
  <1>2. Owns' /\ Measured' /\ Counted'
    BY DEF DriverInv, Owns, Measured, Counted, InHand, One
  <1> QED
    BY <1>1, <1>2 DEF DriverInv

LEMMA StartKeeps == DriverInv /\ Start => DriverInv'
PROOF
  <1> SUFFICES ASSUME DriverInv, Start PROVE DriverInv'
    OBVIOUS
  <1>1. PICK S : Holds(S)
    BY DEF DriverInv
  <1>2. recv.at = "dead" /\ handle.at = "dead"
    BY DEF Start, DriverInv, Joined
  <1>3. UNCHANGED <<pool, queue>> /\ ctl' = "running"
    BY DEF Start
  <1>4. Holds(S)' /\ recv'.at = "idle" /\ handle'.at = "check"
        /\ recv'.buf = recv.buf /\ handle'.buf = handle.buf
    BY <1>1, <1>3 DEF Start, Holds
  <1>5. Joined' /\ Owns'
    BY <1>2, <1>3, <1>4 DEF Joined, DriverInv, Owns
  <1>6. InHand' = InHand
    BY <1>2, <1>4 DEF InHand, One
  <1>7. Measured' /\ Counted'
    BY <1>2, <1>3, <1>4, <1>6 DEF DriverInv, Measured, Counted
  <1> QED
    BY <1>4, <1>5, <1>7 DEF DriverInv

-----------------------------------------------------------------------------
(* The receive thread.                                                     *)

LEMMA ReceiveKeeps == DriverInv /\ Receive => DriverInv'
PROOF
  <1> SUFFICES ASSUME DriverInv, Receive PROVE DriverInv'
    OBVIOUS
  <1> USE DriverAssumption
  <1>1. PICK S : Holds(S)
    BY DEF DriverInv
  <1> DEFINE t == TakenBuffer
  <1>0. PICK T : T = S \cup {t}
    OBVIOUS
  <1>2. recv.at = "idle" /\ UNCHANGED <<ctl, handle, queue>> /\ pool' = RestOfPool
    BY DEF Receive
  <1>3. recv' = [recv EXCEPT !.at = "filled", !.buf = t]
    BY DEF Receive
  <1> HIDE DEF t
  <1>4. Len(pool) \in Nat /\ Len(queue) \in Nat /\ PoolMax \in Nat
    BY <1>1 DEF Holds
  <1>5. /\ pool' \in Seq(S)
        /\ Len(pool') \in Nat
        /\ pool # << >> => Len(pool') = Len(pool) - 1
        /\ pool = << >> => Len(pool') = 0
    <2>1. CASE pool = << >>
      BY <1>1, <1>2, <2>1 DEF RestOfPool, Holds
    <2>2. CASE pool # << >>
      <3>1. pool' = Tail(pool) /\ pool \in Seq(S)
        BY <1>1, <1>2, <2>2 DEF RestOfPool, Holds
      <3> QED
        BY <2>2, <3>1
    <2> QED
      BY <2>1, <2>2
  <1>6. pool' \in Seq(T) /\ queue \in Seq(T)
    BY <1>1, <1>2, <1>5, <1>0, SeqMonotonic DEF Holds
  <1>7. /\ recv' \in [at : {"dead", "idle", "filled", "notify", "check"},
                      buf : T, empty : BOOLEAN, size : Nat]
        /\ recv'.at = "filled"
    BY <1>1, <1>3, <1>0 DEF Holds
  <1>8. Holds(T)'
    <2>1. handle \in [at : {"dead", "check", "waiting", "woken", "have", "recycle"}, buf : T]
      BY <1>1, <1>0 DEF Holds
    <2> QED
      BY <1>2, <1>6, <1>7, <2>1 DEF Holds
  <1>9. Joined' /\ Owns'
    BY <1>2, <1>7 DEF DriverInv, Joined, Owns
  <1>10. Len(queue) <= PoolMax
    BY <1>2 DEF DriverInv, Measured
  <1>11. InHand' = InHand + 1 /\ InHand \in {0, 1}
    BY <1>2, <1>7 DEF InHand, One
  <1>12. Counted'
    <2>1. CASE pool = << >>
      BY <1>2, <1>4, <1>5, <1>10, <1>11, <2>1 DEF Counted
    <2>2. CASE pool # << >>
      BY <1>2, <1>4, <1>5, <1>11, <2>2 DEF DriverInv, Counted
    <2> QED
      BY <2>1, <2>2
  <1>13. Measured'
    BY <1>2, <1>7, <1>10 DEF Measured
  <1> QED
    BY <1>8, <1>9, <1>12, <1>13 DEF DriverInv

LEMMA DiscardKeeps == DriverInv /\ Discard => DriverInv'
PROOF
  <1> SUFFICES ASSUME DriverInv, Discard PROVE DriverInv'
    OBVIOUS
  <1>1. PICK S : Holds(S)
    BY DEF DriverInv
  <1>2. UNCHANGED <<ctl, recv, handle, queue>> /\ pool # << >> /\ pool' = Tail(pool)
    BY DEF Discard, RestOfPool
  <1>3. pool' \in Seq(S) /\ Len(pool') = Len(pool) - 1 /\ Len(pool) \in Nat
    BY <1>1, <1>2 DEF Holds
  <1>4. Holds(S)' /\ Joined' /\ Owns' /\ Measured'
    BY <1>1, <1>2, <1>3 DEF Holds, DriverInv, Joined, Owns, Measured
  <1>5. InHand' = InHand /\ InHand \in Nat /\ Len(queue) \in Nat
    BY <1>1, <1>2 DEF InHand, One, Holds
  <1>6. Counted'
    BY <1>2, <1>3, <1>5, DriverAssumption DEF DriverInv, Counted
  <1> QED
    BY <1>4, <1>6 DEF DriverInv

LEMMA PushKeeps == DriverInv /\ Push => DriverInv'
PROOF
  <1> SUFFICES ASSUME DriverInv, Push PROVE DriverInv'
    OBVIOUS
  <1> USE DriverAssumption
  <1>1. PICK S : Holds(S)
    BY DEF DriverInv
  <1> DEFINE e == EmptyBeforePush
             n == Len(queue) + 1
             T == S \cup {None}
  <1>2. /\ recv.at = "filled" /\ UNCHANGED <<ctl, handle, pool>>
        /\ queue' = Append(queue, recv.buf)
        /\ recv' = [at |-> "notify", buf |-> None, empty |-> e, size |-> n]
    BY DEF Push
  <1>3. e \in BOOLEAN
    BY DEF EmptyBeforePush
  <1>4. Len(queue) \in Nat /\ n \in Nat /\ Len(pool) \in Nat
    BY <1>1 DEF Holds
  <1>5. queue' \in Seq(S) /\ Len(queue') = n
    BY <1>1, <1>2 DEF Holds
  <1>6. pool \in Seq(T) /\ queue' \in Seq(T)
    BY <1>1, <1>5, SeqMonotonic DEF Holds
  <1> HIDE DEF e, n
  <1>7. /\ recv' \in [at : {"dead", "idle", "filled", "notify", "check"},
                      buf : T, empty : BOOLEAN, size : Nat]
        /\ recv'.at = "notify" /\ recv'.buf = None /\ recv'.size = n
    BY <1>2, <1>3, <1>4
  <1>8. handle \in [at : {"dead", "check", "waiting", "woken", "have", "recycle"}, buf : T]
    BY <1>1 DEF Holds
  <1>9. Holds(T)'
    BY <1>2, <1>6, <1>7, <1>8 DEF Holds
  <1>10. Joined' /\ Owns'
    BY <1>2, <1>7 DEF DriverInv, Joined, Owns
  <1>11. Len(queue) <= PoolMax
    BY <1>2 DEF DriverInv, Measured
  <1>12. Measured'
    BY <1>4, <1>5, <1>7, <1>11 DEF Measured, n
  <1>13. InHand' = InHand - 1 /\ InHand \in {1, 2}
    BY <1>2, <1>7 DEF InHand, One
  <1>14. Counted'
    BY <1>2, <1>4, <1>5, <1>13 DEF DriverInv, Counted, n
  <1> QED
    BY <1>9, <1>10, <1>12, <1>14 DEF DriverInv

LEMMA NotifyKeeps == DriverInv /\ Notify => DriverInv'
PROOF
  <1> SUFFICES ASSUME DriverInv, Notify PROVE DriverInv'
    OBVIOUS
  <1>1. PICK S : Holds(S)
    BY DEF DriverInv
  <1>2. recv.at = "notify" /\ UNCHANGED <<ctl, pool, queue>>
        /\ recv' = [recv EXCEPT !.at = "check"]
    BY DEF Notify
  <1>3. /\ handle' \in [at : {"dead", "check", "waiting", "woken", "have", "recycle"}, buf : S]
        /\ handle'.buf = handle.buf
        /\ handle' = handle \/ (handle.at = "waiting" /\ handle'.at = "woken")
    BY <1>1 DEF Notify, Holds
  <1>4. /\ recv' \in [at : {"dead", "idle", "filled", "notify", "check"},
                      buf : S, empty : BOOLEAN, size : Nat]
        /\ recv'.at = "check" /\ recv'.buf = recv.buf /\ recv'.size = recv.size
    BY <1>1, <1>2 DEF Holds
  <1>5. Holds(S)'
    BY <1>1, <1>2, <1>3, <1>4 DEF Holds
  <1>6. Joined' /\ Owns'
    BY <1>2, <1>3, <1>4 DEF DriverInv, Joined, Owns
  <1>7. InHand' = InHand
    BY <1>2, <1>3, <1>4 DEF InHand, One
  <1>8. Measured' /\ Counted'
    BY <1>2, <1>4, <1>7 DEF DriverInv, Measured, Counted
  <1> QED
    BY <1>5, <1>6, <1>8 DEF DriverInv

LEMMA CheckKeeps == DriverInv /\ CheckOverflow => DriverInv'
PROOF
  <1> SUFFICES ASSUME DriverInv, CheckOverflow PROVE DriverInv'
    OBVIOUS
  <1> USE DriverAssumption
  <1>1. PICK S : Holds(S)
    BY DEF DriverInv
  <1>2. recv.at = "check" /\ UNCHANGED <<ctl, handle, pool>>
    BY DEF CheckOverflow
  <1>3. /\ recv' \in [at : {"dead", "idle", "filled", "notify", "check"},
                      buf : S, empty : BOOLEAN, size : Nat]
        /\ recv'.at = "idle" /\ recv'.buf = recv.buf
    <2> DEFINE u == [recv EXCEPT !.at = "idle", !.empty = FALSE, !.size = 0]
    <2>1. recv' = u
      BY DEF CheckOverflow
    <2>2. /\ u \in [at : {"dead", "idle", "filled", "notify", "check"},
                    buf : S, empty : BOOLEAN, size : Nat]
          /\ u.at = "idle" /\ u.buf = recv.buf
      BY <1>1 DEF Holds
    <2> QED
      BY <2>1, <2>2
  <1>4. Len(queue) <= recv.size /\ recv.size <= PoolMax + 1
        /\ recv.size \in Nat /\ Len(queue) \in Nat /\ Len(pool) \in Nat
    BY <1>1, <1>2 DEF DriverInv, Measured, Holds
  <1>5. queue' \in Seq(S) /\ Len(queue') <= PoolMax /\ Len(queue') <= Len(queue)
        /\ Len(queue') \in Nat
    <2>1. CASE recv.size > PoolMax
      <3>1. queue' = << >>
        BY <2>1 DEF CheckOverflow, Overflow
      <3> QED
        BY <1>4, <3>1
    <2>2. CASE ~ (recv.size > PoolMax)
      <3>1. queue' = queue
        BY <2>2 DEF CheckOverflow, Overflow
      <3> QED
        BY <1>1, <1>4, <2>2, <3>1 DEF Holds
    <2> QED
      BY <2>1, <2>2
  <1>6. Holds(S)'
    BY <1>1, <1>2, <1>3, <1>5 DEF Holds
  <1>7. Joined' /\ Owns'
    BY <1>2, <1>3 DEF DriverInv, Joined, Owns
  <1>8. InHand' = InHand /\ InHand \in Nat
    BY <1>2, <1>3 DEF InHand, One
  <1>9. Measured'
    BY <1>3, <1>5 DEF Measured
  <1>10. Counted'
    BY <1>2, <1>4, <1>5, <1>8 DEF DriverInv, Counted
  <1> QED
    BY <1>6, <1>7, <1>9, <1>10 DEF DriverInv

LEMMA ExitKeeps == DriverInv /\ RecvExit => DriverInv'
PROOF
  <1> SUFFICES ASSUME DriverInv, RecvExit PROVE DriverInv'
    OBVIOUS
  <1>1. PICK S : Holds(S)
    BY DEF DriverInv
  <1>2. recv.at = "idle" /\ UNCHANGED <<ctl, handle, pool, queue>>
        /\ recv' = [recv EXCEPT !.at = "dead"]
    BY DEF RecvExit
  <1>3. Holds(S)' /\ recv'.at = "dead" /\ recv'.buf = recv.buf
    BY <1>1, <1>2 DEF Holds
  <1>4. Joined' /\ Owns' /\ Measured'
    BY <1>2, <1>3 DEF DriverInv, Joined, Owns, Measured
  <1>5. Counted'
    BY <1>2, <1>3 DEF DriverInv, Counted, InHand, One
  <1> QED
    BY <1>3, <1>4, <1>5 DEF DriverInv

-----------------------------------------------------------------------------
(* The handle thread.                                                      *)

(* popWait moves a buffer from the queue to the thread, or finds none.     *)
LEMMA PopKeeps ==
  ASSUME DriverInv, handle.at \in {"check", "waiting", "woken"},
         NEW o \in {"waiting", "check"}, PopOr(o), UNCHANGED <<ctl, recv, pool>>
  PROVE  DriverInv'
PROOF
  <1> USE DriverAssumption
  <1>1. PICK S : Holds(S)
    BY DEF DriverInv
  <1> DEFINE T == S \cup {None}
  <1>2. Len(queue) \in Nat /\ Len(pool) \in Nat
    BY <1>1 DEF Holds
  <1>3. /\ handle' \in [at : {"dead", "check", "waiting", "woken", "have", "recycle"}, buf : T]
        /\ queue' \in Seq(S)
        /\ \/ handle'.at = "have" /\ Len(queue') = Len(queue) - 1 /\ Len(queue') \in Nat
           \/ handle'.at = o /\ handle'.buf = None /\ queue' = queue
    <2>1. CASE queue # << >>
      <3>1. handle' = [at |-> "have", buf |-> Head(queue)] /\ queue' = Tail(queue)
        BY <2>1 DEF PopOr
      <3>2. Head(queue) \in S /\ Tail(queue) \in Seq(S) /\ Len(Tail(queue)) = Len(queue) - 1
            /\ Len(Tail(queue)) \in Nat
        BY <1>1, <2>1 DEF Holds
      <3> QED
        BY <3>1, <3>2
    <2>2. CASE queue = << >>
      <3>1. handle' = [at |-> o, buf |-> None] /\ queue' = queue
        BY <2>2 DEF PopOr
      <3> QED
        BY <1>1, <3>1 DEF Holds
    <2> QED
      BY <2>1, <2>2
  <1>4. pool \in Seq(T) /\ queue' \in Seq(T)
    BY <1>1, <1>3, SeqMonotonic DEF Holds
  <1>5. Holds(T)'
    BY <1>1, <1>3, <1>4 DEF Holds
  <1>6. ctl \notin {"new", "stopped"}
    BY DEF DriverInv, Joined
  <1>7. Joined' /\ Owns'
    BY <1>3, <1>6 DEF DriverInv, Joined, Owns
  <1>8. Len(queue') \in Nat /\ Len(queue') <= Len(queue)
    BY <1>2, <1>3
  <1>9. Measured'
    <2>1. recv.size \in Nat
      BY <1>1 DEF Holds
    <2> QED
      BY <1>2, <1>8, <2>1 DEF DriverInv, Measured
  <1>10. One(handle.at \in {"have", "recycle"}) = 0 /\ One(recv.at = "filled") \in {0, 1}
    BY DEF One
  <1>11. Len(queue') + One(handle'.at \in {"have", "recycle"}) = Len(queue)
    BY <1>2, <1>3 DEF One
  <1>12. One(handle'.at \in {"have", "recycle"}) \in {0, 1}
    BY DEF One
  <1>13. Counted'
    BY <1>2, <1>8, <1>10, <1>11, <1>12 DEF DriverInv, Counted, InHand
  <1> QED
    BY <1>5, <1>7, <1>9, <1>13 DEF DriverInv

LEMMA HandleKeeps == DriverInv /\ HandleNext => DriverInv'
PROOF
  <1> SUFFICES ASSUME DriverInv, HandleNext PROVE DriverInv'
    OBVIOUS
  <1>1. PICK S : Holds(S)
    BY DEF DriverInv
  <1>2. CASE HandleLoop
    <2>1. CASE toExitHandle
      <3>1. handle.at = "check" /\ UNCHANGED <<ctl, recv, pool, queue>>
            /\ handle' = [handle EXCEPT !.at = "dead"]
        BY <1>2, <2>1 DEF HandleLoop
      <3>2. Holds(S)' /\ handle'.at = "dead" /\ handle'.buf = handle.buf
        BY <1>1, <3>1 DEF Holds
      <3>3. Joined' /\ Owns' /\ Measured'
        BY <3>1, <3>2 DEF DriverInv, Joined, Owns, Measured
      <3>4. Counted'
        BY <3>1, <3>2 DEF DriverInv, Counted, InHand, One
      <3> QED
        BY <3>2, <3>3, <3>4 DEF DriverInv
    <2>2. CASE ~toExitHandle
      <3>1. handle.at = "check" /\ PopOr("waiting") /\ UNCHANGED <<ctl, recv, pool>>
        BY <1>2, <2>2 DEF HandleLoop
      <3> QED
        BY <3>1, PopKeeps
    <2> QED
      BY <2>1, <2>2
  <1>3. CASE Woken
    BY <1>3, PopKeeps DEF Woken
  <1>4. CASE Timeout
    BY <1>4, PopKeeps DEF Timeout
  <1>5. CASE Decode
    <2>1. handle.at = "have" /\ UNCHANGED <<ctl, recv, pool, queue>>
          /\ handle' = [handle EXCEPT !.at = "recycle"]
      BY <1>5 DEF Decode
    <2>2. Holds(S)' /\ handle'.at = "recycle"
      BY <1>1, <2>1 DEF Holds
    <2>3. Joined' /\ Owns' /\ Measured'
      BY <2>1, <2>2 DEF DriverInv, Joined, Owns, Measured
    <2>4. Counted'
      BY <2>1, <2>2 DEF DriverInv, Counted, InHand, One
    <2> QED
      BY <2>2, <2>3, <2>4 DEF DriverInv
  <1>6. CASE Recycle
    <2> DEFINE T == S \cup {None}
    <2>1. /\ handle.at = "recycle" /\ UNCHANGED <<ctl, recv, queue>>
          /\ pool' = Append(pool, handle.buf)
          /\ handle' = [at |-> "check", buf |-> None]
      BY <1>6 DEF Recycle
    <2>2. pool' \in Seq(S) /\ Len(pool') = Len(pool) + 1 /\ Len(pool) \in Nat
          /\ Len(queue) \in Nat
      BY <1>1, <2>1 DEF Holds
    <2>3. pool' \in Seq(T) /\ queue \in Seq(T)
      BY <1>1, <2>2, SeqMonotonic DEF Holds
    <2>4. /\ handle' \in [at : {"dead", "check", "waiting", "woken", "have", "recycle"}, buf : T]
          /\ handle'.at = "check" /\ handle'.buf = None
      BY <2>1
    <2>5. Holds(T)'
      BY <1>1, <2>1, <2>3, <2>4 DEF Holds
    <2>6. Joined' /\ Owns' /\ Measured'
      BY <2>1, <2>4 DEF DriverInv, Joined, Owns, Measured
    <2>7. InHand' = InHand - 1 /\ InHand \in {1, 2}
      BY <2>1, <2>4 DEF InHand, One
    <2>8. Counted'
      BY <2>1, <2>2, <2>7, DriverAssumption DEF DriverInv, Counted
    <2> QED
      BY <2>5, <2>6, <2>8 DEF DriverInv
  <1> QED
    BY <1>2, <1>3, <1>4, <1>5, <1>6 DEF HandleNext

-----------------------------------------------------------------------------
(* DriverInv holds at the start and through every step of either thread    *)
(* and of the caller.                                                      *)
THEOREM DriverInvariant == Spec => []DriverInv
PROOF
  <1>1. ASSUME DriverInv, InitDriver \/ StopInput \/ StopNext \/ UNCHANGED vars
        PROVE  DriverInv'
    <2>1. UNCHANGED <<recv, handle, pool, queue>>
      BY <1>1 DEF InitDriver, StopInput, StopNext, StopHandle, Stopped, vars
    <2>2. Joined'
      BY <1>1, <2>1 DEF DriverInv, Joined, InitDriver, StopInput, StopNext, StopHandle,
                        Stopped, vars
    <2> QED
      BY <1>1, <2>1, <2>2, CallerKeeps
  <1>2. DriverInv /\ [Next]_vars => DriverInv'
    BY <1>1, StartKeeps, ReceiveKeeps, DiscardKeeps, PushKeeps, NotifyKeeps, CheckKeeps,
       ExitKeeps, HandleKeeps DEF Next, RecvNext
  <1> QED
    BY InitDriverInv, <1>2, PTL DEF Spec

(* packetGet, packetPut and internalProcessPacket, for every pool size:    *)
(* pkt_queue_ exceeds PACKET_POOL_MAX by one packet at most, and the       *)
(* buffers alive are PACKET_POOL_MAX + 3 at most.                          *)
THEOREM QueueIsBounded == Spec => []QueueBounded
PROOF
  <1>1. DriverInv => QueueBounded
    <2> SUFFICES ASSUME DriverInv PROVE QueueBounded
      OBVIOUS
    <2> USE DriverAssumption
    <2>1. PICK S : Holds(S)
      BY DEF DriverInv
    <2>2. Len(pool) \in Nat /\ Len(queue) \in Nat /\ recv.size \in Nat
      BY <2>1 DEF Holds
    <2>3. /\ Held(recv) \in Seq(S) /\ Len(Held(recv)) <= One(recv.at = "filled")
          /\ Len(Held(recv)) \in Nat
      BY <2>1 DEF Held, DriverInv, Owns, Holds, One
    <2>4. /\ Held(handle) \in Seq(S)
          /\ Len(Held(handle)) <= One(handle.at \in {"have", "recycle"})
          /\ Len(Held(handle)) \in Nat
      BY <2>1 DEF Held, DriverInv, Owns, Holds, One
    <2>5. Len(AllBuffers) = Len(pool) + Len(queue) + Len(Held(recv)) + Len(Held(handle))
      BY <2>1, <2>2, <2>3, <2>4 DEF AllBuffers, Holds
    <2>6. One(recv.at = "filled") \in Nat /\ One(handle.at \in {"have", "recycle"}) \in Nat
      BY DEF One
    <2>7. Len(AllBuffers) <= PoolMax + 3
      BY <2>2, <2>3, <2>4, <2>5, <2>6 DEF DriverInv, Counted, InHand
    <2>8. Len(queue) <= PoolMax + 1
      BY <2>2 DEF DriverInv, Measured
    <2> QED
      BY <2>7, <2>8 DEF QueueBounded
  <1> QED
    BY <1>1, DriverInvariant, PTL

(* SyncQueue::push and popWait: the handle thread never sleeps on a packet *)
(* whose notification is behind it.                                        *)
THEOREM WakeupNotLost == Spec => []NoLostWakeup
PROOF
  <1>1. Init => NoLostWakeup
    BY DEF Init, NoLostWakeup
  <1>2. ASSUME DriverInv, NoLostWakeup, [Next]_vars PROVE NoLostWakeup'
    <2>1. PICK S : Holds(S)
      BY <1>2 DEF DriverInv
    <2>2. CASE Push
      <3>1. recv.at = "filled" /\ handle' = handle
            /\ recv' = [at |-> "notify", buf |-> None, empty |-> EmptyBeforePush,
                        size |-> Len(queue) + 1]
        BY <2>2 DEF Push
      <3>2. handle.at = "waiting" => queue = << >>
        BY <1>2, <3>1 DEF NoLostWakeup
      <3> QED
        BY <3>1, <3>2 DEF NoLostWakeup, EmptyBeforePush
    <2>3. CASE Notify
      <3>1. recv.at = "notify" /\ queue' = queue
            /\ handle' = IF recv.empty /\ handle.at = "waiting"
                         THEN [handle EXCEPT !.at = "woken"] ELSE handle
        BY <2>3 DEF Notify
      <3>2. CASE recv.empty /\ handle.at = "waiting"
        <4>1. handle'.at = "woken"
          BY <2>1, <3>1, <3>2 DEF Holds
        <4> QED
          BY <4>1 DEF NoLostWakeup
      <3>3. CASE ~ (recv.empty /\ handle.at = "waiting")
        BY <1>2, <3>1, <3>3 DEF NoLostWakeup
      <3> QED
        BY <3>2, <3>3
    <2>4. CASE CheckOverflow
      <3>1. recv.at = "check" /\ handle' = handle /\ (queue' = queue \/ queue' = << >>)
        BY <2>4 DEF CheckOverflow
      <3> QED
        BY <1>2, <3>1 DEF NoLostWakeup
    <2>5. CASE Receive \/ Discard \/ RecvExit
      <3>1. recv.at = "idle" /\ UNCHANGED <<handle, queue>>
        BY <2>5 DEF Receive, Discard, RecvExit
      <3> QED
        BY <1>2, <3>1 DEF NoLostWakeup
    <2>6. CASE Start
      <3>1. handle'.at = "check"
        BY <2>1, <2>6 DEF Start, Holds
      <3> QED
        BY <3>1 DEF NoLostWakeup
    <2>7. CASE HandleNext
      <3>1. ASSUME NEW o \in {"waiting", "check"}, PopOr(o)
            PROVE  NoLostWakeup'
        <4>1. handle'.at = "have" \/ (queue = << >> /\ queue' = queue)
          BY <3>1 DEF PopOr
        <4> QED
          BY <4>1 DEF NoLostWakeup
      <3>2. CASE HandleLoop
        <4>1. CASE toExitHandle
          <5>1. handle'.at = "dead"
            BY <2>1, <3>2, <4>1 DEF HandleLoop, Holds
          <5> QED
            BY <5>1 DEF NoLostWakeup
        <4>2. CASE ~toExitHandle
          BY <3>1, <3>2, <4>2 DEF HandleLoop
        <4> QED
          BY <4>1, <4>2
      <3>3. CASE Woken \/ Timeout
        BY <3>1, <3>3 DEF Woken, Timeout
      <3>4. CASE Decode \/ Recycle
        <4>1. handle'.at \in {"recycle", "check"}
          BY <2>1, <3>4 DEF Decode, Recycle, Holds
        <4> QED
          BY <4>1 DEF NoLostWakeup
      <3> QED
        BY <2>7, <3>2, <3>3, <3>4 DEF HandleNext
    <2>8. CASE InitDriver \/ StopInput \/ StopNext \/ UNCHANGED vars
      <3>1. UNCHANGED <<recv, handle, queue>>
        BY <2>8 DEF InitDriver, StopInput, StopNext, StopHandle, Stopped, vars
      <3> QED
        BY <1>2, <3>1 DEF NoLostWakeup
    <2> QED
      BY <1>2, <2>2, <2>3, <2>4, <2>5, <2>6, <2>7, <2>8 DEF Next, RecvNext
  <1> QED
    BY <1>1, <1>2, DriverInvariant, PTL DEF Spec

-----------------------------------------------------------------------------
(* Sequences, element by element.                                          *)

LEMMA AppendElements ==
  ASSUME NEW S, NEW s \in Seq(S), NEW e \in S
  PROVE  /\ Append(s, e) \in Seq(S)
         /\ DOMAIN Append(s, e) = 1 .. Len(s) + 1 /\ Len(s) \in Nat
         /\ Append(s, e)[Len(s) + 1] = e
         /\ \A i \in DOMAIN Append(s, e) :
              \/ i \in DOMAIN s /\ i < Len(s) + 1 /\ Append(s, e)[i] = s[i]
              \/ i = Len(s) + 1
PROOF
  OBVIOUS

LEMMA TailElements ==
  ASSUME NEW S, NEW s \in Seq(S), s # << >>
  PROVE  /\ Tail(s) \in Seq(S) /\ Head(s) = s[1] /\ 1 \in DOMAIN s
         /\ \A i \in DOMAIN Tail(s) : i \in Nat /\ 1 < i + 1 /\ i + 1 \in DOMAIN s
                                      /\ Tail(s)[i] = s[i + 1]
         /\ \A i \in DOMAIN s : i = 1 \/ (i - 1 \in DOMAIN Tail(s) /\ Tail(s)[i - 1] = s[i])
PROOF
  OBVIOUS

LEMMA ConcatElements ==
  ASSUME NEW S, NEW s \in Seq(S), NEW t \in Seq(S)
  PROVE  \A i \in DOMAIN (s \o t) : \/ \E j \in DOMAIN s : (s \o t)[i] = s[j]
                                    \/ \E j \in DOMAIN t : (s \o t)[i] = t[j]
PROOF
  <1>1. \A i \in DOMAIN (s \o t) :
          \/ i \in DOMAIN s /\ (s \o t)[i] = s[i]
          \/ i - Len(s) \in DOMAIN t /\ (s \o t)[i] = t[i - Len(s)]
    OBVIOUS
  <1> QED
    BY <1>1

LEMMA InjectiveConcat ==
  ASSUME NEW S, NEW s \in Seq(S), NEW t \in Seq(S), IsInjective(s), IsInjective(t),
         \A i \in DOMAIN s, j \in DOMAIN t : s[i] # t[j]
  PROVE  IsInjective(s \o t)
PROOF
  <1>1. /\ Len(s) \in Nat /\ Len(t) \in Nat /\ DOMAIN (s \o t) = 1 .. Len(s) + Len(t)
        /\ \A i \in DOMAIN (s \o t) :
             \/ i \in DOMAIN s /\ (s \o t)[i] = s[i]
             \/ i - Len(s) \in DOMAIN t /\ (s \o t)[i] = t[i - Len(s)]
    OBVIOUS
  <1>2. ASSUME NEW i \in DOMAIN (s \o t), NEW j \in DOMAIN (s \o t), (s \o t)[i] = (s \o t)[j]
        PROVE  i = j
    <2>1. CASE i \in DOMAIN s /\ (s \o t)[i] = s[i]
      <3>1. j \in DOMAIN s /\ (s \o t)[j] = s[j]
        BY <1>1, <1>2, <2>1
      <3> QED
        BY <1>2, <2>1, <3>1 DEF IsInjective
    <2>2. CASE i - Len(s) \in DOMAIN t /\ (s \o t)[i] = t[i - Len(s)]
      <3>1. j - Len(s) \in DOMAIN t /\ (s \o t)[j] = t[j - Len(s)]
        BY <1>1, <1>2, <2>2
      <3>2. i - Len(s) = j - Len(s)
        BY <1>2, <2>2, <3>1 DEF IsInjective
      <3> QED
        BY <1>1, <3>2
    <2> QED
      BY <1>1, <2>1, <2>2
  <1> QED
    BY <1>2 DEF IsInjective

LEMMA InjectiveAppend ==
  ASSUME NEW S, NEW s \in Seq(S), NEW e \in S, IsInjective(s), \A i \in DOMAIN s : s[i] # e
  PROVE  IsInjective(Append(s, e))
PROOF
  <1> DEFINE t == Append(s, e)
  <1>1. /\ Len(s) \in Nat /\ t[Len(s) + 1] = e
        /\ \A i \in DOMAIN t : (i \in DOMAIN s /\ t[i] = s[i]) \/ i = Len(s) + 1
    BY AppendElements
  <1> HIDE DEF t
  <1>2. \A i, j \in DOMAIN t : t[i] = t[j] => i = j
    BY <1>1 DEF IsInjective
  <1> QED
    BY <1>2 DEF t, IsInjective

LEMMA InjectiveTail ==
  ASSUME NEW S, NEW s \in Seq(S), s # << >>, IsInjective(s)
  PROVE  IsInjective(Tail(s)) /\ \A i \in DOMAIN Tail(s) : Tail(s)[i] # s[1]
PROOF
  <1> DEFINE t == Tail(s)
  <1>1. /\ 1 \in DOMAIN s
        /\ \A i \in DOMAIN t : i \in Nat /\ 1 < i + 1 /\ i + 1 \in DOMAIN s /\ t[i] = s[i + 1]
    BY TailElements
  <1> HIDE DEF t
  <1>2. \A i, j \in DOMAIN t : t[i] = t[j] => i = j
    <2> SUFFICES ASSUME NEW i \in DOMAIN t, NEW j \in DOMAIN t, t[i] = t[j] PROVE i = j
      OBVIOUS
    <2>1. i + 1 = j + 1
      BY <1>1 DEF IsInjective
    <2> QED
      BY <1>1, <2>1
  <1>3. \A i \in DOMAIN t : t[i] # s[1]
    BY <1>1 DEF IsInjective
  <1> QED
    BY <1>2, <1>3 DEF t, IsInjective

-----------------------------------------------------------------------------
(* Every buffer is in one place.                                           *)

HandleHas == handle.at \in {"have", "recycle"}

Placed ==
  /\ pool \in Seq(Buffers) /\ queue \in Seq(Buffers)
  /\ recv.at = "filled" => recv.buf \in Buffers
  /\ HandleHas => handle.buf \in Buffers

Apart ==
  /\ IsInjective(pool) /\ IsInjective(queue)
  /\ \A i \in DOMAIN pool, j \in DOMAIN queue : pool[i] # queue[j]
  /\ recv.at = "filled" =>
       /\ \A i \in DOMAIN pool : pool[i] # recv.buf
       /\ \A i \in DOMAIN queue : queue[i] # recv.buf
  /\ HandleHas =>
       /\ \A i \in DOMAIN pool : pool[i] # handle.buf
       /\ \A i \in DOMAIN queue : queue[i] # handle.buf
  /\ recv.at = "filled" /\ HandleHas => recv.buf # handle.buf

SharingInv == Placed /\ Apart

(* packetGet finds a buffer that nobody has: what is in use, when the pool *)
(* is empty, is at most PoolMax + 1 of the PoolMax + 3.                    *)
LEMMA BufferLeft ==
  ASSUME DriverInv, Placed, recv.at = "idle", pool = << >>
  PROVE  \E b \in Buffers : b \notin InUse
PROOF
  <1> USE DriverAssumption
  <1>1. PoolMax \in Nat /\ Len(queue) \in Nat /\ Len(queue) <= PoolMax /\ recv.buf = None
    BY DEF DriverInv, Measured, Owns, Placed
  <1>2. InUse = (Range(queue) \cup {None}) \cup {handle.buf}
    BY <1>1 DEF InUse, Range
  <1>3. IsFiniteSet(Range(queue)) /\ Cardinality(Range(queue)) <= Len(queue)
    <2>1. DOMAIN queue = 1 .. Len(queue) /\ queue \in [1 .. Len(queue) -> Range(queue)]
      BY DEF Placed, Range
    <2>2. queue \in Surjection(1 .. Len(queue), Range(queue))
      BY <2>1 DEF Surjection, Range
    <2>3. IsFiniteSet(1 .. Len(queue)) /\ Cardinality(1 .. Len(queue)) = Len(queue)
      <3>0. 1 \in Int /\ Len(queue) \in Int
        BY <1>1
      <3>1. IsFiniteSet(1 .. Len(queue))
            /\ Cardinality(1 .. Len(queue)) = IF 1 > Len(queue) THEN 0 ELSE Len(queue) - 1 + 1
        BY <3>0, FS_Interval, Zenon
      <3> QED
        BY <1>1, <3>1
    <2> QED
      BY <2>2, <2>3, FS_Surjection
  <1>4. IsFiniteSet(InUse) /\ Cardinality(InUse) <= PoolMax + 2
    <2>1. Cardinality(Range(queue)) \in Nat
      BY <1>3, FS_CardinalityType
    <2>2. ASSUME NEW S, NEW x, IsFiniteSet(S), Cardinality(S) \in Nat
          PROVE  /\ IsFiniteSet(S \cup {x}) /\ Cardinality(S \cup {x}) \in Nat
                 /\ Cardinality(S \cup {x}) <= Cardinality(S) + 1
      <3>1. IsFiniteSet(S \cup {x})
            /\ Cardinality(S \cup {x}) = IF x \in S THEN Cardinality(S) ELSE Cardinality(S) + 1
        BY <2>2, FS_AddElement, Zenon
      <3> QED
        BY <2>2, <3>1
    <2>3. /\ IsFiniteSet(Range(queue) \cup {None})
          /\ Cardinality(Range(queue) \cup {None}) \in Nat
          /\ Cardinality(Range(queue) \cup {None}) <= Cardinality(Range(queue)) + 1
      BY <1>3, <2>1, <2>2
    <2>4. /\ IsFiniteSet(InUse)
          /\ Cardinality(InUse) <= Cardinality(Range(queue) \cup {None}) + 1
      BY <1>2, <2>2, <2>3
    <2>5. Cardinality(InUse) \in Nat
      BY <2>4, FS_CardinalityType
    <2> QED
      BY <1>1, <1>3, <2>1, <2>3, <2>4, <2>5
  <1>5. Cardinality(Buffers) = PoolMax + 3
    BY <1>1, FS_Interval DEF Buffers
  <1>6. ~ (Buffers \subseteq InUse)
    <2> SUFFICES ASSUME Buffers \subseteq InUse PROVE FALSE
      OBVIOUS
    <2>1. Cardinality(Buffers) <= Cardinality(InUse) /\ Cardinality(InUse) \in Nat
      BY <1>4, FS_Subset, FS_CardinalityType
    <2> QED
      BY <1>1, <1>4, <1>5, <2>1
  <1> QED
    BY <1>6

LEMMA TakenIsFree ==
  ASSUME DriverInv, SharingInv, recv.at = "idle"
  PROVE  /\ TakenBuffer \in Buffers
         /\ \A i \in DOMAIN RestOfPool : RestOfPool[i] # TakenBuffer
         /\ \A i \in DOMAIN queue : queue[i] # TakenBuffer
         /\ HandleHas => handle.buf # TakenBuffer
PROOF
  <1>1. CASE pool = << >>
    <2>1. TakenBuffer \in Buffers /\ TakenBuffer \notin InUse
      BY <1>1, BufferLeft DEF TakenBuffer, SharingInv
    <2>2. RestOfPool = << >>
      BY <1>1 DEF RestOfPool
    <2> QED
      BY <2>1, <2>2 DEF InUse, Range
  <1>2. CASE pool # << >>
    <2>1. TakenBuffer = pool[1] /\ RestOfPool = Tail(pool) /\ 1 \in DOMAIN pool
          /\ pool \in Seq(Buffers)
      BY <1>2, TailElements DEF TakenBuffer, RestOfPool, SharingInv, Placed
    <2>2. \A i \in DOMAIN Tail(pool) : Tail(pool)[i] # pool[1]
      BY <1>2, InjectiveTail DEF SharingInv, Placed, Apart
    <2> QED
      BY <2>1, <2>2 DEF SharingInv, Apart
  <1> QED
    BY <1>1, <1>2

(* Steps that move no buffer, or drop the queue.                           *)
LEMMA SharingKept ==
  ASSUME SharingInv, pool' = pool, queue' = queue \/ queue' = << >>,
         recv'.at = "filled" => recv.at = "filled" /\ recv'.buf = recv.buf,
         HandleHas' => HandleHas /\ handle'.buf = handle.buf
  PROVE  SharingInv'
PROOF
  <1>0. << >> \in Seq(Buffers) /\ DOMAIN << >> = {} /\ IsInjective(<< >>)
    BY DEF IsInjective
  <1>1. pool' \in Seq(Buffers) /\ queue' \in Seq(Buffers)
    BY <1>0 DEF SharingInv, Placed
  <1>2. Placed'
    BY <1>1 DEF SharingInv, Placed
  <1>3. Apart'
    <2>1. CASE queue' = queue
      BY <2>1 DEF SharingInv, Apart
    <2>2. CASE queue' = << >>
      BY <1>0, <2>2 DEF SharingInv, Apart
    <2> QED
      BY <2>1, <2>2
  <1> QED
    BY <1>2, <1>3 DEF SharingInv

LEMMA ReceiveShares == DriverInv /\ SharingInv /\ Receive => SharingInv'
PROOF
  <1> SUFFICES ASSUME DriverInv, SharingInv, Receive PROVE SharingInv'
    OBVIOUS
  <1>1. PICK S : Holds(S)
    BY DEF DriverInv
  <1>2. recv.at = "idle" /\ UNCHANGED <<handle, queue>> /\ pool' = RestOfPool
        /\ recv' = [recv EXCEPT !.at = "filled", !.buf = TakenBuffer]
    BY DEF Receive
  <1> DEFINE t == TakenBuffer
  <1>3. /\ t \in Buffers
        /\ \A i \in DOMAIN pool' : pool'[i] # t
        /\ \A i \in DOMAIN queue : queue[i] # t
        /\ HandleHas => handle.buf # t
    BY <1>2, TakenIsFree
  <1>4. recv' = [recv EXCEPT !.at = "filled", !.buf = t]
    BY <1>2
  <1> HIDE DEF t
  <1>5. recv'.at = "filled" /\ recv'.buf = t
    BY <1>1, <1>4 DEF Holds
  <1>6. /\ pool' \in Seq(Buffers) /\ IsInjective(pool')
        /\ \A i \in DOMAIN pool' : \E j \in DOMAIN pool : pool'[i] = pool[j]
    <2>1. CASE pool = << >>
      BY <1>2, <2>1 DEF RestOfPool, SharingInv, Placed, Apart
    <2>2. CASE pool # << >>
      <3>1. pool' = Tail(pool) /\ pool \in Seq(Buffers) /\ IsInjective(pool)
        BY <1>2, <2>2 DEF RestOfPool, SharingInv, Placed, Apart
      <3> QED
        BY <2>2, <3>1, TailElements, InjectiveTail
    <2> QED
      BY <2>1, <2>2
  <1>7. HandleHas' = HandleHas
    BY <1>2 DEF HandleHas
  <1>8. Placed'
    BY <1>2, <1>3, <1>5, <1>6, <1>7 DEF SharingInv, Placed
  <1>9. Apart'
    BY <1>2, <1>3, <1>5, <1>6, <1>7 DEF SharingInv, Apart
  <1> QED
    BY <1>8, <1>9 DEF SharingInv

LEMMA DiscardShares == SharingInv /\ Discard => SharingInv'
PROOF
  <1> SUFFICES ASSUME SharingInv, Discard PROVE SharingInv'
    OBVIOUS
  <1>1. UNCHANGED <<recv, handle, queue>> /\ pool # << >> /\ pool' = Tail(pool)
        /\ pool \in Seq(Buffers) /\ IsInjective(pool)
    BY DEF Discard, RestOfPool, SharingInv, Placed, Apart
  <1>2. /\ pool' \in Seq(Buffers) /\ IsInjective(pool')
        /\ \A i \in DOMAIN pool' : \E j \in DOMAIN pool : pool'[i] = pool[j]
    BY <1>1, TailElements, InjectiveTail
  <1> QED
    BY <1>1, <1>2 DEF SharingInv, Placed, Apart, HandleHas

LEMMA PushShares == SharingInv /\ Push => SharingInv'
PROOF
  <1> SUFFICES ASSUME SharingInv, Push PROVE SharingInv'
    OBVIOUS
  <1> DEFINE e == EmptyBeforePush
             n == Len(queue) + 1
  <1>1. /\ recv.at = "filled" /\ UNCHANGED <<handle, pool>>
        /\ queue' = Append(queue, recv.buf)
        /\ recv' = [at |-> "notify", buf |-> None, empty |-> e, size |-> n]
    BY DEF Push
  <1> HIDE DEF e, n
  <1>2. recv'.at # "filled" /\ HandleHas' = HandleHas
    BY <1>1 DEF HandleHas
  <1>3. queue \in Seq(Buffers) /\ recv.buf \in Buffers /\ IsInjective(queue)
        /\ \A i \in DOMAIN queue : queue[i] # recv.buf
    BY <1>1 DEF SharingInv, Placed, Apart
  <1>4. /\ queue' \in Seq(Buffers) /\ IsInjective(queue')
        /\ \A i \in DOMAIN queue' :
             queue'[i] = recv.buf \/ \E j \in DOMAIN queue : queue'[i] = queue[j]
    BY <1>1, <1>3, AppendElements, InjectiveAppend
  <1>5. Placed'
    BY <1>1, <1>2, <1>4 DEF SharingInv, Placed
  <1>6. Apart'
    BY <1>1, <1>2, <1>4 DEF SharingInv, Apart
  <1> QED
    BY <1>5, <1>6 DEF SharingInv

LEMMA PopShares ==
  ASSUME SharingInv, ~HandleHas, NEW o \in {"waiting", "check"}, PopOr(o), UNCHANGED <<recv, pool>>
  PROVE  SharingInv'
PROOF
  <1>1. CASE queue = << >>
    <2>1. handle' = [at |-> o, buf |-> None] /\ queue' = queue
      BY <1>1 DEF PopOr
    <2>2. ~HandleHas'
      BY <2>1 DEF HandleHas
    <2> QED
      BY <2>1, <2>2, SharingKept
  <1>2. CASE queue # << >>
    <2>1. handle' = [at |-> "have", buf |-> Head(queue)] /\ queue' = Tail(queue)
          /\ queue \in Seq(Buffers) /\ IsInjective(queue)
      BY <1>2 DEF PopOr, SharingInv, Placed, Apart
    <2>2. /\ queue' \in Seq(Buffers) /\ IsInjective(queue')
          /\ \A i \in DOMAIN queue' : \E j \in DOMAIN queue : queue'[i] = queue[j]
          /\ \A i \in DOMAIN queue' : queue'[i] # queue[1]
          /\ 1 \in DOMAIN queue /\ queue[1] \in Buffers
          /\ HandleHas' /\ handle'.buf = queue[1]
      BY <1>2, <2>1, TailElements, InjectiveTail DEF HandleHas
    <2>3. Placed'
      BY <2>2 DEF SharingInv, Placed
    <2>4. Apart'
      BY <2>2 DEF SharingInv, Apart
    <2> QED
      BY <2>3, <2>4 DEF SharingInv
  <1> QED
    BY <1>1, <1>2

LEMMA RecycleShares == SharingInv /\ Recycle => SharingInv'
PROOF
  <1> SUFFICES ASSUME SharingInv, Recycle PROVE SharingInv'
    OBVIOUS
  <1>1. /\ HandleHas /\ UNCHANGED <<recv, queue>>
        /\ pool' = Append(pool, handle.buf)
        /\ handle' = [at |-> "check", buf |-> None]
    BY DEF Recycle, HandleHas
  <1>2. ~HandleHas'
    BY <1>1 DEF HandleHas
  <1>3. pool \in Seq(Buffers) /\ handle.buf \in Buffers /\ IsInjective(pool)
        /\ \A i \in DOMAIN pool : pool[i] # handle.buf
    BY <1>1 DEF SharingInv, Placed, Apart
  <1>4. /\ pool' \in Seq(Buffers) /\ IsInjective(pool')
        /\ \A i \in DOMAIN pool' :
             pool'[i] = handle.buf \/ \E j \in DOMAIN pool : pool'[i] = pool[j]
    BY <1>1, <1>3, AppendElements, InjectiveAppend
  <1>5. Placed'
    BY <1>1, <1>2, <1>4 DEF SharingInv, Placed
  <1>6. Apart'
    BY <1>1, <1>2, <1>4 DEF SharingInv, Apart
  <1> QED
    BY <1>5, <1>6 DEF SharingInv

LEMMA HandleShares == DriverInv /\ SharingInv /\ HandleNext => SharingInv'
PROOF
  <1> SUFFICES ASSUME DriverInv, SharingInv, HandleNext PROVE SharingInv'
    OBVIOUS
  <1>1. PICK S : Holds(S)
    BY DEF DriverInv
  <1>2. CASE HandleLoop /\ toExitHandle
    <2>1. UNCHANGED <<recv, pool, queue>> /\ handle'.at = "dead"
      BY <1>1, <1>2 DEF HandleLoop, Holds
    <2> QED
      BY <2>1, SharingKept DEF HandleHas
  <1>3. CASE (HandleLoop /\ ~toExitHandle) \/ Woken \/ Timeout
    <2>1. ~HandleHas /\ UNCHANGED <<recv, pool>> /\ (PopOr("waiting") \/ PopOr("check"))
      BY <1>3 DEF HandleLoop, Woken, Timeout, HandleHas
    <2> QED
      BY <2>1, PopShares
  <1>4. CASE Decode
    <2>1. UNCHANGED <<recv, pool, queue>> /\ HandleHas /\ handle'.buf = handle.buf
      BY <1>1, <1>4 DEF Decode, Holds, HandleHas
    <2> QED
      BY <2>1, SharingKept
  <1> QED
    BY <1>2, <1>3, <1>4, RecycleShares DEF HandleNext

LEMMA OthersShare ==
  ASSUME DriverInv, SharingInv,
         Start \/ InitDriver \/ StopInput \/ StopNext \/ Notify \/ CheckOverflow \/ RecvExit
           \/ UNCHANGED vars
  PROVE  SharingInv'
PROOF
  <1>1. PICK S : Holds(S)
    BY DEF DriverInv
  <1>2. pool' = pool /\ (queue' = queue \/ queue' = << >>)
    BY DEF Start, InitDriver, StopInput, StopNext, StopHandle, Stopped, Notify,
           CheckOverflow, RecvExit, vars
  <1>3. recv' = recv \/ recv'.at \in {"idle", "check", "dead"}
    BY <1>1 DEF Start, InitDriver, StopInput, StopNext, StopHandle, Stopped, Notify,
                CheckOverflow, RecvExit, vars, Holds
  <1>4. handle' = handle \/ handle'.at \in {"check", "woken"}
    BY <1>1 DEF Start, InitDriver, StopInput, StopNext, StopHandle, Stopped, Notify,
                CheckOverflow, RecvExit, vars, Holds
  <1>5. /\ recv'.at = "filled" => recv.at = "filled" /\ recv'.buf = recv.buf
        /\ HandleHas' => HandleHas /\ handle'.buf = handle.buf
    BY <1>3, <1>4 DEF HandleHas
  <1> QED
    BY <1>2, <1>5, SharingKept

(* SharingInv holds at the start and through every step.                   *)
THEOREM SharingInvariant == Spec => []SharingInv
PROOF
  <1>1. Init => SharingInv
    <2> SUFFICES ASSUME Init PROVE SharingInv
      OBVIOUS
    <2>1. pool = << >> /\ queue = << >> /\ recv.at = "dead" /\ ~HandleHas
      BY DEF Init, HandleHas
    <2>2. DOMAIN pool = {} /\ DOMAIN queue = {} /\ pool \in Seq(Buffers) /\ queue \in Seq(Buffers)
      BY <2>1
    <2> QED
      BY <2>1, <2>2 DEF SharingInv, Placed, Apart, IsInjective
  <1>2. DriverInv /\ SharingInv /\ [Next]_vars => SharingInv'
    BY ReceiveShares, DiscardShares, PushShares, HandleShares, OthersShare DEF Next, RecvNext
  <1> QED
    BY <1>1, <1>2, DriverInvariant, PTL DEF Spec

(* packetGet, packetPut and internalProcessPacket: a buffer is in one      *)
(* place at a time, so no packet is overwritten before it is decoded.      *)
THEOREM BuffersAreApart == Spec => []BuffersNotShared
PROOF
  <1>1. DriverInv /\ SharingInv => BuffersNotShared
    <2> SUFFICES ASSUME DriverInv, SharingInv PROVE BuffersNotShared
      OBVIOUS
    <2> DEFINE r == Held(recv)
               h == Held(handle)
               pq == pool \o queue
               pqr == pq \o r
    <2>1. /\ pool \in Seq(Buffers) /\ queue \in Seq(Buffers)
          /\ IsInjective(pool) /\ IsInjective(queue)
          /\ \A i \in DOMAIN pool, j \in DOMAIN queue : pool[i] # queue[j]
      BY DEF SharingInv, Placed, Apart
    <2>2. /\ r \in Seq(Buffers) /\ IsInjective(r)
          /\ \A i \in DOMAIN r : r[i] = recv.buf /\ recv.at = "filled"
      BY DEF Held, DriverInv, Owns, SharingInv, Placed, IsInjective
    <2>3. /\ h \in Seq(Buffers) /\ IsInjective(h)
          /\ \A i \in DOMAIN h : h[i] = handle.buf /\ HandleHas
      BY DEF Held, DriverInv, Owns, SharingInv, Placed, IsInjective, HandleHas
    <2> HIDE DEF r, h
    <2>4. pq \in Seq(Buffers) /\ IsInjective(pq)
      BY <2>1, InjectiveConcat
    <2>5. \A i \in DOMAIN pq : \/ \E j \in DOMAIN pool : pq[i] = pool[j]
                               \/ \E j \in DOMAIN queue : pq[i] = queue[j]
      BY <2>1, ConcatElements
    <2> HIDE DEF pq
    <2>6. \A i \in DOMAIN pq, j \in DOMAIN r : pq[i] # r[j]
      BY <2>2, <2>5 DEF SharingInv, Apart
    <2>7. pqr \in Seq(Buffers) /\ IsInjective(pqr)
      BY <2>2, <2>4, <2>6, InjectiveConcat
    <2>8. \A i \in DOMAIN pqr : \/ \E j \in DOMAIN pq : pqr[i] = pq[j]
                                \/ \E j \in DOMAIN r : pqr[i] = r[j]
      BY <2>2, <2>4, ConcatElements
    <2> HIDE DEF pqr
    <2>9. \A i \in DOMAIN pqr, j \in DOMAIN h : pqr[i] # h[j]
      BY <2>2, <2>3, <2>5, <2>8 DEF SharingInv, Apart
    <2>10. IsInjective(pqr \o h)
      BY <2>3, <2>7, <2>9, InjectiveConcat
    <2> QED
      BY <2>10 DEF BuffersNotShared, AllBuffers, pq, pqr, r, h
  <1> QED
    BY <1>1, DriverInvariant, SharingInvariant, PTL

-----------------------------------------------------------------------------
(* What the buffers contain: the packets pending are those of the handle   *)
(* thread's buffer not yet decoded, of the queue, and of the receive       *)
(* thread's buffer, in the order of their numbers.                         *)

Pending == Range(queue)
             \cup (IF recv.at = "filled" THEN {recv.buf} ELSE {})
             \cup (IF handle.at = "have" THEN {handle.buf} ELSE {})
N(b) == content[b].n

DataOK ==
  /\ ctl \in {"new", "stopped", "running", "joinInput", "joinHandle"}
  /\ sessions \in 0..MaxSessions
  /\ toExitRecv \in BOOLEAN /\ toExitHandle \in BOOLEAN
  /\ recv.at # "dead" => sessions # 0
  /\ received \in 0..MaxPackets
  /\ \A b \in DOMAIN content : content[b] \in Packets /\ N(b) <= received
  /\ Pending \subseteq DOMAIN content
  /\ cloud \in Seq(Points) /\ published \in Seq(Seq(Points))
  /\ decoded \in Seq(1..MaxPackets)
  /\ overflowed \in BOOLEAN

NumbersRise ==
  /\ \A i, j \in DOMAIN queue : i < j => N(queue[i]) < N(queue[j])
  /\ recv.at = "filled" => \A i \in DOMAIN queue : N(queue[i]) < N(recv.buf)
  /\ handle.at = "have" => \A i \in DOMAIN queue : N(handle.buf) < N(queue[i])
  /\ handle.at = "have" /\ recv.at = "filled" => N(handle.buf) < N(recv.buf)

Accounted ==
  overflowed \/ Range(decoded) \cup {N(b) : b \in Pending} = 1..received

\* Clouds cs and then the cloud c have their points in order, all below m.
Sorted(cs, c, m) ==
  /\ \A k, l \in DOMAIN cs : \A i \in DOMAIN cs[k], j \in DOMAIN cs[l] :
       k < l \/ (k = l /\ i < j) => cs[k][i].at < cs[l][j].at
  /\ \A i, j \in DOMAIN c : i < j => c[i].at < c[j].at
  /\ \A k \in DOMAIN cs : \A i \in DOMAIN cs[k], j \in DOMAIN c : cs[k][i].at < c[j].at
  /\ \A k \in DOMAIN cs : \A i \in DOMAIN cs[k] : cs[k][i].at < m
  /\ \A i \in DOMAIN c : c[i].at < m

\* Packet n has its points at 2n and 2n + 1: those pending come after all.
FramesSorted ==
  /\ Sorted(published, cloud, 2 * received + 2)
  /\ \A b \in Pending : Sorted(published, cloud, 2 * N(b))

PacketsInv == DataOK /\ NumbersRise /\ Accounted /\ FramesSorted

\* All steps but Receive and Decode: packets move, or the queue is dropped.
Moving == \/ Start \/ InitDriver \/ StopInput \/ StopNext
          \/ Discard \/ Push \/ Notify \/ CheckOverflow \/ RecvExit
          \/ HandleLoop \/ Woken \/ Timeout \/ Recycle

LEMMA PushPending == SharingInv /\ NumbersRise /\ Push => Pending' = Pending /\ NumbersRise'
PROOF
  <1> SUFFICES ASSUME SharingInv, NumbersRise, Push PROVE Pending' = Pending /\ NumbersRise'
    OBVIOUS
  <1> DEFINE e == EmptyBeforePush
             n == Len(queue) + 1
  <1>1. /\ recv.at = "filled" /\ UNCHANGED <<handle, content>>
        /\ queue' = Append(queue, recv.buf)
        /\ recv' = [at |-> "notify", buf |-> None, empty |-> e, size |-> n]
    BY DEF Push
  <1>2. recv'.at = "notify"
    BY <1>1
  <1>3. queue \in Seq(Buffers) /\ recv.buf \in Buffers
    BY <1>1 DEF SharingInv, Placed
  <1>4. /\ DOMAIN queue' = 1 .. n /\ Len(queue) \in Nat /\ queue'[n] = recv.buf
        /\ DOMAIN queue = 1 .. Len(queue)
        /\ \A i \in DOMAIN queue : i \in DOMAIN queue' /\ queue'[i] = queue[i]
        /\ \A i \in DOMAIN queue' :
             (i \in DOMAIN queue /\ i < n /\ queue'[i] = queue[i]) \/ i = n
    <2>1. queue' \in Seq(Buffers) /\ Len(queue') = Len(queue) + 1
      BY <1>1, <1>3
    <2> QED
      BY <1>1, <1>3, <2>1, AppendElements
  <1> HIDE DEF e, n
  <1>5. Range(queue') = Range(queue) \cup {recv.buf}
    <2>1. n \in DOMAIN queue'
      BY <1>4 DEF n
    <2> QED
      BY <1>4, <2>1 DEF Range
  <1>6. Pending' = Pending
    BY <1>1, <1>2, <1>5 DEF Pending
  <1>7. \A b : N(b)' = N(b)
    BY <1>1 DEF N
  <1>8. \A i, j \in DOMAIN queue' : i < j => N(queue'[i]) < N(queue'[j])
    BY <1>1, <1>4 DEF NumbersRise
  <1>9. handle.at = "have" => \A i \in DOMAIN queue' : N(handle.buf) < N(queue'[i])
    BY <1>1, <1>4 DEF NumbersRise
  <1>10. NumbersRise'
    BY <1>1, <1>2, <1>7, <1>8, <1>9 DEF NumbersRise, N
  <1> QED
    BY <1>6, <1>10

LEMMA PopPending ==
  ASSUME SharingInv, NumbersRise, ~HandleHas, NEW o \in {"waiting", "check"}, PopOr(o),
         UNCHANGED <<recv, content>>
  PROVE  Pending' = Pending /\ NumbersRise'
PROOF
  <1>1. CASE queue = << >>
    <2>1. handle' = [at |-> o, buf |-> None] /\ queue' = queue
      BY <1>1 DEF PopOr
    <2>2. handle'.at # "have" /\ handle.at # "have"
      BY <2>1 DEF HandleHas
    <2> QED
      BY <2>1, <2>2 DEF Pending, NumbersRise, N
  <1>2. CASE queue # << >>
    <2>1. handle' = [at |-> "have", buf |-> Head(queue)] /\ queue' = Tail(queue)
          /\ queue \in Seq(Buffers) /\ handle.at # "have"
      BY <1>2 DEF PopOr, SharingInv, Placed, HandleHas
    <2>2. /\ \A i \in DOMAIN queue' : i \in Nat /\ 1 < i + 1 /\ i + 1 \in DOMAIN queue
                                      /\ queue'[i] = queue[i + 1]
          /\ \A i \in DOMAIN queue :
               i = 1 \/ (i - 1 \in DOMAIN queue' /\ queue'[i - 1] = queue[i])
          /\ 1 \in DOMAIN queue
          /\ handle'.at = "have" /\ handle'.buf = queue[1]
      BY <1>2, <2>1, TailElements
    <2>3. Range(queue) = Range(queue') \cup {queue[1]}
      BY <2>2 DEF Range
    <2>4. Pending' = Pending
      BY <2>1, <2>2, <2>3 DEF Pending
    <2>5. \A i, j \in DOMAIN queue' : i < j => N(queue'[i]) < N(queue'[j])
      BY <2>2 DEF NumbersRise
    <2>6. \A i \in DOMAIN queue' : N(queue[1]) < N(queue'[i])
      BY <2>2 DEF NumbersRise
    <2>7. recv.at = "filled" => /\ N(queue[1]) < N(recv.buf)
                                /\ \A i \in DOMAIN queue' : N(queue'[i]) < N(recv.buf)
      BY <2>2 DEF NumbersRise
    <2>8. NumbersRise'
      BY <2>2, <2>5, <2>6, <2>7 DEF NumbersRise, N
    <2> QED
      BY <2>4, <2>8
  <1> QED
    BY <1>1, <1>2

\* Steps that leave the pending packets, or drop those of the queue.
LEMMA StayPending ==
  ASSUME NumbersRise, UNCHANGED content, queue' = queue \/ queue' = << >>,
         recv' = recv \/ (recv.at # "filled" /\ recv'.at # "filled"),
         handle' = handle \/ (handle.at # "have" /\ handle'.at # "have")
  PROVE  /\ Pending' \subseteq Pending /\ NumbersRise'
         /\ queue' = queue => Pending' = Pending
PROOF
  <1>1. DOMAIN << >> = {} /\ Range(<< >>) = {}
    BY DEF Range
  <1>2. Range(queue') \subseteq Range(queue)
    BY <1>1
  <1>3. /\ (recv'.at = "filled") = (recv.at = "filled")
        /\ recv.at = "filled" => recv' = recv
        /\ (handle'.at = "have") = (handle.at = "have")
        /\ handle.at = "have" => handle' = handle
    OBVIOUS
  <1>4. Pending' \subseteq Pending /\ (queue' = queue => Pending' = Pending)
    BY <1>2, <1>3 DEF Pending
  <1>5. CASE queue' = queue
    BY <1>3, <1>4, <1>5 DEF NumbersRise, N
  <1>6. CASE queue' = << >>
    BY <1>1, <1>3, <1>4, <1>6 DEF NumbersRise, N
  <1> QED
    BY <1>4, <1>5, <1>6

LEMMA MovingPending ==
  ASSUME DriverInv, SharingInv, NumbersRise, Moving
  PROVE  /\ UNCHANGED <<content, received, published, decoded>>
         /\ cloud' = cloud \/ cloud' = << >>
         /\ Pending' \subseteq Pending /\ NumbersRise'
         /\ overflowed' = TRUE \/ (overflowed' = overflowed /\ Pending' = Pending)
PROOF
  <1>1. PICK S : Holds(S)
    BY DEF DriverInv
  <1>2. /\ UNCHANGED <<content, received, published, decoded>>
        /\ cloud' = cloud \/ cloud' = << >>
    BY DEF Moving, Start, InitDriver, StopInput, StopNext, StopHandle, Stopped, Discard, Push,
           Notify, CheckOverflow, RecvExit, HandleLoop, Woken, Timeout, Recycle, frames
  <1>3. CASE Push
    <2>1. overflowed' = overflowed
      BY <1>3 DEF Push
    <2> QED
      BY <1>2, <1>3, <2>1, PushPending
  <1>4. CASE (HandleLoop /\ ~toExitHandle) \/ Woken \/ Timeout
    <2>1. ~HandleHas /\ UNCHANGED <<recv, content, overflowed>>
          /\ (PopOr("waiting") \/ PopOr("check"))
      BY <1>4 DEF HandleLoop, Woken, Timeout, HandleHas
    <2> QED
      BY <1>2, <2>1, PopPending
  <1>5. CASE Start \/ InitDriver \/ StopInput \/ StopNext \/ Discard
    <2>1. UNCHANGED <<queue, content, overflowed>>
      BY <1>5 DEF Start, InitDriver, StopInput, StopNext, StopHandle, Stopped, Discard
    <2>2. recv' = recv \/ (recv.at # "filled" /\ recv'.at # "filled")
      BY <1>1, <1>5 DEF Start, InitDriver, StopInput, StopNext, StopHandle, Stopped, Discard,
                        DriverInv, Joined, Holds
    <2>3. handle' = handle \/ (handle.at # "have" /\ handle'.at # "have")
      BY <1>1, <1>5 DEF Start, InitDriver, StopInput, StopNext, StopHandle, Stopped, Discard,
                        DriverInv, Joined, Holds
    <2> QED
      BY <1>2, <2>1, <2>2, <2>3, StayPending
  <1>6. CASE Notify \/ CheckOverflow \/ RecvExit
    <2>1. /\ queue' = queue \/ queue' = << >>
          /\ overflowed' = TRUE \/ (overflowed' = overflowed /\ queue' = queue)
      BY <1>6 DEF Notify, CheckOverflow, RecvExit
    <2>2. recv.at # "filled" /\ recv'.at # "filled"
      BY <1>1, <1>6 DEF Notify, CheckOverflow, RecvExit, Holds
    <2>3. handle' = handle \/ (handle.at # "have" /\ handle'.at # "have")
      BY <1>1, <1>6 DEF Notify, CheckOverflow, RecvExit, Holds
    <2> QED
      BY <1>2, <2>1, <2>2, <2>3, StayPending
  <1>7. CASE (HandleLoop /\ toExitHandle) \/ Recycle
    <2>1. UNCHANGED <<queue, recv, content, overflowed>>
      BY <1>7 DEF HandleLoop, Recycle
    <2>2. handle.at # "have" /\ handle'.at # "have"
      BY <1>1, <1>7 DEF HandleLoop, Recycle, Holds
    <2> QED
      BY <1>2, <2>1, <2>2, StayPending
  <1> QED
    BY <1>3, <1>4, <1>5, <1>6, <1>7 DEF Moving

-----------------------------------------------------------------------------
(* Points in order: what a decoder does to the clouds.                     *)

LEMMA SortedBelow ==
  ASSUME NEW cs \in Seq(Seq(Points)), NEW c \in Seq(Points), NEW m \in Nat, NEW n \in Nat, m <= n,
         Sorted(cs, c, m)
  PROVE  Sorted(cs, c, n)
PROOF
  <1>1. /\ \A k \in DOMAIN cs : \A i \in DOMAIN cs[k] : cs[k][i].at \in Nat
        /\ \A i \in DOMAIN c : c[i].at \in Nat
    <2>1. \A k \in DOMAIN cs : cs[k] \in Seq(Points)
      OBVIOUS
    <2>2. ASSUME NEW s \in Seq(Points), NEW i \in DOMAIN s PROVE s[i].at \in Nat
      <3>1. s[i] \in Points
        OBVIOUS
      <3> QED
        BY <3>1 DEF Points
    <2> QED
      BY <2>1, <2>2
  <1>2. /\ \A k \in DOMAIN cs : \A i \in DOMAIN cs[k] : cs[k][i].at < n
        /\ \A i \in DOMAIN c : c[i].at < n
    BY <1>1 DEF Sorted
  <1> QED
    BY <1>2 DEF Sorted

\* The current cloud is cleared.
LEMMA SortedClear ==
  ASSUME NEW cs, NEW c, NEW m, Sorted(cs, c, m)
  PROVE  Sorted(cs, << >>, m)
PROOF
  BY DEF Sorted

\* A point is added to the current cloud.
LEMMA SortedAdd ==
  ASSUME NEW cs \in Seq(Seq(Points)), NEW c \in Seq(Points), NEW p \in Points,
         Sorted(cs, c, p.at)
  PROVE  Append(c, p) \in Seq(Points) /\ Sorted(cs, Append(c, p), p.at + 1)
PROOF
  <1> DEFINE a == Append(c, p)
             n == Len(c) + 1
  <1>1. /\ a \in Seq(Points) /\ DOMAIN a = 1 .. n /\ n \in Nat /\ a[n] = p
        /\ DOMAIN c = 1 .. n - 1
        /\ \A i \in DOMAIN a : (i \in DOMAIN c /\ i < n /\ a[i] = c[i]) \/ i = n
    BY AppendElements
  <1> HIDE DEF a, n
  <1>2. p.at \in Nat
    BY DEF Points
  <1>3. Sorted(cs, c, p.at + 1)
    BY <1>2, SortedBelow
  <1>4. \A i, j \in DOMAIN a : i < j => a[i].at < a[j].at
    BY <1>1 DEF Sorted
  <1>5. \A k \in DOMAIN cs : \A i \in DOMAIN cs[k], j \in DOMAIN a : cs[k][i].at < a[j].at
    BY <1>1 DEF Sorted
  <1>6. \A i \in DOMAIN a : a[i].at < p.at + 1
    BY <1>1, <1>2, <1>3 DEF Sorted
  <1>7. Sorted(cs, a, p.at + 1)
    BY <1>3, <1>4, <1>5, <1>6 DEF Sorted
  <1> QED
    BY <1>1, <1>7 DEF a

\* The current cloud is handed out and an empty one takes its place.
LEMMA SortedSplit ==
  ASSUME NEW cs \in Seq(Seq(Points)), NEW c \in Seq(Points), NEW m, Sorted(cs, c, m)
  PROVE  Append(cs, c) \in Seq(Seq(Points)) /\ Sorted(Append(cs, c), << >>, m)
PROOF
  <1> DEFINE a == Append(cs, c)
             n == Len(cs) + 1
  <1>1. /\ a \in Seq(Seq(Points)) /\ DOMAIN a = 1 .. n /\ n \in Nat /\ a[n] = c
        /\ \A k \in DOMAIN a : (k \in DOMAIN cs /\ k < n /\ a[k] = cs[k]) \/ k = n
    BY AppendElements
  <1> HIDE DEF a, n
  <1>2. ASSUME NEW k \in DOMAIN a, NEW l \in DOMAIN a, NEW i \in DOMAIN a[k], NEW j \in DOMAIN a[l],
               k < l \/ (k = l /\ i < j)
        PROVE  a[k][i].at < a[l][j].at
    <2>1. CASE k = n
      <3>1. l = n /\ i < j
        BY <1>1, <1>2, <2>1
      <3> QED
        BY <1>1, <2>1, <3>1 DEF Sorted
    <2>2. CASE k \in DOMAIN cs /\ a[k] = cs[k] /\ l = n /\ k < n
      BY <1>1, <2>2 DEF Sorted
    <2>3. CASE k \in DOMAIN cs /\ a[k] = cs[k] /\ l \in DOMAIN cs /\ a[l] = cs[l]
      BY <1>2, <2>3 DEF Sorted
    <2> QED
      BY <1>1, <2>1, <2>2, <2>3
  <1>3. \A k \in DOMAIN a : \A i \in DOMAIN a[k] : a[k][i].at < m
    BY <1>1 DEF Sorted
  <1>4. Sorted(a, << >>, m)
    BY <1>2, <1>3 DEF Sorted
  <1> QED
    BY <1>1, <1>4 DEF a

LEMMA SortedIsInOrder ==
  ASSUME published \in Seq(Seq(Points)), cloud \in Seq(Points), NEW m, Sorted(published, cloud, m)
  PROVE  PointsInOrder
PROOF
  <1> DEFINE a == Append(published, cloud)
  <1>1. a \in Seq(Seq(Points)) /\ Sorted(a, << >>, m)
    BY SortedSplit
  <1> HIDE DEF a
  <1>2. \A k, l \in DOMAIN a : \A i \in DOMAIN a[k], j \in DOMAIN a[l] :
          k < l \/ (k = l /\ i < j) => a[k][i].at < a[l][j].at
    BY <1>1 DEF Sorted
  <1> QED
    BY <1>2 DEF a, PointsInOrder

\* SplitFrame with cloud c, and the first point of the new frame.
LEMMA SplitSorted ==
  ASSUME published \in Seq(Seq(Points)), NEW c \in Seq(Points), NEW p \in Points,
         Sorted(published, c, p.at), SplitFrame(c), cloud' = << p >>
  PROVE  published' \in Seq(Seq(Points)) /\ cloud' \in Seq(Points)
         /\ Sorted(published', cloud', p.at + 1)
PROOF
  <1>1. << >> \in Seq(Points) /\ cloud' = Append(<< >>, p)
    OBVIOUS
  <1>2. published' \in Seq(Seq(Points)) /\ Sorted(published', << >>, p.at)
    <2>1. CASE c # << >>
      <3>1. published' = Append(published, c)
        BY <2>1 DEF SplitFrame
      <3> QED
        BY <3>1, SortedSplit
    <2>2. CASE c = << >>
      <3>1. published' = published
        BY <2>2 DEF SplitFrame
      <3> QED
        BY <2>2, <3>1
    <2> QED
      BY <2>1, <2>2
  <1> QED
    BY <1>1, <1>2, SortedAdd

\* processMsopPkt of packet p adds its points at 2n and 2n + 1, whatever it
\* publishes and clears.
LEMMA DecodeSorted ==
  ASSUME published \in Seq(Seq(Points)), cloud \in Seq(Points), NEW p \in Packets,
         Sorted(published, cloud, 2 * p.n), DecodeMsop(p)
  PROVE  published' \in Seq(Seq(Points)) /\ cloud' \in Seq(Points)
         /\ Sorted(published', cloud', 2 * p.n + 2)
PROOF
  <1> DEFINE c == IF Len(cloud) > CloudMax THEN << >> ELSE cloud
             p0 == Point(p, 0)
             p1 == Point(p, 1)
             m == 2 * p.n
  <1>1. m \in Nat /\ p.kind \in {"same", "split", "mid", "other"} /\ p.n \in Nat
    BY DriverAssumption DEF Packets
  <1>2. p0 \in Points /\ p0.at = m /\ p1 \in Points /\ p1.at = m + 1
    BY <1>1 DEF Points, Point, Packets
  <1>3. c \in Seq(Points) /\ Sorted(published, c, m)
    BY SortedClear
  <1>4. /\ p.kind = "other" => cloud' \in {cloud, c} /\ published' = published
        /\ p.kind = "same" => cloud' = Append(c, p0) /\ published' = published
        /\ p.kind = "split" => SplitFrame(c) /\ cloud' = << p1 >>
        /\ p.kind = "mid" => SplitFrame(Append(c, p0)) /\ cloud' = << p1 >>
    BY DEF DecodeMsop
  <1> HIDE DEF c, p0, p1
  <1>5. CASE p.kind = "other"
    <2>1. cloud' \in Seq(Points) /\ published' = published /\ Sorted(published', cloud', m)
      BY <1>3, <1>4, <1>5
    <2> QED
      BY <1>1, <2>1, SortedBelow
  <1>6. CASE p.kind = "same"
    <2>1. cloud' \in Seq(Points) /\ Sorted(published, cloud', m + 1)
      BY <1>2, <1>3, <1>4, <1>6, SortedAdd
    <2> QED
      BY <1>1, <1>4, <1>6, <2>1, SortedBelow
  <1>7. CASE p.kind = "split"
    <2>1. Sorted(published, c, m + 1)
      BY <1>1, <1>3, SortedBelow
    <2>2. SplitFrame(c) /\ cloud' = << p1 >>
      BY <1>4, <1>7
    <2>3. published' \in Seq(Seq(Points)) /\ cloud' \in Seq(Points)
          /\ Sorted(published', cloud', p1.at + 1)
      BY <1>2, <1>3, <2>1, <2>2, SplitSorted
    <2> QED
      BY <1>1, <1>2, <2>3
  <1>8. CASE p.kind = "mid"
    <2> DEFINE d == Append(c, p0)
    <2>1. d \in Seq(Points) /\ Sorted(published, d, m + 1)
      BY <1>2, <1>3, SortedAdd
    <2>2. SplitFrame(d) /\ cloud' = << p1 >>
      BY <1>4, <1>8
    <2> HIDE DEF d
    <2>3. published' \in Seq(Seq(Points)) /\ cloud' \in Seq(Points)
          /\ Sorted(published', cloud', p1.at + 1)
      BY <1>2, <2>1, <2>2, SplitSorted
    <2> QED
      BY <1>1, <1>2, <2>3
  <1> QED
    BY <1>1, <1>5, <1>6, <1>7, <1>8

-----------------------------------------------------------------------------
(* PacketsInv through every step.                                          *)

LEMMA InitPackets == Init => PacketsInv
PROOF
  <1> SUFFICES ASSUME Init PROVE PacketsInv
    OBVIOUS
  <1>1. DOMAIN << >> = {} /\ Range(<< >>) = {}
    BY DEF Range
  <1>2. queue = << >> /\ recv.at = "dead" /\ handle.at = "dead" /\ content = << >>
        /\ cloud = << >> /\ published = << >> /\ decoded = << >> /\ received = 0
    BY DEF Init
  <1>3. Pending = {}
    BY <1>1, <1>2 DEF Pending
  <1>4. DataOK
    <2>1. 0 \in 0..MaxSessions /\ 0 \in 0..MaxPackets
      BY DriverAssumption
    <2>2. cloud \in Seq(Points) /\ published \in Seq(Seq(Points)) /\ decoded \in Seq(1..MaxPackets)
      BY <1>2
    <2>3. \A b \in DOMAIN content : content[b] \in Packets /\ N(b) <= received
      BY <1>1, <1>2
    <2>4. ctl = "new" /\ sessions = 0 /\ toExitRecv = FALSE /\ toExitHandle \in BOOLEAN
          /\ overflowed = FALSE
      BY DEF Init
    <2> QED
      BY <1>2, <1>3, <2>1, <2>2, <2>3, <2>4 DEF DataOK
  <1>5. NumbersRise
    BY <1>1, <1>2 DEF NumbersRise
  <1>6. Accounted
    BY <1>1, <1>2, <1>3 DEF Accounted
  <1>7. FramesSorted
    BY <1>1, <1>2, <1>3 DEF FramesSorted, Sorted
  <1> QED
    BY <1>4, <1>5, <1>6, <1>7 DEF PacketsInv

LEMMA MovingKeeps ==
  ASSUME DriverInv, SharingInv, PacketsInv, Moving
  PROVE  PacketsInv'
PROOF
  <1>1. /\ UNCHANGED <<content, received, published, decoded>>
        /\ cloud' = cloud \/ cloud' = << >>
        /\ Pending' \subseteq Pending /\ NumbersRise'
        /\ overflowed' = TRUE \/ (overflowed' = overflowed /\ Pending' = Pending)
    BY MovingPending DEF PacketsInv
  <1>2. PICK S : Holds(S)
    BY DEF DriverInv
  <1>3. /\ ctl' \in {"new", "stopped", "running", "joinInput", "joinHandle"}
        /\ toExitRecv' \in BOOLEAN /\ toExitHandle' \in BOOLEAN
    BY DEF Moving, Start, InitDriver, StopInput, StopNext, StopHandle, Stopped, Discard, Push,
           Notify, CheckOverflow, RecvExit, HandleLoop, Woken, Timeout, Recycle,
           PacketsInv, DataOK
  <1>4. sessions' \in 0..MaxSessions /\ (recv'.at # "dead" => sessions' # 0)
    <2>1. CASE Start
      BY <2>1, DriverAssumption DEF Start, PacketsInv, DataOK
    <2>2. CASE ~Start
      <3>1. sessions' = sessions
        BY <2>2 DEF Moving, InitDriver, StopInput, StopNext, StopHandle, Stopped, Discard, Push,
                    Notify, CheckOverflow, RecvExit, HandleLoop, Woken, Timeout, Recycle
      <3>2. recv' = recv \/ recv.at # "dead"
        BY <2>2 DEF Moving, InitDriver, StopInput, StopNext, StopHandle, Stopped, Discard, Push,
                    Notify, CheckOverflow, RecvExit, HandleLoop, Woken, Timeout, Recycle
      <3> QED
        BY <3>1, <3>2 DEF PacketsInv, DataOK
    <2> QED
      BY <2>1, <2>2
  <1>5. cloud' \in Seq(Points) /\ overflowed' \in BOOLEAN
    <2>1. cloud \in Seq(Points) /\ << >> \in Seq(Points) /\ overflowed \in BOOLEAN
      BY DEF PacketsInv, DataOK
    <2>2. cloud' \in Seq(Points)
      BY <1>1, <2>1
    <2>3. overflowed' \in BOOLEAN
      BY <1>1, <2>1
    <2> QED
      BY <2>2, <2>3
  <1>6. \A b : N(b)' = N(b)
    BY <1>1 DEF N
  <1>7. DataOK'
    BY <1>1, <1>3, <1>4, <1>5, <1>6 DEF PacketsInv, DataOK
  <1>8. Accounted'
    BY <1>1, <1>6 DEF PacketsInv, Accounted
  <1>9. \A m : Sorted(published, cloud, m) => Sorted(published', cloud', m)
    BY <1>1, SortedClear
  <1>10. FramesSorted'
    BY <1>1, <1>6, <1>9 DEF PacketsInv, FramesSorted
  <1> QED
    BY <1>1, <1>7, <1>8, <1>10 DEF PacketsInv

LEMMA ReceiveNumbers ==
  ASSUME DriverInv, SharingInv, PacketsInv, Receive
  PROVE  PacketsInv'
PROOF
  <1> USE DriverAssumption
  <1>1. PICK S : Holds(S)
    BY DEF DriverInv
  <1>0. PICK t : t = TakenBuffer
    OBVIOUS
  <1> DEFINE M(b) == content'[b].n
  <1>2. /\ recv.at = "idle" /\ received < MaxPackets /\ received' = received + 1
        /\ recv' = [recv EXCEPT !.at = "filled", !.buf = t]
        /\ UNCHANGED <<ctl, sessions, toExitRecv, toExitHandle, handle, queue, published, cloud,
                       decoded, overflowed>>
    BY <1>0 DEF Receive, frames
  <1>3. PICK kind \in {"same", "split", "mid", "other"} :
          content' = [b \in DOMAIN content \cup {t} |->
                        IF b = t THEN [n |-> received', session |-> sessions, kind |-> kind]
                        ELSE content[b]]
    BY <1>0 DEF Receive
  <1>4. (\A i \in DOMAIN queue : queue[i] # t) /\ (HandleHas => handle.buf # t)
    BY <1>0, <1>2, TakenIsFree
  <1>5. recv'.at = "filled" /\ recv'.buf = t
    BY <1>1, <1>2 DEF Holds
  <1>6. Pending' = Pending \cup {t} /\ t \notin Pending
    BY <1>2, <1>4, <1>5 DEF Pending, HandleHas, Range
  <1> DEFINE p == [n |-> received', session |-> sessions, kind |-> kind]
  <1>7. p \in Packets /\ p.n = received + 1 /\ received \in Nat
    BY <1>2 DEF PacketsInv, DataOK, Packets
  <1>8. DOMAIN content' = DOMAIN content \cup {t} /\ content'[t] = p
        /\ \A b \in DOMAIN content : b # t => content'[b] = content[b]
    BY <1>3
  <1> HIDE DEF p
  <1>9. M(t) = received + 1 /\ (\A b \in Pending : M(b) = N(b) /\ N(b) \in Nat /\ N(b) <= received)
    <2>1. content'[t].n = received + 1
      BY <1>7, <1>8
    <2>2. \A b \in Pending : content'[b] = content[b] /\ content[b].n \in Nat /\ N(b) <= received
      BY <1>6, <1>8 DEF PacketsInv, DataOK, Packets
    <2> QED
      BY <2>1, <2>2 DEF N
  <1>10. DataOK'
    <2>1. received' \in 0..MaxPackets
      BY <1>2, <1>7
    <2>2. \A b \in DOMAIN content' : content'[b] \in Packets /\ content'[b].n <= received'
      BY <1>2, <1>7, <1>8 DEF PacketsInv, DataOK, Packets, N
    <2>3. recv'.at # "dead" => sessions' # 0
      BY <1>2 DEF PacketsInv, DataOK
    <2>4. Pending' \subseteq DOMAIN content'
      BY <1>6, <1>8 DEF PacketsInv, DataOK
    <2> QED
      BY <1>2, <2>1, <2>2, <2>3, <2>4 DEF PacketsInv, DataOK, N
  <1>11. NumbersRise'
    <2>1. /\ \A i \in DOMAIN queue : queue[i] \in Pending
          /\ handle.at = "have" => handle.buf \in Pending
      BY DEF Pending, Range
    <2>2. /\ \A i \in DOMAIN queue : M(queue[i]) = N(queue[i]) /\ N(queue[i]) < M(t)
          /\ handle.at = "have" => M(handle.buf) = N(handle.buf) /\ N(handle.buf) < M(t)
      <3>1. \A b \in Pending : content'[b].n = content[b].n /\ content[b].n < content'[t].n
        BY <1>7, <1>9 DEF N
      <3> QED
        BY <1>2, <2>1, <3>1 DEF N
    <2>3. \A i, j \in DOMAIN queue' : i < j => M(queue'[i]) < M(queue'[j])
      BY <1>2, <2>2 DEF PacketsInv, NumbersRise
    <2> QED
      BY <1>2, <1>5, <2>2, <2>3 DEF PacketsInv, NumbersRise, N
  <1>12. Accounted'
    <2>1. {M(b) : b \in Pending'} = {N(b) : b \in Pending} \cup {received + 1}
      BY <1>6, <1>9
    <2>2. 1..received' = 1..received \cup {received + 1}
      BY <1>2, <1>7
    <2> QED
      BY <1>2, <2>1, <2>2 DEF PacketsInv, Accounted, N
  <1>13. FramesSorted'
    <2>1. cloud \in Seq(Points) /\ published \in Seq(Seq(Points))
          /\ Sorted(published, cloud, 2 * received + 2)
      BY DEF PacketsInv, DataOK, FramesSorted
    <2>2. Sorted(published, cloud, 2 * received' + 2)
      <3>1. 2 * received + 2 \in Nat /\ 2 * received' + 2 \in Nat
            /\ 2 * received + 2 <= 2 * received' + 2
        BY <1>2, <1>7
      <3> QED
        BY <2>1, <3>1, SortedBelow
    <2>3. Sorted(published, cloud, 2 * M(t))
      <3>1. 2 * M(t) = 2 * received + 2
        BY <1>7, <1>9
      <3> QED
        BY <2>1, <3>1
    <2>4. \A b \in Pending : Sorted(published, cloud, 2 * M(b))
      BY <1>9 DEF PacketsInv, FramesSorted
    <2> QED
      BY <1>2, <1>6, <2>2, <2>3, <2>4 DEF FramesSorted, N
  <1> QED
    BY <1>10, <1>11, <1>12, <1>13 DEF PacketsInv

LEMMA DecodeKeeps ==
  ASSUME DriverInv, SharingInv, PacketsInv, Decode
  PROVE  PacketsInv'
PROOF
  <1> USE DriverAssumption
  <1>1. PICK S : Holds(S)
    BY DEF DriverInv
  <1> DEFINE b0 == handle.buf
             p == content[b0]
  <1>2. /\ handle.at = "have" /\ DecodeMsop(p) /\ decoded' = Append(decoded, p.n)
        /\ UNCHANGED <<ctl, sessions, toExitRecv, toExitHandle, recv, queue, content, received,
                       overflowed>>
    BY DEF Decode
  <1>3. handle'.at = "recycle"
    BY <1>1 DEF Decode, Holds
  <1>4. Pending = Pending' \cup {b0} /\ b0 \in Pending
    BY <1>2, <1>3 DEF Pending
  <1>5. p \in Packets /\ p.n \in 1..MaxPackets /\ N(b0) = p.n /\ p.n <= received
        /\ received \in Nat
    BY <1>4 DEF PacketsInv, DataOK, Packets, N
  <1>6. \A b \in Pending' : N(b) \in Nat /\ N(b) >= p.n + 1
    <2>1. \A b \in Pending' : N(b) \in Nat /\ b \in Pending
      BY <1>4 DEF PacketsInv, DataOK, Packets, N
    <2>2. /\ \A i \in DOMAIN queue : N(b0) < N(queue[i])
          /\ recv.at = "filled" => N(b0) < N(recv.buf)
      BY <1>2 DEF PacketsInv, NumbersRise
    <2>3. \A b \in Pending' : (\E i \in DOMAIN queue : b = queue[i])
                              \/ (recv.at = "filled" /\ b = recv.buf)
      BY <1>2, <1>3 DEF Pending, Range
    <2>4. \A b \in Pending' : N(b0) < N(b)
      BY <2>2, <2>3
    <2> QED
      BY <1>5, <2>1, <2>4
  <1>7. published \in Seq(Seq(Points)) /\ cloud \in Seq(Points)
        /\ Sorted(published, cloud, 2 * p.n)
    BY <1>4, <1>5 DEF PacketsInv, DataOK, FramesSorted
  <1> HIDE DEF p
  <1>8. published' \in Seq(Seq(Points)) /\ cloud' \in Seq(Points)
        /\ Sorted(published', cloud', 2 * p.n + 2)
    BY <1>2, <1>5, <1>7, DecodeSorted
  <1>9. decoded' \in Seq(1..MaxPackets) /\ Range(decoded') = Range(decoded) \cup {p.n}
    <2>1. decoded \in Seq(1..MaxPackets)
      BY DEF PacketsInv, DataOK
    <2>2. /\ decoded' \in Seq(1..MaxPackets) /\ DOMAIN decoded' = 1 .. Len(decoded) + 1
          /\ Len(decoded) \in Nat /\ decoded'[Len(decoded) + 1] = p.n
          /\ DOMAIN decoded = 1 .. Len(decoded)
          /\ \A i \in DOMAIN decoded' :
               (i \in DOMAIN decoded /\ decoded'[i] = decoded[i]) \/ i = Len(decoded) + 1
      BY <1>2, <1>5, <2>1, AppendElements
    <2>3. \A i \in DOMAIN decoded : i \in DOMAIN decoded' /\ decoded'[i] = decoded[i]
      BY <2>2
    <2>4. Len(decoded) + 1 \in DOMAIN decoded'
      BY <2>2
    <2> QED
      BY <2>2, <2>3, <2>4 DEF Range
  <1>10. \A b : N(b)' = N(b)
    BY <1>2 DEF N
  <1>11. DataOK'
    BY <1>2, <1>4, <1>8, <1>9, <1>10 DEF PacketsInv, DataOK
  <1>12. NumbersRise'
    BY <1>2, <1>3, <1>10 DEF PacketsInv, NumbersRise, N
  <1>13. Accounted'
    <2>1. {N(b) : b \in Pending} = {N(b)' : b \in Pending'} \cup {p.n}
      BY <1>4, <1>5, <1>10
    <2> QED
      BY <1>2, <1>9, <2>1 DEF PacketsInv, Accounted
  <1>14. FramesSorted'
    <2>1. Sorted(published', cloud', 2 * received' + 2)
      BY <1>2, <1>5, <1>8, SortedBelow
    <2>2. \A b \in Pending' : Sorted(published', cloud', 2 * N(b))
      BY <1>5, <1>6, <1>8, SortedBelow
    <2> QED
      BY <1>10, <2>1, <2>2 DEF FramesSorted
  <1> QED
    BY <1>11, <1>12, <1>13, <1>14 DEF PacketsInv

(* PacketsInv holds at the start and through every step.                   *)
THEOREM PacketsInvariant == Spec => []PacketsInv
PROOF
  <1>1. ASSUME PacketsInv, UNCHANGED vars PROVE PacketsInv'
    BY <1>1 DEF PacketsInv, DataOK, NumbersRise, Accounted, FramesSorted, Pending, N, vars
  <1>2. DriverInv /\ SharingInv /\ PacketsInv /\ [Next]_vars => PacketsInv'
    BY <1>1, MovingKeeps, ReceiveNumbers, DecodeKeeps DEF Next, RecvNext, HandleNext, Moving
  <1> QED
    BY InitPackets, <1>2, DriverInvariant, SharingInvariant, PTL DEF Spec

(* The variables of LidarDriverImpl, its queues and its threads keep their *)
(* types; threads hold a buffer of the pool or none.                       *)
THEOREM DriverTypes == Spec => []TypeOK
PROOF
  <1>1. DriverInv /\ SharingInv /\ PacketsInv => TypeOK
    <2> SUFFICES ASSUME DriverInv, SharingInv, PacketsInv PROVE TypeOK
      OBVIOUS
    <2>1. PICK S : Holds(S)
      BY DEF DriverInv
    <2>2. recv.buf \in Buffers \cup {None} /\ handle.buf \in Buffers \cup {None}
      BY DEF DriverInv, Owns, SharingInv, Placed, HandleHas
    <2>3. recv \in [at : {"dead", "idle", "filled", "notify", "check"},
                    buf : Buffers \cup {None}, empty : BOOLEAN, size : Nat]
      BY <2>1, <2>2 DEF Holds
    <2>4. handle \in [at : {"dead", "check", "waiting", "woken", "have", "recycle"},
                      buf : Buffers \cup {None}]
      BY <2>1, <2>2 DEF Holds
    <2> QED
      BY <2>3, <2>4 DEF SharingInv, Placed, PacketsInv, DataOK, TypeOK
  <1> QED
    BY <1>1, DriverInvariant, SharingInvariant, PacketsInvariant, PTL

(* processMsopPkt, splitFrame and stop: the points handed out, and those   *)
(* of the current cloud, are in the order the packets arrived in, each at  *)
(* most once, over all overflows, splits and restarts.                     *)
THEOREM PointsAreInOrder == Spec => []PointsInOrder
PROOF
  <1>1. PacketsInv => PointsInOrder
    BY SortedIsInOrder DEF PacketsInv, DataOK, FramesSorted
  <1> QED
    BY <1>1, PacketsInvariant, PTL

(* packetPut, processPacket and stop: until pkt_queue_ is cleared for      *)
(* overflow, the packets decoded, held and queued are the ones received.   *)
THEOREM LossIsOverflow == Spec => []NoSilentLoss
PROOF
  <1>1. DriverInv /\ SharingInv /\ PacketsInv => NoSilentLoss
    <2> SUFFICES ASSUME DriverInv, SharingInv, PacketsInv PROVE NoSilentLoss
      OBVIOUS
    <2>1. Range(Held(recv)) = IF recv.at = "filled" THEN {recv.buf} ELSE {}
      <3>1. CASE recv.at = "filled"
        <4>1. Held(recv) = << recv.buf >>
          BY <3>1, DriverAssumption DEF Held, SharingInv, Placed, Buffers, None
        <4> QED
          BY <3>1, <4>1 DEF Range
      <3>2. CASE recv.at # "filled"
        <4>1. Held(recv) = << >>
          BY <3>2 DEF Held, DriverInv, Owns
        <4> QED
          BY <3>2, <4>1 DEF Range
      <3> QED
        BY <3>1, <3>2
    <2> QED
      BY <2>1 DEF PacketsInv, Accounted, NoSilentLoss, Pending, N
  <1> QED
    BY <1>1, DriverInvariant, SharingInvariant, PacketsInvariant, PTL
=============================================================================
