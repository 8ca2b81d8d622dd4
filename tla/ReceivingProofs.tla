---------------------------- MODULE ReceivingProofs --------------------------
(***************************************************************************)
(* What holds of the receiving side of rs_driver.                          *)
(* First of every input, for any kinds, bounds and sizes of jumbo packets: *)
(* no datagram ends its thread, it closes the descriptors it opened, and   *)
(* jumbo packets are put together as they were sent.                       *)
(* Then of the decoder of every rotating LiDAR, for any configuration,     *)
(* speed, visible sector and split angle: its clouds are of one round, of  *)
(* the whole of it when nothing was lost, and the playback of a recording  *)
(* pauses where they end.                                                  *)
(***************************************************************************)
EXTENDS Inputs, MechDecoder, WellFoundedInduction, TLAPS

-----------------------------------------------------------------------------
(* The inductive invariant, in named parts.                                *)

Places == {"none", "top", "wait", "read", "file", "dead", "ended", "failed", "crash"}
Resting == {"none", "dead", "ended", "failed"}
Flags == [init : BOOLEAN, start : BOOLEAN, toExit : BOOLEAN, failed : BOOLEAN, gone : BOOLEAN]

\* The thread reads from sockets only where there are some.
ThreadShape ==
    /\ flags \in Flags
    /\ \E R : thread \in [at : Places, ready : R, i : Nat]
    /\ thread.at = "read" => Sock
    /\ own \subseteq Ports

\* No thread without a start, no start after the end.
Joined ==
    /\ ~flags.start => thread.at \in Resting
    /\ flags.gone => ~flags.start /\ (flags.init \/ flags.failed)

\* What a descriptor is open for, and where it is remembered.
Descriptors ==
    kind # "epoll" =>
        /\ ~(flags.init /\ flags.failed) /\ (flags.failed => Sock)
        /\ flags.failed \/ flags.gone \/ ~flags.init \/ ~Sock => open = {}
        /\ strayed => flags.failed
        /\ Sock /\ flags.init /\ ~flags.gone =>
              /\ open = {Fd(p) : p \in own}
              /\ fds = [p \in Ports |-> IF p \in own THEN Fd(p) ELSE -1]

InputInv == ThreadShape /\ Joined /\ Descriptors

-----------------------------------------------------------------------------
LEMMA InitInput == Init => InputInv /\ KeepsReceiving
PROOF
  <1> SUFFICES ASSUME Init PROVE InputInv /\ KeepsReceiving
    OBVIOUS
  <1>1. flags.init = FALSE /\ flags.start = FALSE /\ flags.failed = FALSE /\ flags.gone = FALSE
        /\ flags \in Flags /\ thread.at = "none" /\ open = {} /\ strayed = FALSE
    BY DEF Init, Idle, Flags
  <1>2. thread \in [at : Places, ready : {<< >>}, i : Nat]
    BY DEF Init, Idle, Places
  <1>3. own \subseteq Ports
    BY DEF Init, Ports
  <1> QED
    BY <1>1, <1>2, <1>3 DEF InputInv, ThreadShape, Joined, Descriptors, KeepsReceiving,
                            EndedItself, Resting

LEMMA CloseAll ==
  ASSUME Descriptors, Sock, kind # "epoll", flags.init, ~flags.gone, own \subseteq Ports
  PROVE  /\ open \ {fds[p] : p \in Ports} = {}
         /\ ~ \E p \in Ports : fds[p] >= 0 /\ fds[p] \notin open
PROOF
  <1>1. open = {Fd(p) : p \in own} /\ fds = [p \in Ports |-> IF p \in own THEN Fd(p) ELSE -1]
    BY DEF Descriptors
  <1>2. \A p \in own : p \in Ports /\ fds[p] = Fd(p)
    BY <1>1
  <1>3. \A p \in Ports : fds[p] \in open \/ fds[p] = -1
    BY <1>1
  <1> QED
    BY <1>1, <1>2, <1>3

(* The calls of the driver.                                                *)
LEMMA CallsKeep ==
  ASSUME InputInv, InitSock \/ InitPcap \/ Start \/ StopFlag \/ StopJoin \/ Destroy
  PROVE  InputInv'
PROOF
  <1> USE DEF InputInv
  <1>0. PICK R : thread \in [at : Places, ready : R, i : Nat]
    BY DEF ThreadShape
  <1>1. CASE InitSock
    <2>1. PICK failed \in own \cup {3} :
            /\ fds' = IF failed < 2 THEN fds ELSE Stored(kind, failed)
            /\ open' = IF failed = 3 THEN {Fd(p) : p \in own} ELSE {}
            /\ flags' = [flags EXCEPT !.init = failed = 3, !.failed = failed # 3]
      BY <1>1 DEF InitSock
    <2>2. Sock /\ ~flags.init /\ ~flags.failed /\ UNCHANGED <<kind, own, strayed, thread>>
      BY <1>1 DEF InitSock
    <2> DEFINE ok == failed = 3
               no == failed # 3
    <2>3. ok \in BOOLEAN /\ no \in BOOLEAN /\ flags \in Flags
      BY DEF ThreadShape
    <2>4. flags' = [flags EXCEPT !.init = ok, !.failed = no]
      BY <2>1
    <2>5. ok = ~no
      OBVIOUS
    <2> HIDE DEF ok, no
    <2>6. flags' \in Flags /\ flags'.init = ok /\ flags'.failed = no
          /\ flags'.start = flags.start /\ flags'.gone = flags.gone
      BY <2>3, <2>4 DEF Flags
    <2>7. ThreadShape' /\ Joined'
      BY <2>2, <2>6 DEF ThreadShape, Joined, Sock
    <2>8. ok => /\ open' = {Fd(p) : p \in own}
                /\ kind # "epoll" => fds' = [p \in Ports |-> IF p \in own THEN Fd(p) ELSE -1]
      <3> SUFFICES ASSUME ok
                   PROVE  /\ open' = {Fd(p) : p \in own}
                          /\ kind # "epoll" =>
                               fds' = [p \in Ports |-> IF p \in own THEN Fd(p) ELSE -1]
        OBVIOUS
      <3>1. failed = 3
        BY DEF ok
      <3> QED
        BY <2>1, <3>1 DEF Stored
    <2>9. no => open' = {}
      BY <2>1 DEF no
    <2>10. ~flags.gone
      BY <2>2 DEF Joined
    <2>11. Descriptors'
      BY <2>2, <2>3, <2>5, <2>6, <2>8, <2>9, <2>10 DEF Descriptors, Sock, Fd
    <2> QED
      BY <2>7, <2>11
  <1>2. CASE InitPcap
    <2>1. /\ flags' \in Flags /\ flags'.failed = flags.failed /\ flags'.start = flags.start
          /\ flags'.gone = flags.gone /\ ~flags.gone /\ ~Sock
          /\ UNCHANGED <<kind, own, thread, fds, open, strayed>>
      BY <1>2 DEF InitPcap, ThreadShape, Flags, socks
    <2>2. ThreadShape' /\ Joined'
      BY <2>1 DEF ThreadShape, Joined, Sock
    <2>3. Descriptors'
      BY <2>1 DEF Descriptors, Sock
    <2> QED
      BY <2>2, <2>3
  <1>3. CASE Start
    <2>1. /\ flags' \in Flags /\ flags'.failed = flags.failed /\ flags'.init = flags.init
          /\ flags'.gone = flags.gone /\ flags'.start = TRUE /\ ~flags.gone
          /\ UNCHANGED <<kind, own, fds, open, strayed>>
      BY <1>3 DEF Start, ThreadShape, Flags, socks
    <2>2. thread' \in [at : Places, ready : {<< >>}, i : Nat] /\ thread'.at = "top"
      BY <1>3 DEF Start, Idle, Places
    <2> QED
      BY <2>1, <2>2 DEF ThreadShape, Joined, Descriptors, Sock
  <1>4. CASE StopFlag
    <2>1. /\ flags' \in Flags /\ flags'.failed = flags.failed /\ flags'.init = flags.init
          /\ flags'.gone = flags.gone /\ flags'.start = flags.start
          /\ UNCHANGED <<kind, own, thread, fds, open, strayed>>
      BY <1>4 DEF StopFlag, ThreadShape, Flags, socks
    <2> QED
      BY <2>1 DEF ThreadShape, Joined, Descriptors, Sock
  <1>5. CASE StopJoin
    <2>1. /\ flags' \in Flags /\ flags'.failed = flags.failed /\ flags'.init = flags.init
          /\ flags'.gone = flags.gone /\ flags'.start = FALSE /\ thread.at \in {"dead", "ended", "failed"}
          /\ UNCHANGED <<kind, own, thread, fds, open, strayed>>
      BY <1>5 DEF StopJoin, ThreadShape, Flags, socks
    <2> QED
      BY <2>1 DEF ThreadShape, Joined, Descriptors, Sock, Resting
  <1>6. CASE Destroy
    <2>1. /\ flags' \in Flags /\ flags'.failed = flags.failed /\ flags'.init = flags.init
          /\ flags'.gone = TRUE /\ flags'.start = flags.start /\ ~flags.start /\ ~flags.gone
          /\ (flags.init \/ flags.failed)
          /\ UNCHANGED <<kind, own, thread, fds>>
          /\ open' = open \ {fds[p] : p \in Ports}
          /\ strayed' = (strayed \/ (Sock /\ \E p \in Ports : fds[p] >= 0 /\ fds[p] \notin open))
      BY <1>6 DEF Destroy, Close, ThreadShape, Flags
    <2>2. ThreadShape' /\ Joined'
      BY <2>1 DEF ThreadShape, Joined, Sock
    <2>3. CASE kind # "epoll" /\ Sock /\ flags.init
      <3>1. open' = {} /\ (strayed' => strayed)
        <4>1. /\ open \ {fds[p] : p \in Ports} = {}
              /\ ~ \E p \in Ports : fds[p] >= 0 /\ fds[p] \notin open
          BY <2>1, <2>3, CloseAll DEF ThreadShape
        <4> QED
          BY <2>1, <4>1
      <3> QED
        BY <2>1, <2>2, <2>3, <3>1 DEF Descriptors, Sock
    <2>4. CASE kind # "epoll" /\ ~(Sock /\ flags.init)
      <3>1. open = {}
        BY <2>1, <2>4 DEF Descriptors
      <3>2. open' = {}
        BY <2>1, <3>1
      <3>3. strayed' => flags.failed
        BY <2>1, <2>4 DEF Descriptors
      <3> QED
        BY <2>1, <2>2, <2>4, <3>2, <3>3 DEF Descriptors, Sock
    <2>5. CASE kind = "epoll"
      BY <2>1, <2>2, <2>5 DEF Descriptors
    <2> QED
      BY <2>3, <2>4, <2>5
  <1> QED
    BY <1>1, <1>2, <1>3, <1>4, <1>5, <1>6

(* The thread, the caller's packets, and the world outside.                *)
LEMMA ThreadKeeps ==
  ASSUME InputInv, thread.at # "crash", Receiving
  PROVE  InputInv' /\ (KeepsReceiving => KeepsReceiving')
PROOF
  <1>0. PICK R : thread \in [at : Places, ready : R, i : Nat]
    BY DEF InputInv, ThreadShape
  <1>1. UNCHANGED <<kind, own, flags, fds, open, strayed>>
    BY DEF Receiving, Top, Select, Epoll, Read, EndOfFile, ReadClosed, PcapRecord, JumboRecord,
           Wait, Still, Others, socks
  <1>2. thread.at \in {"top", "wait", "read", "file"} /\ flags.start
    <2>1. thread.at \in {"top", "wait", "read", "file"}
      BY DEF Receiving, Top, Select, Epoll, Read, EndOfFile, ReadClosed, PcapRecord, JumboRecord,
             Wait
    <2> QED
      BY <2>1 DEF InputInv, Joined, Resting
  <1>3. \E T : thread' \in [at : Places, ready : T, i : Nat]
    <2>1. CASE Select \/ Epoll
      <3> DEFINE e == [i \in DOMAIN ReadyPorts |-> i - 1]
                 T == R \cup {ReadyPorts, e}
      <3>1. \/ thread' = [thread EXCEPT !.at = "top"]
            \/ thread' = [at |-> "read", ready |-> ReadyPorts, i |-> 1]
            \/ thread' = [at |-> "read", ready |-> e, i |-> 1]
            \/ thread' = [thread EXCEPT !.at = "failed"]
        BY <2>1 DEF Select, Epoll, Wait
      <3>2. ReadyPorts \in T /\ e \in T /\ R \subseteq T
        OBVIOUS
      <3> HIDE DEF e, T
      <3>3. thread' \in [at : Places, ready : T, i : Nat]
        BY <1>0, <3>1, <3>2 DEF Places
      <3> QED
        BY <3>3
    <2>2. CASE Read
      <3>1. \/ thread' = [thread EXCEPT !.at = "top"]
            \/ thread' = [thread EXCEPT !.i = @ + 1]
            \/ thread' = [thread EXCEPT !.at = IF kind = "select" THEN "top" ELSE "dead"]
        BY <2>2 DEF Read, Error
      <3>2. thread' \in [at : Places, ready : R, i : Nat]
        BY <1>0, <3>1 DEF Places
      <3> QED
        BY <3>2
    <2>3. CASE Top \/ EndOfFile \/ ReadClosed \/ PcapRecord \/ JumboRecord
      <3>1. PICK at \in Places : thread' = [thread EXCEPT !.at = at]
        BY <2>3 DEF Top, EndOfFile, ReadClosed, PcapRecord, JumboRecord, Places
      <3>2. thread' \in [at : Places, ready : R, i : Nat]
        BY <1>0, <3>1
      <3> QED
        BY <3>2
    <2> QED
      BY <2>1, <2>2, <2>3 DEF Receiving
  <1>4. thread'.at = "read" => Sock
    <2>1. CASE Select \/ Epoll
      BY <1>0, <2>1 DEF Select, Epoll, Wait, Sock
    <2>2. CASE Read
      BY <2>2 DEF Read, InputInv, ThreadShape
    <2>3. CASE Top \/ EndOfFile \/ ReadClosed \/ PcapRecord \/ JumboRecord
      BY <1>0, <2>3 DEF Top, EndOfFile, ReadClosed, PcapRecord, JumboRecord
    <2> QED
      BY <2>1, <2>2, <2>3 DEF Receiving
  <1>5. thread'.at = "dead" => flags.toExit \/ kind = "epoll"
    <2>1. CASE Select \/ Epoll
      BY <1>0, <2>1 DEF Select, Epoll, Wait
    <2>2. CASE Read
      <3>1. thread.at = "read" /\ (kind = "select" \/ kind = "epoll")
        BY <2>2 DEF Read, InputInv, ThreadShape, Sock
      <3>2. \/ thread' = [thread EXCEPT !.at = "top"]
            \/ thread' = [thread EXCEPT !.i = @ + 1]
            \/ thread' = [thread EXCEPT !.at = IF kind = "select" THEN "top" ELSE "dead"]
        BY <2>2 DEF Read, Error
      <3> QED
        BY <1>0, <3>1, <3>2
    <2>3. CASE Top
      BY <1>0, <2>3 DEF Top
    <2>4. CASE EndOfFile \/ ReadClosed \/ PcapRecord \/ JumboRecord
      BY <1>0, <2>4 DEF EndOfFile, ReadClosed, PcapRecord, JumboRecord
    <2> QED
      BY <2>1, <2>2, <2>3, <2>4 DEF Receiving
  <1>6. InputInv'
    BY <1>1, <1>2, <1>3, <1>4 DEF InputInv, ThreadShape, Joined, Descriptors, Sock
  <1>7. KeepsReceiving'
    BY <1>1, <1>5 DEF KeepsReceiving, EndedItself
  <1> QED
    BY <1>6, <1>7

LEMMA OthersKeep ==
  ASSUME InputInv, Feed \/ Datagram \/ Discard \/ Send \/ LoseFragment \/ UNCHANGED vars
  PROVE  InputInv' /\ (KeepsReceiving => KeepsReceiving')
PROOF
  <1>1. UNCHANGED <<kind, own, flags, fds, open, strayed, thread>>
    BY DEF Feed, Datagram, Discard, Send, LoseFragment, vars, socks, Still, Others
  <1>2. InputInv'
    BY <1>1 DEF InputInv, ThreadShape, Joined, Descriptors, Sock
  <1>3. KeepsReceiving' = KeepsReceiving
    BY <1>1 DEF KeepsReceiving, EndedItself
  <1> QED
    BY <1>2, <1>3

LEMMA CallsReceive ==
  ASSUME InputInv, KeepsReceiving,
         InitSock \/ InitPcap \/ Start \/ StopFlag \/ StopJoin \/ Destroy
  PROVE  KeepsReceiving'
PROOF
  <1>1. flags \in Flags /\ kind' = kind
    BY DEF InputInv, ThreadShape, InitSock, InitPcap, Start, StopFlag, StopJoin, Destroy, Close
  <1>2. CASE Start
    BY <1>2 DEF Start, Idle, KeepsReceiving, EndedItself
  <1>3. CASE StopFlag
    BY <1>1, <1>3 DEF StopFlag, Flags, KeepsReceiving, EndedItself
  <1>4. CASE StopJoin
    BY <1>1, <1>4 DEF StopJoin, Flags, KeepsReceiving, EndedItself
  <1>5. CASE InitSock \/ InitPcap \/ Destroy
    <2>1. thread' = thread /\ flags'.start = flags.start /\ flags'.toExit = flags.toExit
      BY <1>1, <1>5 DEF InitSock, InitPcap, Destroy, Close, Flags
    <2> QED
      BY <1>1, <2>1 DEF KeepsReceiving, EndedItself
  <1> QED
    BY <1>2, <1>3, <1>4, <1>5

(* InputInv holds at the start and through every step, and keeps the       *)
(* thread receiving.                                                       *)
THEOREM InputInvariant == Spec => [](InputInv /\ KeepsReceiving)
PROOF
  <1>1. InputInv /\ KeepsReceiving /\ [Next]_vars => InputInv' /\ KeepsReceiving'
    BY CallsKeep, CallsReceive, ThreadKeeps, OthersKeep DEF Next
  <1> QED
    BY InitInput, <1>1, PTL DEF Spec

(* recvPacket: no datagram ends the thread of an input, but InputSock's    *)
(* with epoll.  It returns when told to, at the end of its recording, or   *)
(* when the wait itself failed: select passes over a discarded datagram.   *)
THEOREM ReceivingKept == Spec => []KeepsReceiving
PROOF
  BY InputInvariant, PTL

(* InputSock::init and the destructors: a descriptor of an input that was  *)
(* initialised is closed once and no other is; none is left open, and no   *)
(* thread is left behind.                                                  *)
THEOREM DescriptorsClosed == Spec => []ClosesItsOwn
PROOF
  <1>1. InputInv => ClosesItsOwn
    BY DEF InputInv, Joined, Descriptors, ClosesItsOwn, Resting
  <1> QED
    BY <1>1, InputInvariant, PTL

-----------------------------------------------------------------------------
(* Jumbo packets.                                                          *)

Frag == [dg : Nat, id : Nat, off : Nat, more : BOOLEAN]
Sound(f) == f \in Frag /\ f.id # 0 /\ f.dg = f.id

\* What is collected in buf_ is the beginning of the datagram ip_id_.
Collected ==
    /\ jumbo \in [id : Nat, buf : Seq(Frag)]
    /\ jumbo.id # 0 =>
         \A i \in DOMAIN jumbo.buf : /\ jumbo.buf[i].off = i - 1 /\ jumbo.buf[i].more
                                     /\ jumbo.buf[i].dg = jumbo.id

\* out is a whole datagram.
Whole(out) ==
    /\ \A i \in DOMAIN out : out[i].off = i - 1 /\ out[i].dg = out[1].dg
    /\ ~out[Len(out)].more /\ \A i \in 1 .. Len(out) - 1 : out[i].more

JumboInv ==
    /\ sent \in Nat
    /\ \A f \in air : Sound(f)
    /\ Collected
    /\ pushed # <<>> /\ kind = "jumbo" => Whole(pushed)

\* new_fragment keeps the beginning of a datagram, and gives out whole ones.
LEMMA FragmentKeeps ==
  ASSUME Collected, NEW f, Sound(f)
  PROVE  LET r == Fragment(jumbo, f)
         IN  /\ r.jumbo \in [id : Nat, buf : Seq(Frag)]
             /\ r.jumbo.id # 0 =>
                  \A i \in DOMAIN r.jumbo.buf :
                     /\ r.jumbo.buf[i].off = i - 1 /\ r.jumbo.buf[i].more
                     /\ r.jumbo.buf[i].dg = r.jumbo.id
             /\ r.out # <<>> => Whole(r.out)
PROOF
  <1> DEFINE r == Fragment(jumbo, f)
             a == Append(jumbo.buf, f)
             n == Len(jumbo.buf)
  <1>1. f \in Frag /\ f.id # 0 /\ f.id \in Nat /\ f.dg = f.id /\ f.more \in BOOLEAN
    BY DEF Sound, Frag
  <1>2. jumbo \in [id : Nat, buf : Seq(Frag)] /\ jumbo.buf \in Seq(Frag)
    BY DEF Collected
  <1>3. << f >> \in Seq(Frag) /\ DOMAIN << f >> = {1} /\ Len(<< f >>) = 1 /\ << f >>[1] = f
    BY <1>1
  <1>4. /\ a \in Seq(Frag) /\ DOMAIN a = 1 .. n + 1 /\ n \in Nat /\ Len(a) = n + 1 /\ a[n + 1] = f
        /\ \A i \in 1 .. n : a[i] = jumbo.buf[i] /\ i \in DOMAIN jumbo.buf
    BY <1>1, <1>2
  <1> HIDE DEF a, n
  <1>5. CASE f.id = jumbo.id /\ f.off = n
    <2>1. \A i \in DOMAIN a : a[i].off = i - 1 /\ a[i].dg = jumbo.id
      <3>1. \A i \in 1 .. n : a[i].off = i - 1 /\ a[i].dg = jumbo.id
        BY <1>1, <1>4, <1>5 DEF Collected
      <3>2. a[n + 1].off = (n + 1) - 1 /\ a[n + 1].dg = jumbo.id
        BY <1>1, <1>4, <1>5
      <3>3. \A i \in DOMAIN a : i \in 1 .. n \/ i = n + 1
        BY <1>4
      <3> QED
        BY <3>1, <3>2, <3>3
    <2>2. \A i \in 1 .. n : a[i].more
      BY <1>1, <1>4, <1>5 DEF Collected
    <2>3. CASE f.more
      <3>1. r = [jumbo |-> [jumbo EXCEPT !.buf = a], out |-> <<>>]
        BY <1>5, <2>3 DEF Fragment, a, n
      <3>2. r.jumbo \in [id : Nat, buf : Seq(Frag)] /\ r.jumbo.buf = a /\ r.jumbo.id = jumbo.id
            /\ r.out = <<>>
        BY <1>2, <1>4, <3>1
      <3>3. \A i \in DOMAIN a : a[i].more
        BY <1>4, <2>2, <2>3
      <3> HIDE DEF r
      <3>4. \A i \in DOMAIN r.jumbo.buf : /\ r.jumbo.buf[i].off = i - 1 /\ r.jumbo.buf[i].more
                                          /\ r.jumbo.buf[i].dg = r.jumbo.id
        BY <2>1, <3>2, <3>3
      <3> QED
        BY <3>2, <3>4 DEF r
    <2>4. CASE ~f.more
      <3>1. r = [jumbo |-> [id |-> 0, buf |-> a], out |-> a]
        BY <1>5, <2>4 DEF Fragment, a, n
      <3>2. r.jumbo \in [id : Nat, buf : Seq(Frag)] /\ r.jumbo.id = 0 /\ r.out = a
        BY <1>4, <3>1
      <3>3. Whole(a)
        <4>1. 1 \in DOMAIN a /\ Len(a) = n + 1 /\ 1 .. Len(a) - 1 = 1 .. n /\ ~a[n + 1].more
          BY <1>4, <2>4
        <4>2. \A i \in DOMAIN a : a[i].off = i - 1 /\ a[i].dg = a[1].dg
          BY <2>1, <4>1
        <4> QED
          BY <2>2, <4>1, <4>2 DEF Whole
      <3> HIDE DEF r
      <3> QED
        BY <3>2, <3>3 DEF r
    <2> QED
      BY <2>3, <2>4
  <1>6. CASE f.id # jumbo.id /\ f.off = 0 /\ f.more
    <2>1. r = [jumbo |-> [id |-> f.id, buf |-> << f >>], out |-> <<>>]
      BY <1>6 DEF Fragment
    <2>2. r.jumbo \in [id : Nat, buf : Seq(Frag)] /\ r.jumbo.buf = << f >> /\ r.jumbo.id = f.id
          /\ r.out = <<>>
      BY <1>1, <1>3, <2>1
    <2> HIDE DEF r
    <2>3. \A i \in DOMAIN r.jumbo.buf : /\ r.jumbo.buf[i].off = i - 1 /\ r.jumbo.buf[i].more
                                        /\ r.jumbo.buf[i].dg = r.jumbo.id
      BY <1>1, <1>3, <1>6, <2>2
    <2> QED
      BY <2>2, <2>3 DEF r
  <1>7. CASE f.id # jumbo.id /\ f.off = 0 /\ ~f.more
    <2>1. r = [jumbo |-> jumbo, out |-> << f >>]
      BY <1>7 DEF Fragment
    <2>2. Whole(<< f >>)
      BY <1>3, <1>7 DEF Whole
    <2>3. r.jumbo = jumbo /\ r.out = << f >>
      BY <2>1
    <2> HIDE DEF r
    <2> QED
      BY <2>2, <2>3 DEF r, Collected
  <1>8. CASE (f.id = jumbo.id /\ f.off # n) \/ (f.id # jumbo.id /\ f.off # 0)
    <2>1. r = [jumbo |-> jumbo, out |-> <<>>]
      BY <1>8 DEF Fragment, n
    <2>2. r.jumbo = jumbo /\ r.out = <<>>
      BY <2>1
    <2> HIDE DEF r
    <2> QED
      BY <2>2 DEF r, Collected
  <1> QED
    BY <1>5, <1>6, <1>7, <1>8

(* InputPcapJumbo and its Jumbo: what is pushed is a datagram as it was    *)
(* sent, all its fragments in order and none of another, however many are  *)
(* lost, repeated or out of order.                                         *)
THEOREM JumboReassembled == Spec => []Reassembled
PROOF
  <1>1. Init => JumboInv
    BY DEF Init, JumboInv, Collected
  <1>2. ASSUME InputInv, JumboInv, [Next]_vars PROVE JumboInv'
    <2>1. CASE JumboRecord
      <3>1. PICK f \in air, again \in BOOLEAN :
              /\ air' = IF again THEN air ELSE air \ {f}
              /\ jumbo' = Fragment(jumbo, f).jumbo
              /\ pushed' = IF Fragment(jumbo, f).out = <<>> THEN pushed
                           ELSE Fragment(jumbo, f).out
        BY <2>1 DEF JumboRecord
      <3>2. kind' = kind /\ sent' = sent
        BY <2>1 DEF JumboRecord
      <3>3. Collected /\ Sound(f)
        BY <1>2 DEF JumboInv
      <3>4. Collected'
        BY <3>1, <3>3, FragmentKeeps DEF Collected
      <3>5. pushed' # <<>> /\ kind = "jumbo" => Whole(pushed')
        BY <1>2, <3>1, <3>3, FragmentKeeps DEF JumboInv
      <3>6. \A g \in air' : Sound(g)
        BY <1>2, <3>1 DEF JumboInv
      <3> QED
        BY <1>2, <3>2, <3>4, <3>5, <3>6 DEF JumboInv, Sound
    <2>2. CASE Send
      <3>1. PICK n \in {1, Fragments} :
              air' = air \cup {[dg |-> sent + 1, id |-> sent + 1, off |-> i, more |-> i < n - 1] :
                                 i \in 0 .. n - 1}
        BY <2>2 DEF Send
      <3>2. sent' = sent + 1 /\ UNCHANGED <<kind, jumbo, pushed>> /\ sent \in Nat
        BY <1>2, <2>2 DEF Send, JumboInv
      <3>3. ASSUME NEW i \in 0 .. n - 1
            PROVE  Sound([dg |-> sent + 1, id |-> sent + 1, off |-> i, more |-> i < n - 1])
        <4>1. i \in Nat /\ sent + 1 \in Nat /\ sent + 1 # 0 /\ (i < n - 1) \in BOOLEAN
          BY <3>2, FragmentsAssumption
        <4> QED
          BY <4>1 DEF Sound, Frag
      <3>4. \A f \in air' : Sound(f)
        BY <1>2, <3>1, <3>3 DEF JumboInv
      <3> QED
        BY <1>2, <3>2, <3>4 DEF JumboInv, Sound, Collected
    <2>3. CASE LoseFragment
      <3>1. air' \subseteq air /\ UNCHANGED <<kind, sent, jumbo, pushed>>
        BY <2>3 DEF LoseFragment
      <3> QED
        BY <1>2, <3>1 DEF JumboInv, Sound, Collected
    <2>4. CASE Feed
      <3>1. kind = "raw" /\ kind' = kind /\ sent' = sent + 1 /\ UNCHANGED <<air, jumbo>>
        BY <2>4 DEF Feed
      <3> QED
        BY <1>2, <3>1 DEF JumboInv, Sound, Collected
    <2>5. CASE Read \/ PcapRecord
      <3>1. kind # "jumbo" /\ UNCHANGED <<kind, air, jumbo, sent>>
        BY <1>2, <2>5 DEF Read, PcapRecord, Still, Others, InputInv, ThreadShape, Sock
      <3> QED
        BY <1>2, <3>1 DEF JumboInv, Sound, Collected
    <2>6. CASE \/ InitSock \/ InitPcap \/ Start \/ StopFlag \/ StopJoin \/ Destroy
               \/ Top \/ Select \/ Epoll \/ EndOfFile \/ ReadClosed \/ Datagram \/ Discard
               \/ UNCHANGED vars
      <3>1. UNCHANGED <<kind, air, jumbo, sent, pushed>>
        BY <2>6 DEF InitSock, InitPcap, Start, StopFlag, StopJoin, Destroy, Close, Top, Select,
                    Epoll, EndOfFile, ReadClosed, Datagram, Discard, vars, Wait, Still, Others, file, socks
      <3> QED
        BY <1>2, <3>1 DEF JumboInv, Sound, Collected
    <2> QED
      BY <1>2, <2>1, <2>2, <2>3, <2>4, <2>5, <2>6 DEF Next, Receiving
  <1>3. JumboInv => Reassembled
    BY DEF JumboInv, Whole, Reassembled
  <1> QED
    BY <1>1, <1>2, <1>3, InputInvariant, PTL DEF Spec

-----------------------------------------------------------------------------
(***************************************************************************)
(* A cloud is followed by the angle the split strategy remembers: the last *)
(* block of the cloud was fired there, and unless the LiDAR turned unheard *)
(* that far, all of its blocks in the round that block was fired in.       *)
(***************************************************************************)
Clouds == [points : Nat, blks : Nat, rounds : SUBSET (0 .. 2),
           seen : SUBSET (0 .. Horizon - 1), gap : Nat, whole : BOOLEAN, missed : BOOLEAN]
OfOneRound(c) == Far(c) \/ \E r \in 0 .. 2 : c.rounds \subseteq {r}
Following(angle, c) ==
  \/ c.seen = {} /\ c.rounds = {}
  \/ \E at \in 0 .. Horizon - 1 :
       /\ c.seen = {at} /\ angle = at % Round
       /\ Far(c) \/ c.rounds = {RoundOf(at)}

\* The state of a decoder.
Fields == {"echo", "rps", "perFrame", "split", "step", "blind", "ready", "wait", "init",
           "install", "lines", "angle", "blks", "preAngle", "preBlks"}

\* What the blocks of a packet leave behind, one by one.
HandedOver == {h \in [cloud : Clouds, height : Nat] : OfOneRound(h.cloud)}
Kept(d, c, out) ==
  /\ DOMAIN d = Fields /\ d.angle \in 0 .. Round - 1
  /\ c \in Clouds /\ Following(d.angle, c)
  /\ out \in Seq(HandedOver)

-----------------------------------------------------------------------------
(***************************************************************************)
(* Angles.                                                                 *)
(***************************************************************************)
LEMMA Angles == /\ Round \in Nat /\ Round > 0 /\ SplitAngle \in 0 .. Round - 1
                /\ Horizon \in Nat /\ Horizon = 3 * Round
BY RoundAssumption, SplitAngleAssumption DEF Horizon

LEMMA Dividing ==
  ASSUME NEW n \in Nat, n > 0, NEW x \in Int
  PROVE  x \div n \in Int /\ x % n \in 0 .. n - 1 /\ x = n * (x \div n) + (x % n)
<1>1. x \div n \in Int /\ x % n \in 0 .. n - 1
  OBVIOUS
<1>2. x = n * (x \div n) + (x % n)
  OBVIOUS
<1> QED BY <1>1, <1>2

(* A quotient of less than four rounds, and what is left. *)
LEMMA Rounds ==
  ASSUME NEW n \in Nat \ {0}, NEW a \in 0 .. 4 * n - 1
  PROVE  /\ a < n => a \div n = 0 /\ a % n = a
         /\ a >= n /\ a < 2 * n => a \div n = 1 /\ a % n = a - n
         /\ a >= 2 * n /\ a < 3 * n => a \div n = 2 /\ a % n = a - 2 * n
         /\ a >= 3 * n => a \div n = 3 /\ a % n = a - 3 * n
OBVIOUS

(* The distance from one angle to another. *)
LEMMA Distance ==
  ASSUME NEW a \in 0 .. Horizon - 1, NEW b \in 0 .. Horizon - 1
  PROVE  (b - a) % Horizon = IF b >= a THEN b - a ELSE b - a + Horizon
BY Angles

LEMMA RoundIs ==
  ASSUME NEW a \in 0 .. Horizon - 1
  PROVE  RoundOf(a) = IF a < SplitAngle THEN 0
                      ELSE IF a < SplitAngle + Round THEN 1
                      ELSE IF a < SplitAngle + 2 * Round THEN 2 ELSE 0
<1> DEFINE q == (a + Round - SplitAngle) \div Round
<1>1. a + Round - SplitAngle \in 0 .. 4 * Round - 1
  BY Angles
<1>2. q = IF a < SplitAngle THEN 0
          ELSE IF a < SplitAngle + Round THEN 1
          ELSE IF a < SplitAngle + 2 * Round THEN 2 ELSE 3
  BY <1>1, Angles, Rounds
<1>3. RoundOf(a) = q % 3
  BY DEF RoundOf
<1> HIDE DEF q
<1> QED BY <1>2, <1>3

(* Two blocks with no split between them were fired in one round, or the   *)
(* LiDAR turned far.                                                       *)
LEMMA SameRound ==
  ASSUME NEW a \in 0 .. Horizon - 1, NEW b \in 0 .. Horizon - 1,
         ~AngleSplit(a % Round, b % Round),
         (b - a) % Horizon < Round, (b - a) % Horizon <= Round - SplitAngle
  PROVE  RoundOf(a) = RoundOf(b)
<1> DEFINE x == a % Round
           y == b % Round
           g == (b - a) % Horizon
<1>1. \A u \in 0 .. Horizon - 1 :
        u % Round = IF u < Round THEN u ELSE IF u < 2 * Round THEN u - Round ELSE u - 2 * Round
  <2> TAKE u \in 0 .. Horizon - 1
  <2>1. u \in 0 .. 4 * Round - 1 /\ u < 3 * Round
    BY Angles
  <2>2. /\ u < Round => u % Round = u
        /\ u >= Round /\ u < 2 * Round => u % Round = u - Round
        /\ u >= 2 * Round /\ u < 3 * Round => u % Round = u - 2 * Round
    BY <2>1, RoundAssumption, Rounds, Zenon
  <2> HIDE DEF x, y, g
  <2> QED BY <2>1, <2>2, Angles
<1>2. /\ x = IF a < Round THEN a ELSE IF a < 2 * Round THEN a - Round ELSE a - 2 * Round
      /\ y = IF b < Round THEN b ELSE IF b < 2 * Round THEN b - Round ELSE b - 2 * Round
  BY <1>1
<1>3. g = IF b >= a THEN b - a ELSE b - a + Horizon
  BY Distance
<1>4. ~((IF y < x THEN x - Round ELSE x) < SplitAngle /\ SplitAngle <= y)
  BY DEF AngleSplit
<1>5. g < Round /\ g <= Round - SplitAngle
  OBVIOUS
<1> DEFINE turn(u) == IF u < SplitAngle THEN 0
                      ELSE IF u < SplitAngle + Round THEN 1
                      ELSE IF u < SplitAngle + 2 * Round THEN 2 ELSE 0
<1>6. RoundOf(a) = turn(a) /\ RoundOf(b) = turn(b)
  BY RoundIs
<1>7. /\ Round \in Nat /\ Round > 0 /\ SplitAngle \in 0 .. Round - 1 /\ Horizon = 3 * Round
      /\ a \in Nat /\ b \in Nat /\ a < Horizon /\ b < Horizon
  BY Angles
<1> HIDE DEF x, y, g
<1>8. CASE y >= x
  <2>1. ~(x < SplitAngle /\ SplitAngle <= y) /\ x \in Nat /\ y \in Nat
    BY <1>2, <1>4, <1>7, <1>8
  <2>2. CASE b >= a
    <3>1. b - a < Round
      BY <1>3, <1>5, <1>7, <2>2
    <3>2. y = x + b - a
      BY <1>2, <1>7, <1>8, <2>2, <3>1
    <3> QED BY <1>2, <1>7, <2>1, <2>2, <3>1, <3>2, <1>6
  <2>3. CASE b < a
    BY <1>2, <1>3, <1>5, <1>7, <1>8, <2>1, <2>3, <1>6
  <2> QED BY <1>7, <2>2, <2>3
<1>9. CASE y < x
  <2>1. ~(SplitAngle <= y)
    BY <1>2, <1>4, <1>7, <1>9
  <2> QED BY <1>2, <1>3, <1>5, <1>6, <1>7, <1>9, <2>1
<1>10. x \in Nat /\ y \in Nat
  BY <1>2, <1>7
<1>11. y >= x \/ y < x
  BY <1>10
<1> QED BY <1>8, <1>9, <1>11

-----------------------------------------------------------------------------
(***************************************************************************)
(* A block added to a cloud.                                               *)
(***************************************************************************)
LEMMA Gap ==
  ASSUME NEW g \in Nat, NEW at \in 0 .. Horizon - 1, NEW seen \in SUBSET (0 .. Horizon - 1),
         seen = {} \/ \E a \in seen : seen = {a}
  PROVE  /\ Widest(g, at, seen) \in Nat /\ Widest(g, at, seen) >= g
         /\ \A a \in seen : Widest(g, at, seen) >= (at - a) % Horizon
<1> DEFINE T == {(at - s) % Horizon : s \in seen} \cup {g}
           Max(m) == m \in T /\ \A t \in T : m >= t
<1>1. \E m : Max(m)
  <2>1. CASE seen = {}
    <3>1. T = {g}
      BY <2>1
    <3> QED BY <3>1
  <2>2. ASSUME NEW a \in seen, seen = {a} PROVE \E m : Max(m)
    <3> DEFINE x == (at - a) % Horizon
    <3>1. T = {x, g}
      BY <2>2
    <3>2. x \in Nat
      BY Angles
    <3> HIDE DEF T, x
    <3>3. CASE x >= g
      <4>1. Max(x)
        BY <3>1, <3>2, <3>3
      <4> QED BY <4>1
    <3>4. CASE ~(x >= g)
      <4>1. Max(g)
        BY <3>1, <3>2, <3>4
      <4> QED BY <4>1
    <3> QED BY <3>3, <3>4
  <2> QED BY <2>1, <2>2
<1>2. T \subseteq Nat
  BY Angles
<1>3. g \in T /\ \A a \in seen : (at - a) % Horizon \in T
  OBVIOUS
<1> HIDE DEF T
<1>4. Max(CHOOSE m \in T : \A t \in T : m >= t)
  BY <1>1, Zenon
<1>5. Max(Widest(g, at, seen))
  BY <1>4 DEF Widest, T
<1> QED BY <1>2, <1>3, <1>5

LEMMA Adds ==
  ASSUME NEW c \in Clouds, NEW at \in 0 .. Horizon - 1, NEW chans \in Nat,
         c.seen = {} \/ \E a \in c.seen : c.seen = {a}
  PROVE  LET r == AddBlock(c, at, chans)
         IN  /\ r \in Clouds
             /\ r.seen = {at}
             /\ r.rounds = c.rounds \cup {RoundOf(at)}
             /\ r.gap >= c.gap
             /\ \A a \in c.seen : r.gap >= (at - a) % Horizon
<1> DEFINE m == Widest(c.gap, at, c.seen)
           r == AddBlock(c, at, chans)
<1>1. c.points \in Nat /\ c.blks \in Nat /\ c.rounds \in SUBSET (0 .. 2) /\ c.gap \in Nat
  BY DEF Clouds
<1>2. c.seen \in SUBSET (0 .. Horizon - 1) /\ c.whole \in BOOLEAN
  BY DEF Clouds
<1>3. m \in Nat /\ m >= c.gap /\ \A a \in c.seen : m >= (at - a) % Horizon
  BY <1>1, <1>2, Gap
<1>4. RoundOf(at) \in 0 .. 2
  BY RoundIs
<1>5. r = [c EXCEPT !.points = c.points + chans, !.blks = c.blks + 1, !.missed = FALSE,
                    !.rounds = c.rounds \cup {RoundOf(at)}, !.seen = {at}, !.gap = m]
  BY DEF AddBlock
<1> HIDE DEF m, r
<1>6. /\ r.points = c.points + chans /\ r.blks = c.blks + 1 /\ r.missed = FALSE
      /\ r.rounds = c.rounds \cup {RoundOf(at)} /\ r.seen = {at} /\ r.gap = m
      /\ r.whole = c.whole
  BY <1>5 DEF Clouds
<1>7. r \in Clouds
  <2>1. r.points \in Nat /\ r.blks \in Nat /\ r.gap \in Nat
    BY <1>1, <1>3, <1>6
  <2>2. r.rounds \in SUBSET (0 .. 2) /\ r.seen \in SUBSET (0 .. Horizon - 1)
    BY <1>1, <1>4, <1>6
  <2>3. r.whole \in BOOLEAN /\ r.missed \in BOOLEAN
    BY <1>2, <1>6
  <2>4. r = [points |-> r.points, blks |-> r.blks, rounds |-> r.rounds, seen |-> r.seen,
             gap |-> r.gap, whole |-> r.whole, missed |-> r.missed]
    BY <1>5 DEF Clouds
  <2> QED BY <2>1, <2>2, <2>3, <2>4 DEF Clouds
<1> QED BY <1>3, <1>6, <1>7 DEF r

(* A cloud with no split before the block is followed on, and one that was *)
(* begun with it is.                                                       *)
LEMMA Follows ==
  ASSUME NEW c \in Clouds, NEW angle, Following(angle, c), NEW at \in 0 .. Horizon - 1,
         NEW chans \in Nat, c.seen # {} => ~AngleSplit(angle, at % Round)
  PROVE  /\ AddBlock(c, at, chans) \in Clouds
         /\ Following(at % Round, AddBlock(c, at, chans))
<1> DEFINE r == AddBlock(c, at, chans)
<1>1. c.seen = {} \/ \E a \in c.seen : c.seen = {a}
  BY DEF Following
<1>2. /\ r \in Clouds /\ r.seen = {at} /\ r.rounds = c.rounds \cup {RoundOf(at)}
      /\ r.gap >= c.gap /\ \A a \in c.seen : r.gap >= (at - a) % Horizon
  BY <1>1, Adds
<1> HIDE DEF r
<1>3. Far(r) \/ r.rounds = {RoundOf(at)}
  <2>1. CASE c.seen = {} /\ c.rounds = {}
    BY <1>2, <2>1
  <2>2. ASSUME NEW a \in 0 .. Horizon - 1, c.seen = {a}, angle = a % Round,
               Far(c) \/ c.rounds = {RoundOf(a)}
        PROVE  Far(r) \/ r.rounds = {RoundOf(at)}
    <3>1. c.gap \in Nat /\ r.gap \in Nat /\ r.gap >= c.gap /\ r.gap >= (at - a) % Horizon
      BY <1>2, <2>2 DEF Clouds
    <3>2. (at - a) % Horizon \in Nat
      BY Angles
    <3>3. ~AngleSplit(a % Round, at % Round)
      BY <2>2
    <3>4. CASE Far(c)
      BY <3>1, <3>4, Angles DEF Far
    <3>5. CASE (at - a) % Horizon < Round /\ (at - a) % Horizon <= Round - SplitAngle
      <4>1. RoundOf(a) = RoundOf(at)
        BY <3>3, <3>5, SameRound
      <4>2. CASE c.rounds = {RoundOf(a)}
        BY <1>2, <4>1, <4>2
      <4> QED BY <2>2, <3>4, <4>2
    <3>6. CASE ~((at - a) % Horizon < Round /\ (at - a) % Horizon <= Round - SplitAngle)
      BY <3>1, <3>2, <3>6, Angles DEF Far
    <3> QED BY <3>5, <3>6
  <2> QED BY <2>1, <2>2 DEF Following
<1>4. Following(at % Round, r)
  BY <1>2, <1>3 DEF Following
<1> QED BY <1>2, <1>4 DEF r

LEMMA BegunEmpty ==
  ASSUME NEW w \in BOOLEAN
  PROVE  LET c == [EmptyCloud EXCEPT !.whole = w] IN c \in Clouds /\ c.seen = {} /\ c.rounds = {}
<1> DEFINE c == [EmptyCloud EXCEPT !.whole = w]
<1>1. EmptyCloud \in Clouds
  BY DEF EmptyCloud, Clouds
<1>2. c \in Clouds
  BY <1>1, Zenon DEF Clouds
<1>3. c.seen = {} /\ c.rounds = {}
  BY DEF EmptyCloud
<1> QED BY <1>2, <1>3

(* A cloud that is followed is of one round. *)
LEMMA FollowedIsOne == ASSUME NEW c, NEW angle, Following(angle, c) PROVE OfOneRound(c)
<1>1. \A at \in 0 .. Horizon - 1 : RoundOf(at) \in 0 .. 2
  BY RoundIs
<1>2. 0 \in 0 .. 2
  OBVIOUS
<1> QED BY <1>1, <1>2 DEF Following, OfOneRound

-----------------------------------------------------------------------------
(***************************************************************************)
(* A packet.                                                               *)
(***************************************************************************)
Handable(p) ==
  /\ p.good \in Nat /\ p.cfg.strategy = "angle"
  /\ \A i \in 1 .. p.good : p.at[i] \in 0 .. Horizon - 1 /\ p.az[i] = p.at[i] % Round

LEMMA BlockKeeps ==
  ASSUME NEW dev, dev.chans \in Nat, NEW height \in Nat, NEW s, Kept(s.dec, s.cloud, s.out),
         NEW p, Handable(p), NEW i \in 1 .. p.good
  PROVE  LET r == DecodeBlock(dev, height, s, p, i) IN Kept(r.dec, r.cloud, r.out)
<1> DEFINE at == p.at[i]
           cut == IsSplit(s.dec, p.cfg, p.az[i])
           c == IF cut THEN [EmptyCloud EXCEPT !.whole = ~s.cloud.missed] ELSE s.cloud
           r == DecodeBlock(dev, height, s, p, i)
<1>1. at \in 0 .. Horizon - 1 /\ p.az[i] = at % Round /\ p.cfg.strategy = "angle"
  BY DEF Handable
<1>2. cut <=> AngleSplit(s.dec.angle, at % Round)
  BY <1>1 DEF IsSplit
<1>3. /\ r.dec = [s.dec EXCEPT !.angle = at % Round]
      /\ r.cloud = AddBlock(c, at, dev.chans)
      /\ r.out = IF cut /\ s.cloud.blks > 0
                 THEN Append(s.out, [cloud |-> s.cloud, height |-> height]) ELSE s.out
  BY <1>1 DEF DecodeBlock, NewBlock
<1>4. c \in Clouds /\ Following(s.dec.angle, c) /\ (c.seen # {} => ~cut)
  <2>1. CASE cut
    <3>1. (~s.cloud.missed) \in BOOLEAN
      OBVIOUS
    <3>2. c = [EmptyCloud EXCEPT !.whole = ~s.cloud.missed]
      BY <2>1
    <3> QED BY <3>1, <3>2, BegunEmpty DEF Following
  <2>2. CASE ~cut
    BY <2>2 DEF Kept
  <2> QED BY <2>1, <2>2
<1> HIDE DEF r, c, cut, at
<1>5. r.cloud \in Clouds /\ Following(at % Round, r.cloud)
  BY <1>1, <1>2, <1>3, <1>4, Follows
<1>6. DOMAIN r.dec = Fields /\ r.dec.angle = at % Round /\ at % Round \in 0 .. Round - 1
  BY <1>1, <1>3, Angles DEF Kept
<1>7. r.out \in Seq(HandedOver)
  <2>1. s.out \in Seq(HandedOver) /\ s.cloud \in Clouds /\ OfOneRound(s.cloud)
    BY FollowedIsOne DEF Kept
  <2>2. [cloud |-> s.cloud, height |-> height] \in HandedOver
    BY <2>1 DEF HandedOver
  <2> QED BY <1>3, <2>1, <2>2
<1>8. Kept(r.dec, r.cloud, r.out)
  BY <1>5, <1>6, <1>7 DEF Kept
<1> QED BY <1>8 DEF r

(* The blocks decoded one by one: the states in between.                   *)
Undecoded(d, c) == [dec |-> d, cloud |-> c, out |-> <<>>, new |-> FALSE]
AreDone(f, n, dev, height, d, c, p) ==
  f = [i \in 0 .. n |-> IF i = 0 THEN Undecoded(d, c)
                        ELSE DecodeBlock(dev, height, f[i - 1], p, i)]

LEMMA BlocksExist ==
  ASSUME NEW dev, NEW height, NEW d, NEW c, NEW p, NEW n \in Nat
  PROVE  \E f : AreDone(f, n, dev, height, d, c, p)
<1> DEFINE S == {m \in Nat : ~ \E f : AreDone(f, m, dev, height, d, c, p)}
<1>1. SUFFICES ASSUME S # {} PROVE FALSE
  OBVIOUS
<1>2. PICK m \in S : \A k \in S : ~(<<k, m>> \in OpToRel(<, Nat))
  BY <1>1, NatLessThanWellFounded, WFMin
<1>3. m \in Nat /\ ~ \E f : AreDone(f, m, dev, height, d, c, p)
  OBVIOUS
<1>4. CASE m = 0
  <2> DEFINE f == [i \in 0 .. 0 |-> Undecoded(d, c)]
  <2>1. \A i \in 0 .. 0 : i = 0
    OBVIOUS
  <2>2. f = [i \in 0 .. 0 |-> IF i = 0 THEN Undecoded(d, c)
                              ELSE DecodeBlock(dev, height, f[i - 1], p, i)]
    BY <2>1
  <2> QED BY <1>3, <1>4, <2>2 DEF AreDone
<1>5. CASE m # 0
  <2>1. m - 1 \in Nat /\ m - 1 < m
    BY <1>3, <1>5
  <2>2. <<m - 1, m>> \in OpToRel(<, Nat)
    BY <1>3, <2>1 DEF OpToRel
  <2>3. PICK f : AreDone(f, m - 1, dev, height, d, c, p)
    BY <1>2, <2>1, <2>2
  <2> DEFINE g == [i \in 0 .. m |-> IF i = m THEN DecodeBlock(dev, height, f[m - 1], p, m)
                                    ELSE f[i]]
  <2>4. \A i \in 0 .. m : i # m => i \in 0 .. m - 1
    BY <1>3
  <2>5. \A i \in 0 .. m - 1 : g[i] = f[i]
    BY <1>3
  <2>6. \A i \in 0 .. m - 1 :
          f[i] = IF i = 0 THEN Undecoded(d, c) ELSE DecodeBlock(dev, height, f[i - 1], p, i)
    BY <2>3 DEF AreDone
  <2>7. \A i \in 0 .. m :
          g[i] = IF i = 0 THEN Undecoded(d, c) ELSE DecodeBlock(dev, height, g[i - 1], p, i)
    <3> TAKE i \in 0 .. m
    <3>1. CASE i = m
      <4>1. g[i] = DecodeBlock(dev, height, f[m - 1], p, m) /\ m - 1 \in 0 .. m - 1
        BY <1>3, <2>1, <3>1
      <4> QED BY <1>5, <2>5, <3>1, <4>1
    <3>2. CASE i # m
      <4>1. i \in 0 .. m - 1 /\ (i # 0 => i - 1 \in 0 .. m - 1)
        BY <1>3, <3>2
      <4> QED BY <2>5, <2>6, <4>1
    <3> QED BY <3>1, <3>2
  <2>8. g = [i \in 0 .. m |-> IF i = 0 THEN Undecoded(d, c)
                              ELSE DecodeBlock(dev, height, g[i - 1], p, i)]
    <3> HIDE DEF g
    <3>1. g = [i \in 0 .. m |-> g[i]]
      BY DEF g
    <3> QED BY <2>7, <3>1
  <2> QED BY <1>3, <2>8 DEF AreDone
<1> QED BY <1>4, <1>5

LEMMA BlocksDone ==
  ASSUME NEW dev, NEW height, NEW d, NEW c, NEW p, NEW times, p.good \in Nat
  PROVE  \E f : /\ AreDone(f, p.good, dev, height, d, c, p)
                /\ InternDecode(dev, height, d, c, p, times) =
                     [dec |-> f[p.good].dec, cloud |-> f[p.good].cloud, out |-> f[p.good].out,
                      new |-> f[p.good].new, times |-> times]
<1> DEFINE F == CHOOSE f : AreDone(f, p.good, dev, height, d, c, p)
<1>1. AreDone(F, p.good, dev, height, d, c, p)
  BY BlocksExist, Zenon
<1>2. InternDecode(dev, height, d, c, p, times) =
        [dec |-> F[p.good].dec, cloud |-> F[p.good].cloud, out |-> F[p.good].out,
         new |-> F[p.good].new, times |-> times]
  BY Zenon DEF InternDecode, AreDone, Undecoded
<1> HIDE DEF F
<1> QED BY <1>1, <1>2

(* What a packet leaves behind, by induction over its blocks. *)
LEMMA BlocksKeep ==
  ASSUME NEW dev, dev.chans \in Nat, NEW height \in Nat, NEW d, NEW c, Kept(d, c, <<>>),
         NEW p, Handable(p), NEW times
  PROVE  LET r == InternDecode(dev, height, d, c, p, times) IN Kept(r.dec, r.cloud, r.out)
<1>1. p.good \in Nat
  BY DEF Handable
<1>2. PICK f : /\ AreDone(f, p.good, dev, height, d, c, p)
               /\ InternDecode(dev, height, d, c, p, times) =
                     [dec |-> f[p.good].dec, cloud |-> f[p.good].cloud, out |-> f[p.good].out,
                      new |-> f[p.good].new, times |-> times]
  BY <1>1, BlocksDone
<1>3. \A i \in 0 .. p.good :
        f[i] = IF i = 0 THEN Undecoded(d, c) ELSE DecodeBlock(dev, height, f[i - 1], p, i)
  BY <1>2 DEF AreDone
<1> DEFINE Good(s) == Kept(s.dec, s.cloud, s.out)
           S == {m \in 0 .. p.good : ~Good(f[m])}
<1>4. ASSUME S # {} PROVE FALSE
  <2>1. S \subseteq Nat
    BY <1>1
  <2>2. PICK m \in S : \A k \in S : ~(<<k, m>> \in OpToRel(<, Nat))
    BY <1>4, <2>1, NatLessThanWellFounded, WFMin
  <2>3. m \in 0 .. p.good /\ ~Good(f[m])
    OBVIOUS
  <2>4. CASE m = 0
    <3>1. f[0] = Undecoded(d, c)
      BY <1>1, <1>3
    <3> QED BY <2>3, <2>4, <3>1 DEF Undecoded
  <2>5. CASE m # 0
    <3>1. m - 1 \in 0 .. p.good /\ m \in 1 .. p.good /\ m - 1 < m /\ m \in Nat /\ m - 1 \in Nat
      BY <1>1, <2>3, <2>5
    <3>2. <<m - 1, m>> \in OpToRel(<, Nat)
      BY <3>1 DEF OpToRel
    <3>3. Good(f[m - 1])
      BY <2>2, <3>1, <3>2
    <3>4. f[m] = DecodeBlock(dev, height, f[m - 1], p, m)
      BY <1>3, <2>3, <2>5
    <3>5. Good(f[m])
      BY <3>1, <3>3, <3>4, BlockKeeps
    <3> QED BY <2>3, <3>5
  <2> QED BY <2>4, <2>5
<1>5. Good(f[p.good])
  BY <1>1, <1>4
<1> QED BY <1>2, <1>5

-----------------------------------------------------------------------------
(***************************************************************************)
(* The decoder of each LiDAR.  None of them but newBlock moves the angle.  *)
(***************************************************************************)
Models == Rotating \cup {"RSAIRY", "RSFAIRY"}
Moveless(d, e) ==
  /\ DOMAIN e = Fields /\ e.angle = d.angle /\ e.blks = d.blks
  /\ e.preAngle = d.preAngle /\ e.wait = d.wait /\ (d.ready => e.ready)

LEMMA Settings ==
  ASSUME NEW d, DOMAIN d = Fields
  PROVE  /\ \A q : Moveless(d, DifopCommon(d, q))
         /\ \A echo : Moveless(d, SetEcho(d, echo))
         /\ \A e : Moveless(d, [d EXCEPT !.init = e])
<1>1. ASSUME NEW q PROVE Moveless(d, DifopCommon(d, q))
  BY DEF Moveless, DifopCommon, Fields
<1>2. ASSUME NEW echo PROVE Moveless(d, SetEcho(d, echo))
  BY DEF Moveless, SetEcho, Fields
<1>3. ASSUME NEW e PROVE Moveless(d, [d EXCEPT !.init = e])
  BY DEF Moveless
<1> QED BY <1>1, <1>2, <1>3

LEMMA SettingsKeep ==
  ASSUME NEW d, NEW e, NEW c, Kept(d, c, <<>>), Moveless(d, e)
  PROVE  Kept(e, c, <<>>)
BY DEF Kept, Moveless

LEMMA DifopMoves ==
  ASSUME NEW d, DOMAIN d = Fields, NEW q, NEW model \in Models
  PROVE  Moveless(d, DecodeDifop(model, d, q))
<1> DEFINE e == DifopCommon(d, q)
<1>1. Moveless(d, e)
  BY Settings
<1>2. \A echo : Moveless(d, SetEcho(e, echo))
  BY <1>1, Settings DEF Moveless
<1> HIDE DEF e
<1>3. Moveless(d, RS16Difop(d, q))
  BY <1>1 DEF Moveless, RS16Difop, e
<1>4. Moveless(d, RSHELIOS_16PDifop(d, q))
  BY <1>1 DEF Moveless, RSHELIOS_16PDifop, e
<1>5. Moveless(d, RS32Difop(d, q))
  BY <1>2 DEF RS32Difop, e
<1>6. Moveless(d, RSBPDifop(d, q))
  BY <1>2 DEF RSBPDifop, e
<1>7. Moveless(d, RSHELIOSDifop(d, q))
  BY <1>2 DEF RSHELIOSDifop, e
<1>8. Moveless(d, RS128Difop(d, q))
  BY <1>2 DEF RS128Difop, e
<1>9. Moveless(d, RSP128Difop(d, q))
  BY <1>2 DEF RSP128Difop, e
<1>10. Moveless(d, RS80Difop(d, q))
  BY <1>2 DEF RS80Difop, e
<1>11. Moveless(d, RSP80Difop(d, q))
  BY <1>2 DEF RSP80Difop, e
<1>12. Moveless(d, RS48Difop(d, q))
  BY <1>2 DEF RS48Difop, e
<1>13. Moveless(d, RSP48Difop(d, q))
  BY <1>2 DEF RSP48Difop, e
<1>14. Moveless(d, RSAIRYDifop(d, q))
  BY <1>1 DEF Moveless, RSAIRYDifop, e
<1>15. Moveless(d, RSFAIRYDifop(d, q))
  BY <1>1 DEF Moveless, RSFAIRYDifop, e
<1> QED
  BY <1>3, <1>4, <1>5, <1>6, <1>7, <1>8, <1>9, <1>10, <1>11, <1>12, <1>13, <1>14, <1>15
  DEF DecodeDifop, Models, Rotating

(* Each packet goes block by block through internDecodeMsopPkt, but for    *)
(* those without blocks and those of a number of lines nobody knows.       *)
Setup(model, d, e, p) ==
  /\ Moveless(d, e)
  /\ model \in CountedLidars => e = d \/ e = [d EXCEPT !.init = TRUE]
  /\ model \in {"RSAIRY", "RSFAIRY"} => e.lines = p.lines \/ (e = d /\ (d.init \/ p.type # 0))
Unknown(model, e, p) ==
  model \in {"RSAIRY", "RSFAIRY"} /\ (p.type # 0 \/ e.lines \notin {48, 96})
Understood(model, d, c, p, r) ==
  \/ \E dev, height, e, times :
       /\ dev.chans \in Nat /\ height \in Nat /\ Setup(model, d, e, p)
       /\ ~Unknown(model, e, p) /\ r = InternDecode(dev, height, e, c, p, times)
  \/ \E e : Setup(model, d, e, p) /\ Unknown(model, e, p) /\ r = Refused(e, c)

LEMMA MsopIs ==
  ASSUME NEW d, DOMAIN d = Fields, NEW c, NEW p, NEW model \in Models
  PROVE  Understood(model, d, c, p, DecodeMsop(model, d, c, p))
<1>1. ASSUME NEW dev, dev.chans \in Nat, NEW height \in Nat, NEW e, NEW times,
             Setup(model, d, e, p), ~Unknown(model, e, p)
      PROVE  Understood(model, d, c, p, InternDecode(dev, height, e, c, p, times))
  BY <1>1, Zenon DEF Understood
<1>2. ASSUME NEW dev, dev.chans \in Nat, dev.laser \in Nat, NEW times, model \in Rotating
      PROVE  Understood(model, d, c, p, InternDecode(dev, dev.laser, d, c, p, times))
  <2>1. Setup(model, d, d, p) /\ ~Unknown(model, d, p)
    BY <1>2 DEF Setup, Moveless, Rotating, Unknown
  <2> QED BY <1>1, <1>2, <2>1
<1>3. ASSUME NEW e, Setup(model, d, e, p), Unknown(model, e, p)
      PROVE  Understood(model, d, c, p, Refused(e, c))
  BY <1>3, Zenon DEF Understood
<1>4. ASSUME model = "RS16" PROVE Understood(model, d, c, p, RS16Msop(d, c, p))
  <2>1. RS16.chans \in Nat /\ RS16.laser \in Nat
    BY DEF RS16
  <2> QED BY <1>2, <1>4, <2>1 DEF RS16Msop, Rotating
<1>5. ASSUME model = "RSHELIOS_16P" PROVE Understood(model, d, c, p, RSHELIOS_16PMsop(d, c, p))
  <2>1. RSHELIOS_16P.chans \in Nat /\ RSHELIOS_16P.laser \in Nat
    BY DEF RSHELIOS_16P
  <2> QED BY <1>2, <1>5, <2>1 DEF RSHELIOS_16PMsop, Rotating
<1>6. ASSUME model = "RS32" PROVE Understood(model, d, c, p, RS32Msop(d, c, p))
  <2>1. RS32.chans \in Nat /\ RS32.laser \in Nat
    BY DEF RS32
  <2> QED BY <1>2, <1>6, <2>1 DEF RS32Msop, Rotating
<1>7. ASSUME model = "RSBP" PROVE Understood(model, d, c, p, RSBPMsop(d, c, p))
  <2>1. RSBP.chans \in Nat /\ RSBP.laser \in Nat
    BY DEF RSBP
  <2>2. /\ Setup(model, d, [d EXCEPT !.init = TRUE], p)
        /\ ~Unknown(model, [d EXCEPT !.init = TRUE], p)
    BY <1>7, Settings DEF Setup, Unknown
  <2> QED BY <1>1, <2>1, <2>2 DEF RSBPMsop
<1>8. ASSUME model = "RSHELIOS" PROVE Understood(model, d, c, p, RSHELIOSMsop(d, c, p))
  <2>1. RSHELIOS.chans \in Nat /\ RSHELIOS.laser \in Nat
    BY DEF RSHELIOS
  <2> QED BY <1>2, <1>8, <2>1 DEF RSHELIOSMsop, Rotating
<1>9. ASSUME model = "RS128" PROVE Understood(model, d, c, p, RS128Msop(d, c, p))
  <2>1. RS128.chans \in Nat /\ RS128.laser \in Nat
    BY DEF RS128
  <2> QED BY <1>2, <1>9, <2>1 DEF RS128Msop, Rotating
<1>10. ASSUME model = "RSP128" PROVE Understood(model, d, c, p, RSP128Msop(d, c, p))
  <2>1. RSP128.chans \in Nat /\ RSP128.laser \in Nat
    BY DEF RSP128
  <2> QED BY <1>2, <1>10, <2>1 DEF RSP128Msop, Rotating
<1>11. ASSUME model = "RS80" PROVE Understood(model, d, c, p, RS80Msop(d, c, p))
  <2>1. RS80.chans \in Nat /\ RS80.laser \in Nat
    BY DEF RS80
  <2> QED BY <1>2, <1>11, <2>1 DEF RS80Msop, Rotating
<1>12. ASSUME model = "RSP80" PROVE Understood(model, d, c, p, RSP80Msop(d, c, p))
  <2>1. RSP80.chans \in Nat /\ RSP80.laser \in Nat
    BY DEF RSP80
  <2> QED BY <1>2, <1>12, <2>1 DEF RSP80Msop, Rotating
<1>13. ASSUME model = "RS48" PROVE Understood(model, d, c, p, RS48Msop(d, c, p))
  <2>1. RS48.chans \in Nat /\ RS48.laser \in Nat
    BY DEF RS48
  <2> QED BY <1>2, <1>13, <2>1 DEF RS48Msop, Rotating
<1>14. ASSUME model = "RSP48" PROVE Understood(model, d, c, p, RSP48Msop(d, c, p))
  <2>1. RSP48.chans \in Nat /\ RSP48.laser \in Nat
    BY DEF RSP48
  <2> QED BY <1>2, <1>14, <2>1 DEF RSP48Msop, Rotating
<1>15. ASSUME model = "RSAIRY" PROVE Understood(model, d, c, p, RSAIRYMsop(d, c, p))
  <2> DEFINE e == RSAIRYHeader(d, p)
  <2>1. RSAIRY.chans \in Nat
    BY DEF RSAIRY
  <2>2. \A echo, l, i : Moveless(d, [SetEcho(d, echo) EXCEPT !.lines = l, !.init = i])
    BY Settings DEF Moveless
  <2>3. Moveless(d, e) /\ Moveless(d, d)
    BY <2>2 DEF RSAIRYHeader, Moveless
  <2>4. e.lines = p.lines \/ (e = d /\ d.init)
    <3>1. \A f, i : DOMAIN f = Fields => [f EXCEPT !.lines = p.lines, !.init = i].lines = p.lines
      BY DEF Fields
    <3>2. \A echo : DOMAIN SetEcho(d, echo) = Fields
      BY Settings DEF Moveless
    <3> QED BY <3>1, <3>2 DEF RSAIRYHeader
  <2>5. /\ Setup(model, d, e, p)
        /\ p.type # 0 => Setup(model, d, d, p)
    BY <1>15, <2>3, <2>4 DEF Setup, CountedLidars
  <2> HIDE DEF e
  <2>6. CASE p.type # 0
    <3>1. RSAIRYMsop(d, c, p) = Refused(d, c)
      BY <2>6 DEF RSAIRYMsop
    <3> QED BY <1>3, <1>15, <2>5, <2>6, <3>1 DEF Unknown
  <2>7. CASE p.type = 0 /\ e.lines \notin {48, 96}
    <3>1. RSAIRYMsop(d, c, p) = Refused(e, c)
      BY <2>7 DEF RSAIRYMsop, e
    <3> QED BY <1>3, <1>15, <2>5, <2>7, <3>1 DEF Unknown
  <2>8. CASE p.type = 0 /\ e.lines \in {48, 96}
    <3>1. e.lines \in Nat /\ ~Unknown(model, e, p)
      BY <2>8 DEF Unknown
    <3> QED BY <1>1, <2>1, <2>5, <2>8, <3>1 DEF RSAIRYMsop, e
  <2> QED BY <2>6, <2>7, <2>8
<1>16. ASSUME model = "RSFAIRY" PROVE Understood(model, d, c, p, RSFAIRYMsop(d, c, p))
  <2> DEFINE e == IF d.init THEN d
                    ELSE [SetEcho(d, RSFAIRYEcho(p.mode)) EXCEPT !.lines = p.lines, !.init = TRUE]
  <2>1. RSFAIRY.chans \in Nat
    BY DEF RSFAIRY
  <2>2. \A echo, l, i : Moveless(d, [SetEcho(d, echo) EXCEPT !.lines = l, !.init = i])
    BY Settings DEF Moveless
  <2>3. Moveless(d, e) /\ Moveless(d, d)
    BY <2>2 DEF Moveless
  <2>4. e.lines = p.lines \/ (e = d /\ d.init)
    <3>1. \A f, i : DOMAIN f = Fields => [f EXCEPT !.lines = p.lines, !.init = i].lines = p.lines
      BY DEF Fields
    <3>2. \A echo : DOMAIN SetEcho(d, echo) = Fields
      BY Settings DEF Moveless
    <3> QED BY <3>1, <3>2
  <2>5. /\ Setup(model, d, e, p)
        /\ p.type # 0 => Setup(model, d, d, p)
    BY <1>16, <2>3, <2>4 DEF Setup, CountedLidars
  <2> HIDE DEF e
  <2>6. CASE p.type # 0
    <3>1. RSFAIRYMsop(d, c, p) = Refused(d, c)
      BY <2>6 DEF RSFAIRYMsop
    <3> QED BY <1>3, <1>16, <2>5, <2>6, <3>1 DEF Unknown
  <2>7. CASE p.type = 0 /\ e.lines \notin {48, 96}
    <3>1. RSFAIRYMsop(d, c, p) = Refused(e, c)
      BY <2>7 DEF RSFAIRYMsop, e
    <3> QED BY <1>3, <1>16, <2>5, <2>7, <3>1 DEF Unknown
  <2>8. CASE p.type = 0 /\ e.lines \in {48, 96}
    <3>1. e.lines \in Nat /\ ~Unknown(model, e, p)
      BY <2>8 DEF Unknown
    <3> QED BY <1>1, <2>1, <2>5, <2>8, <3>1 DEF RSFAIRYMsop, e
  <2> QED BY <2>6, <2>7, <2>8
<1> QED
  BY <1>4, <1>5, <1>6, <1>7, <1>8, <1>9, <1>10, <1>11, <1>12, <1>13, <1>14, <1>15, <1>16
  DEF DecodeMsop, Models, Rotating

LEMMA MsopKeeps ==
  ASSUME NEW d, NEW c, Kept(d, c, <<>>), NEW p, Handable(p), NEW model \in Models
  PROVE  LET r == DecodeMsop(model, d, c, p) IN Kept(r.dec, r.cloud, r.out)
<1> DEFINE r == DecodeMsop(model, d, c, p)
<1>1. DOMAIN d = Fields
  BY DEF Kept
<1>2. Understood(model, d, c, p, r)
  BY <1>1, MsopIs
<1> HIDE DEF r
<1>3. ASSUME NEW dev, NEW height, NEW e, NEW times, dev.chans \in Nat, height \in Nat,
             Setup(model, d, e, p), r = InternDecode(dev, height, e, c, p, times)
      PROVE  Kept(r.dec, r.cloud, r.out)
  <2>1. Kept(e, c, <<>>)
    BY <1>3, SettingsKeep DEF Setup
  <2> QED BY <1>3, <2>1, BlocksKeep
<1>4. ASSUME NEW e, Setup(model, d, e, p), r = Refused(e, c) PROVE Kept(r.dec, r.cloud, r.out)
  <2>1. Kept(e, c, <<>>)
    BY <1>4, SettingsKeep DEF Setup
  <2> QED BY <1>4, <2>1 DEF Refused
<1>5. Kept(r.dec, r.cloud, r.out)
  BY <1>2, <1>3, <1>4 DEF Understood
<1> QED BY <1>5 DEF r

-----------------------------------------------------------------------------
(***************************************************************************)
(* The LiDAR.                                                              *)
(***************************************************************************)
Sensor == [model : Models, lines : {0, 48, 96}, mode : ReturnModes, rps : Nat, fov : Fovs,
           install : {"none", "normal"}, turn : 0 .. 2, next : Nat]
Rate(rps) == rps \in Nat \ {0} /\ rps % UnitSpeed = 0
Turning == sensor \in Sensor /\ Rate(sensor.rps) /\ ToScale(sensor)

(* A LiDAR turns by one unit of angle at least. *)
LEMMA Steps ==
  ASSUME NEW rps, Rate(rps)
  PROVE  StepAt(rps) \in Nat /\ StepAt(rps) > 0
<1>1. UnitSpeed \in Nat /\ UnitSpeed > 0 /\ rps \in Nat /\ rps > 0 /\ rps % UnitSpeed = 0
  BY SpeedsAssumption DEF Rate
<1> DEFINE q == rps \div UnitSpeed
<1>2. q \in Int /\ rps = UnitSpeed * q + (rps % UnitSpeed)
  BY <1>1, Dividing
<1> HIDE DEF q
<1>3. q <= 0 => UnitSpeed * q <= 0
  BY <1>1, <1>2
<1>4. UnitSpeed * q \in Int
  BY <1>1, <1>2
<1>5. q > 0
  BY <1>1, <1>2, <1>3, <1>4
<1> QED BY <1>2, <1>5 DEF StepAt, q

LEMMA Default == Rate(10)
BY SpeedsAssumption DEF Rate

LEMMA Sectors ==
  ASSUME NEW s, s.fov \in Fovs
  PROVE  s.fov[1] \in 0 .. Round - 1 /\ Sector(s) \in 1 .. Round
<1>1. s.fov[1] \in 0 .. Round - 1 /\ s.fov[2] \in 0 .. Round
  BY FovsAssumption
<1>2. s.fov[2] - s.fov[1] - 1 \in Int
  BY <1>1, Angles
<1>3. (s.fov[2] - s.fov[1] - 1) % Round \in 0 .. Round - 1
  BY <1>2, Angles, Dividing
<1> QED BY <1>1, <1>3, Angles DEF Sector

LEMMA Blocks ==
  ASSUME NEW model \in Models
  PROVE  Device(model).blocks \in {3, 4, 8, 12}
<1>1. /\ RS16.blocks = 12 /\ RSHELIOS_16P.blocks = 12 /\ RS32.blocks = 12 /\ RSBP.blocks = 12
      /\ RSHELIOS.blocks = 12 /\ RS128.blocks = 3 /\ RSP128.blocks = 3 /\ RS80.blocks = 4
      /\ RSP80.blocks = 4 /\ RS48.blocks = 8 /\ RSP48.blocks = 8 /\ RSAIRY.blocks = 8
      /\ RSFAIRY.blocks = 8
  BY DEF RS16, RSHELIOS_16P, RS32, RSBP, RSHELIOS, RS128, RSP128, RS80, RSP80, RS48, RSP48,
         RSAIRY, RSFAIRY
<1> QED BY <1>1 DEF Device, Models, Rotating

LEMMA Devices ==
  ASSUME NEW model \in Models
  PROVE  Device(model).blocks \in Nat /\ Device(model).blocks > 0
BY Blocks

LEMMA Layouts ==
  ASSUME NEW s
  PROVE  Layout(s).num \in {1, 2} /\ Layout(s).den \in {1, 2, 4}
<1>1. Layout(s) \in {[num |-> 1, den |-> 1], [num |-> 1, den |-> 2], [num |-> 1, den |-> 4],
                     [num |-> 2, den |-> 1]}
  BY Zenon DEF Layout
<1> QED BY <1>1

LEMMA RoundsAre ==
  ASSUME NEW s \in Sensor, Rate(s.rps), ToScale(s)
  PROVE  /\ RoundBlocks(s) \in Nat /\ RoundBlocks(s) > 0
         /\ Step(s) \in Nat /\ Step(s) > 0
<1>1. s.fov \in Fovs /\ s.model \in Models
  BY DEF Sensor
<1>2. Step(s) \in Nat /\ Step(s) > 0
  BY Steps DEF Step
<1>3. Sector(s) \in Int
  BY <1>1, Sectors, Angles
<1>4. Sector(s) \div Step(s) \in Int
  BY <1>2, <1>3
<1>5. RoundBlocks(s) \in Int
  BY <1>4, Layouts DEF RoundBlocks
<1>6. RoundBlocks(s) >= 2 * Device(s.model).blocks
  BY DEF ToScale
<1> QED BY <1>1, <1>2, <1>5, <1>6, Devices

LEMMA RoundLength ==
  ASSUME Turning
  PROVE  /\ RoundBlocks(sensor) \in Nat /\ RoundBlocks(sensor) > 0
         /\ Step(sensor) \in Nat /\ Step(sensor) > 0
BY RoundsAre DEF Turning

LEMMA WholePrefix ==
  ASSUME NEW S, NEW n \in Nat, NEW s \in [1 .. n -> S]
  PROVE  \A i \in 1 .. n : SubSeq(s, 1, n)[i] = s[i]
<1>1. s \in Seq(S) /\ Len(s) = n
  OBVIOUS
<1> QED BY <1>1

(* The blocks of a packet carry the angle the LiDAR had turned. *)
LEMMA PacketIs ==
  ASSUME Turning, cfg.strategy = "angle", NEW n \in Nat, NEW type,
         NEW good \in Nat, good <= Device(sensor.model).blocks
  PROVE  Handable(Packet(sensor, n, good, type))
<1> DEFINE blocks == Device(sensor.model).blocks
           layout == Layout(sensor)
           round == RoundBlocks(sensor)
           first == sensor.next + n
           turned(i) == (sensor.turn + (first + i - 1) \div round) * Round + sensor.fov[1]
                        + ((((first + i - 1) % round) * layout.num) \div layout.den)
                          * Step(sensor)
           angles == [i \in 1 .. blocks |-> turned(i) % Horizon]
           at == SubSeq(angles, 1, blocks)
           rests == [i \in 1 .. blocks |-> at[i] % Round]
           az == SubSeq(rests, 1, blocks)
           p == Packet(sensor, n, good, type)
<1>1. blocks \in Nat /\ sensor.next \in Nat /\ sensor.turn \in Nat /\ sensor.fov \in Fovs
  BY Devices DEF Turning, Sensor
<1>2. sensor.fov[1] \in Nat
  BY <1>1, Sectors, Angles
<1>3. layout.num \in Nat /\ layout.den \in Nat /\ layout.den > 0
  BY Layouts
<1>4. ASSUME NEW i \in 1 .. blocks PROVE turned(i) \in Int
  <2> DEFINE k == first + i - 1
  <2>1. k \in Nat
    BY <1>1
  <2>2. k \div round \in Int /\ k % round \in Int
    BY <2>1, RoundLength
  <2> HIDE DEF k, round, layout
  <2>3. ((k % round) * layout.num) \in Int
    BY <1>3, <2>2
  <2>4. ((k % round) * layout.num) \div layout.den \in Int
    BY <1>3, <2>3
  <2>5. (((k % round) * layout.num) \div layout.den) * Step(sensor) \in Int
    BY <2>4, RoundLength
  <2>6. (sensor.turn + k \div round) * Round \in Int
    BY <1>1, <2>2, Angles
  <2> QED BY <1>2, <2>5, <2>6 DEF k
<1> HIDE DEF turned
<1>5. \A i \in 1 .. blocks : angles[i] \in 0 .. Horizon - 1
  BY <1>4, Angles
<1>6. \A i \in 1 .. blocks : at[i] = angles[i]
  <2>1. angles \in [1 .. blocks -> 0 .. Horizon - 1]
    BY <1>5
  <2> HIDE DEF angles
  <2> QED BY <1>1, <2>1, WholePrefix
<1> HIDE DEF angles, at
<1>7. \A i \in 1 .. blocks : az[i] = at[i] % Round
  <2>1. \A i \in 1 .. blocks : at[i] % Round \in Nat
    BY <1>5, <1>6, Angles
  <2>2. rests \in [1 .. blocks -> Nat] /\ \A i \in 1 .. blocks : rests[i] = at[i] % Round
    BY <2>1, Zenon
  <2> HIDE DEF rests
  <2>3. \A i \in 1 .. blocks : az[i] = rests[i]
    BY <1>1, <2>2, WholePrefix
  <2> QED BY <2>2, <2>3
<1>8. p.at = at /\ p.az = az /\ p.good = good /\ p.cfg = cfg
  BY DEF Packet, at, angles, turned
<1> HIDE DEF p, at, az
<1> QED BY <1>1, <1>5, <1>6, <1>7, <1>8 DEF Handable, p

-----------------------------------------------------------------------------
(***************************************************************************)
(* The steps.                                                              *)
(***************************************************************************)
HandedWhole == \A l \in last : OfOneRound(l.cloud)
MechInv ==
  /\ Turning
  /\ cfg.strategy = "angle" => Kept(dec, cloud, <<>>) /\ HandedWhole

(* Marks of the history leave a cloud of the same blocks.                  *)
LEMMA Marked ==
  ASSUME NEW d, NEW c, NEW out, Kept(d, c, out), NEW w \in BOOLEAN, NEW m \in BOOLEAN
  PROVE  Kept(d, [c EXCEPT !.whole = w, !.missed = m], <<>>)
<1> DEFINE r == [c EXCEPT !.whole = w, !.missed = m]
<1>1. c \in Clouds
  BY DEF Kept
<1>2. r \in Clouds
  BY <1>1, Zenon DEF Clouds
<1>3. r.seen = c.seen /\ r.rounds = c.rounds /\ r.gap = c.gap
  BY <1>1 DEF Clouds
<1> HIDE DEF r
<1>4. Following(d.angle, r)
  BY <1>3 DEF Kept, Following, Far
<1>5. <<>> \in Seq(HandedOver)
  OBVIOUS
<1>6. Kept(d, r, <<>>)
  BY <1>2, <1>4, <1>5 DEF Kept
<1> QED BY <1>6 DEF r

LEMMA MarkedWhole ==
  ASSUME NEW d, NEW c, NEW out, Kept(d, c, out), NEW w \in BOOLEAN
  PROVE  Kept(d, [c EXCEPT !.whole = w], <<>>)
<1>1. c \in Clouds
  BY DEF Kept
<1>2. c.missed \in BOOLEAN
  BY <1>1 DEF Clouds
<1>3. Kept(d, [c EXCEPT !.whole = w, !.missed = c.missed], <<>>)
  BY <1>2, Marked
<1>4. [c EXCEPT !.whole = w, !.missed = c.missed] = [c EXCEPT !.whole = w]
  BY <1>1 DEF Clouds
<1> QED BY <1>3, <1>4

LEMMA MechStarts == MechInit => MechInv
<1> SUFFICES ASSUME MechInit PROVE MechInv
  OBVIOUS
<1>1. PICK m \in Sensors, mode \in ReturnModes, fov \in Fovs, install \in {"none", "normal"} :
        sensor = [model |-> m[1], lines |-> m[2], mode |-> mode, rps |-> 10,
                  fov |-> fov, install |-> install, turn |-> 0, next |-> 0]
  BY DEF MechInit
<1>2. m[1] \in Models /\ m[2] \in {0, 48, 96}
  BY SensorsAssumption DEF Models
<1>3. sensor \in Sensor
  BY <1>1, <1>2 DEF Sensor
<1>4. Rate(sensor.rps) /\ ToScale(sensor)
  BY <1>1, Default DEF MechInit
<1>5. Kept(dec, EmptyCloud, <<>>)
  <2>1. DOMAIN dec = Fields /\ dec.angle = SplitAngle
    BY DEF MechInit, MechStart, Fields
  <2>2. EmptyCloud \in Clouds /\ EmptyCloud.seen = {} /\ EmptyCloud.rounds = {}
    BY DEF EmptyCloud, Clouds
  <2>3. <<>> \in Seq(HandedOver)
    OBVIOUS
  <2> QED BY <2>1, <2>2, <2>3, Angles DEF Kept, Following
<1>6. Kept(dec, [EmptyCloud EXCEPT !.whole = FALSE, !.missed = TRUE], <<>>)
  BY <1>5, Marked
<1>7. HandedWhole
  BY DEF MechInit, HandedWhole
<1>8. cloud = [EmptyCloud EXCEPT !.whole = FALSE, !.missed = TRUE]
  BY DEF MechInit
<1> QED BY <1>3, <1>4, <1>6, <1>7, <1>8 DEF MechInv, Turning

\* What isNewFrame leaves alone.
SameButPre(d, e) ==
  DOMAIN e = Fields /\ \A f \in Fields \ {"preAngle", "preBlks"} : e[f] = d[f]

LEMMA Asked ==
  ASSUME NEW d, DOMAIN d = Fields, NEW p
  PROVE  SameButPre(d, IsNewFrame(d, p).dec)
<1>1. ASSUME NEW e, NEW x, NEW y, e = [d EXCEPT !.preAngle = x, !.preBlks = y]
      PROVE  SameButPre(d, e)
  BY <1>1 DEF SameButPre
<1> DEFINE seen == CHOOSE f : f = [i \in 0 .. p.good |->
             IF i = 0 THEN [d |-> [d EXCEPT !.angle = d.preAngle, !.blks = d.preBlks],
                            new |-> FALSE]
             ELSE AskBlock(f[i - 1], p, i)]
           end == IF p.type # 0 THEN seen[0] ELSE seen[p.good]
<1>2. IsNewFrame(d, p).dec = [d EXCEPT !.preAngle = end.d.angle, !.preBlks = end.d.blks]
  BY Zenon DEF IsNewFrame
<1> HIDE DEF seen, end
<1> DEFINE x == end.d.angle
           y == end.d.blks
<1>3. IsNewFrame(d, p).dec = [d EXCEPT !.preAngle = x, !.preBlks = y]
  BY <1>2
<1> HIDE DEF x, y
<1> QED BY <1>1, <1>3

LEMMA ProcessKeeps ==
  ASSUME MechInv, cfg.strategy = "angle", NEW p, Handable(p), Process(p)
  PROVE  Kept(dec', cloud', <<>>) /\ HandedWhole'
<1> DEFINE asked == IsNewFrame(dec, p)
           r == DecodeMsop(sensor.model, asked.dec, cloud, p)
           spoilt == p.good < Len(p.az)
<1>1. Kept(dec, cloud, <<>>) /\ HandedWhole /\ sensor.model \in Models
  BY DEF MechInv, Turning, Sensor
<1>2. Kept(asked.dec, cloud, <<>>)
  <2>1. DOMAIN dec = Fields
    BY <1>1 DEF Kept
  <2>2. SameButPre(dec, asked.dec)
    BY <2>1, Asked
  <2> QED BY <1>1, <2>2 DEF SameButPre, Kept, Fields
<1>3. CASE dec.wait /\ ~dec.ready
  <2>1. dec' = asked.dec /\ cloud' = cloud /\ last' = last
    BY <1>3 DEF Process
  <2> QED BY <1>1, <1>2, <2>1 DEF HandedWhole
<1>4. CASE ~(dec.wait /\ ~dec.ready)
  <2>1. Kept(r.dec, r.cloud, r.out)
    BY <1>1, <1>2, MsopKeeps
  <2>2. /\ dec' = r.dec
        /\ cloud' = [r.cloud EXCEPT !.whole = @ /\ ~spoilt, !.missed = @ \/ spoilt]
        /\ last' = IF r.out = <<>> THEN last
                   ELSE {[cloud |-> r.out[Len(r.out)].cloud, inStep |-> InStep(sensor, r.dec),
                          round |-> RoundBlocks(sensor)]}
    BY <1>4 DEF Process
  <2> HIDE DEF r, spoilt
  <2>3. Kept(dec', cloud', <<>>)
    <3>1. (r.cloud.whole /\ ~spoilt) \in BOOLEAN /\ (r.cloud.missed \/ spoilt) \in BOOLEAN
      BY Zenon
    <3>2. cloud' = [r.cloud EXCEPT !.whole = (r.cloud.whole /\ ~spoilt),
                                   !.missed = (r.cloud.missed \/ spoilt)]
      BY <2>2, Zenon
    <3>3. Kept(r.dec, [r.cloud EXCEPT !.whole = (r.cloud.whole /\ ~spoilt),
                                     !.missed = (r.cloud.missed \/ spoilt)], <<>>)
      BY <2>1, <3>1, Marked
    <3> QED BY <2>2, <3>2, <3>3, Zenon
  <2>4. HandedWhole'
    <3>1. CASE r.out = <<>>
      BY <1>1, <2>2, <3>1 DEF HandedWhole
    <3>2. CASE r.out # <<>>
      <4>1. r.out \in Seq(HandedOver)
        BY <2>1 DEF Kept
      <4>2. r.out[Len(r.out)] \in HandedOver
        BY <3>2, <4>1
      <4>3. OfOneRound(r.out[Len(r.out)].cloud)
        BY <4>2 DEF HandedOver
      <4>4. \A l \in last' : l.cloud = r.out[Len(r.out)].cloud
        BY <2>2, <3>2
      <4> QED BY <4>3, <4>4, Zenon DEF HandedWhole
    <3> QED BY <3>1, <3>2
  <2> QED BY <2>3, <2>4
<1> QED BY <1>3, <1>4

LEMMA TurnsOn ==
  ASSUME Turning, NEW n \in Nat, sensor' = Turned(sensor, n)
  PROVE  Turning'
<1>1. sensor \in Sensor /\ Rate(sensor.rps) /\ ToScale(sensor)
  BY DEF Turning
<1> DEFINE t == (sensor.turn + (sensor.next + n) \div RoundBlocks(sensor)) % 3
           k == (sensor.next + n) % RoundBlocks(sensor)
<1>2. t \in 0 .. 2 /\ k \in Nat
  <2>1. sensor.next + n \in Nat /\ sensor.turn \in Nat
    BY <1>1 DEF Sensor
  <2>2. (sensor.next + n) \div RoundBlocks(sensor) \in Nat /\ k \in Nat
    BY <2>1, RoundLength
  <2> QED BY <2>1, <2>2
<1>3. sensor' = [sensor EXCEPT !.turn = t, !.next = k]
  BY DEF Turned
<1> HIDE DEF t, k
<1>4. sensor' \in Sensor
  <2>1. \A x \in 0 .. 2, y \in Nat : [sensor EXCEPT !.turn = x, !.next = y] \in Sensor
    BY <1>1, Zenon DEF Sensor
  <2> QED BY <1>2, <1>3, <2>1
<1>5. /\ sensor'.model = sensor.model /\ sensor'.lines = sensor.lines
      /\ sensor'.mode = sensor.mode /\ sensor'.rps = sensor.rps /\ sensor'.fov = sensor.fov
  BY <1>1, <1>3 DEF Sensor
<1>6. Layout(sensor') = Layout(sensor)
  BY <1>5 DEF Layout
<1>7. RoundBlocks(sensor') = RoundBlocks(sensor)
  BY <1>5, <1>6, Zenon DEF RoundBlocks, Step, Sector
<1>8. ToScale(sensor')
  BY <1>1, <1>5, <1>7 DEF ToScale
<1> QED BY <1>1, <1>4, <1>5, <1>8 DEF Turning

LEMMA MsopStep ==
  ASSUME MechInv, Msop \/ DamagedMsop \/ OtherMsop
  PROVE  MechInv'
<1> DEFINE blocks == Device(sensor.model).blocks
<1>1. Turning /\ sensor.model \in Models
  BY DEF MechInv, Turning, Sensor
<1>2. blocks \in Nat /\ blocks > 0
  BY <1>1, Devices
<1> HIDE DEF blocks
<1>3. /\ cfg' = cfg
      /\ sensor' = Turned(sensor, blocks) \/ sensor' = sensor
      /\ \E good \in {1, blocks}, type \in {0, 1} : Process(Packet(sensor, 0, good, type))
  BY DEF Msop, DamagedMsop, OtherMsop, blocks
<1>4. Turning'
  <2>1. CASE sensor' = Turned(sensor, blocks)
    BY <1>1, <1>2, <2>1, TurnsOn
  <2>2. CASE sensor' = sensor
    BY <1>1, <2>2 DEF Turning
  <2> QED BY <1>3, <2>1, <2>2
<1>5. ASSUME cfg.strategy = "angle" PROVE Kept(dec', cloud', <<>>) /\ HandedWhole'
  <2>1. PICK good \in {1, blocks}, type \in {0, 1} : Process(Packet(sensor, 0, good, type))
    BY <1>3
  <2>2. good \in Nat /\ good <= blocks
    BY <1>2
  <2>3. Handable(Packet(sensor, 0, good, type))
    BY <1>1, <1>5, <2>2, PacketIs DEF blocks
  <2> QED BY <1>5, <2>1, <2>3, ProcessKeeps
<1> QED BY <1>3, <1>4, <1>5 DEF MechInv

LEMMA LostStep == ASSUME MechInv, Lost PROVE MechInv'
<1> DEFINE blocks == Device(sensor.model).blocks
           aRound == (RoundBlocks(sensor) + blocks - 1) \div blocks
<1>1. Turning /\ sensor.model \in Models
  BY DEF MechInv, Turning, Sensor
<1>2. blocks \in Nat /\ blocks > 0
  BY <1>1, Devices
<1>3. RoundBlocks(sensor) \in Nat /\ RoundBlocks(sensor) >= 2 * blocks
  BY <1>1, RoundLength DEF Turning, ToScale
<1>4. aRound \in Nat /\ aRound > 0
  <2> HIDE DEF blocks
  <2>1. RoundBlocks(sensor) + blocks - 1 \in Nat /\ RoundBlocks(sensor) + blocks - 1 >= blocks
    BY <1>2, <1>3
  <2> QED BY <1>2, <2>1
<1>5. PICK n \in {1, aRound - 1, aRound} : sensor' = Turned(sensor, n * blocks)
  BY DEF Lost
<1>6. n * blocks \in Nat
  BY <1>2, <1>4
<1>7. Turning'
  BY <1>1, <1>5, <1>6, TurnsOn
<1>8. /\ cfg' = cfg /\ dec' = dec /\ last' = last
      /\ cloud' = [cloud EXCEPT !.whole = FALSE, !.missed = TRUE]
  BY DEF Lost
<1>9. cfg.strategy = "angle" => Kept(dec', cloud', <<>>) /\ HandedWhole'
  BY <1>8, Marked DEF MechInv, HandedWhole
<1> QED BY <1>7, <1>8, <1>9 DEF MechInv

LEMMA DifopStep == ASSUME MechInv, Difop PROVE MechInv'
<1>1. PICK cali \in BOOLEAN, rps \in {sensor.rps, 0} :
        LET q == [mode |-> sensor.mode, rps |-> rps, fov |-> sensor.fov,
                  cali |-> cali, install |-> sensor.install]
            d == DecodeDifop(sensor.model, dec, q)
        IN  /\ dec' = d
            /\ cloud' = [cloud EXCEPT !.whole = @ /\ [d EXCEPT !.ready = dec.ready] = dec]
  BY DEF Difop
<1> DEFINE q == [mode |-> sensor.mode, rps |-> rps, fov |-> sensor.fov,
                 cali |-> cali, install |-> sensor.install]
           same == [dec' EXCEPT !.ready = dec.ready] = dec
<1>2. /\ dec' = DecodeDifop(sensor.model, dec, q)
      /\ cloud' = [cloud EXCEPT !.whole = (cloud.whole /\ same)]
  BY <1>1
<1> HIDE DEF q, same
<1>3. cfg' = cfg /\ sensor' = sensor /\ last' = last
  BY DEF Difop
<1>4. Turning /\ sensor.model \in Models
  BY DEF MechInv, Turning, Sensor
<1>5. ASSUME cfg.strategy = "angle" PROVE Kept(dec', cloud', <<>>) /\ HandedWhole'
  <2>1. Kept(dec, cloud, <<>>) /\ HandedWhole
    BY <1>5 DEF MechInv
  <2>2. DOMAIN dec = Fields
    BY <2>1 DEF Kept
  <2>3. Moveless(dec, dec')
    BY <1>2, <1>4, <2>2, DifopMoves
  <2>4. Kept(dec', cloud, <<>>)
    BY <2>1, <2>3, SettingsKeep
  <2>5. (cloud.whole /\ same) \in BOOLEAN
    BY Zenon
  <2>6. Kept(dec', cloud', <<>>)
    BY <1>2, <2>4, <2>5, MarkedWhole
  <2> QED BY <1>3, <2>1, <2>6 DEF HandedWhole
<1> QED BY <1>3, <1>4, <1>5 DEF MechInv, Turning

LEMMA SetUpAnew == ASSUME Turning, Reconfigure PROVE Turning'
<1>1. PICK mode \in ReturnModes, rps \in Speeds :
        sensor' = [sensor EXCEPT !.mode = mode, !.rps = rps,
                                 !.turn = (sensor.turn + 1) % 3, !.next = 0]
  BY DEF Reconfigure
<1>2. sensor \in Sensor
  BY DEF Turning
<1>3. (sensor.turn + 1) % 3 \in 0 .. 2 /\ rps \in Nat /\ Rate(rps)
  BY <1>2, SpeedsAssumption DEF Sensor, Rate
<1>4. sensor' \in Sensor /\ sensor'.rps = rps
  <2>1. \A m \in ReturnModes, r \in Nat, x \in 0 .. 2, y \in Nat :
          [sensor EXCEPT !.mode = m, !.rps = r, !.turn = x, !.next = y] \in Sensor
    BY <1>2, Zenon DEF Sensor
  <2>2. 0 \in Nat
    OBVIOUS
  <2>3. sensor' \in Sensor
    BY <1>1, <1>3, <2>1, <2>2, Zenon
  <2>4. sensor'.rps = rps
    BY <1>1, <1>2 DEF Sensor
  <2> QED BY <2>3, <2>4
<1>5. ToScale(sensor')
  BY DEF Reconfigure
<1> QED BY <1>3, <1>4, <1>5 DEF Turning

LEMMA ReconfigureStep == ASSUME MechInv, Reconfigure PROVE MechInv'
<1>1. Turning'
  BY SetUpAnew DEF MechInv
<1>2. /\ cfg' = cfg /\ dec' = dec /\ last' = last
      /\ cloud' = [cloud EXCEPT !.whole = FALSE, !.missed = TRUE]
  BY DEF Reconfigure
<1>3. cfg.strategy = "angle" => Kept(dec', cloud', <<>>) /\ HandedWhole'
  BY <1>2, Marked DEF MechInv, HandedWhole
<1> QED BY <1>1, <1>2, <1>3 DEF MechInv

(* The rotating LiDAR, the cloud being filled and the angle the decoder    *)
(* remembers stay in step, whichever packets are lost or damaged.          *)
THEOREM MechInvariant == MechSpec => []MechInv
<1>1. MechInit => MechInv
  BY MechStarts
<1>2. MechInv /\ [MechNext]_mechVars => MechInv'
  <2> SUFFICES ASSUME MechInv, [MechNext]_mechVars PROVE MechInv'
    OBVIOUS
  <2>1. CASE Msop \/ DamagedMsop \/ OtherMsop
    BY <2>1, MsopStep
  <2>2. CASE Lost
    BY <2>2, LostStep
  <2>3. CASE Difop
    BY <2>3, DifopStep
  <2>4. CASE Reconfigure
    BY <2>4, ReconfigureStep
  <2>5. CASE UNCHANGED mechVars
    BY <2>5 DEF mechVars, MechInv, Turning, HandedWhole
  <2> QED BY <2>1, <2>2, <2>3, <2>4, <2>5 DEF MechNext
<1> QED BY <1>1, <1>2, PTL DEF MechSpec

(* SplitStrategyByAngle gives no cloud points of two rounds, whichever     *)
(* packets were lost or damaged, unless the LiDAR turned unheard for a     *)
(* round or from the split angle over the zero angle.                      *)
THEOREM CloudsAreOfOneRound == MechSpec => []OneRoundPerCloud
<1>1. MechInv => OneRoundPerCloud
  <2> SUFFICES ASSUME MechInv, cfg.strategy = "angle",
                      NEW c \in {cloud} \cup {l.cloud : l \in last}
               PROVE  OfOneRound(c)
    BY DEF OneRoundPerCloud, OfOneRound
  <2>1. CASE c = cloud
    BY <2>1, FollowedIsOne DEF MechInv, Kept
  <2>2. CASE c \in {l.cloud : l \in last}
    BY <2>2 DEF MechInv, HandedWhole
  <2> QED BY <2>1, <2>2
<1> QED BY <1>1, MechInvariant, PTL

-----------------------------------------------------------------------------
(***************************************************************************)
(* Whole clouds.  The angles of a round rise from its first block to its   *)
(* last, over the zero angle if the visible sector lies across it, so that *)
(* just one of its blocks is a split; n is the number of blocks of a round *)
(* and a their angles.                                                     *)
(***************************************************************************)
Onward(from, o) == IF from + o < Round THEN from + o ELSE from + o - Round
Offset(s, k) == ((k * Layout(s).num) \div Layout(s).den) * Step(s)
Sweep(s) == [k \in 0 .. RoundBlocks(s) - 1 |-> Onward(s.fov[1], Offset(s, k))]
Rising(o, n) ==
  /\ o \in [0 .. n - 1 -> 0 .. Round - 1]
  /\ \A k, l \in 0 .. n - 1 : k <= l => o[k] <= o[l]
  /\ o[0] = 0 /\ o[n - 1] > 0
IsSweep(a, n) ==
  /\ n \in Nat /\ n > 1
  /\ \E from \in 0 .. Round - 1, o \in [0 .. n - 1 -> 0 .. Round - 1] :
       Rising(o, n) /\ a = [k \in 0 .. n - 1 |-> Onward(from, o[k])]
Before(n, k) == IF k = 0 THEN n - 1 ELSE k - 1
After(n, k) == IF k = n - 1 THEN 0 ELSE k + 1
CutsAt(a, n, k) == AngleSplit(a[Before(n, k)], a[k])

\* A whole cloud has every block since the split it started with; k is the
\* place in the round of the block to come.
SinceCut(a, n, c, k) ==
  \E s \in 0 .. n - 1 : /\ CutsAt(a, n, s) /\ c.blks \in 1 .. n
                        /\ s + c.blks = k \/ s + c.blks = k + n
SinceCount(d, c) == c.blks = d.blks + 1 /\ (d.blks = 0 \/ d.blks < d.split)
Tallied(how, a, n, d, c, k) ==
  /\ DOMAIN d = Fields
  /\ c \in Clouds /\ (c.seen = {} \/ \E at \in c.seen : c.seen = {at})
  /\ c.whole => ~c.missed
  /\ how = "angle" => /\ ~c.missed => d.angle = a[Before(n, k)]
                      /\ c.whole => SinceCut(a, n, c, k)
  /\ how = "fixed" => /\ d.blks \in Nat /\ d.split \in Int
                      /\ c.whole => SinceCount(d, c)
Exact(how, n, split) ==
  {h \in [cloud : Clouds, height : Nat] :
     h.cloud.whole => /\ how = "angle" => h.cloud.blks = n
                      /\ how = "fixed" /\ split > 1 => h.cloud.blks = split}

\* How the clouds of a LiDAR are counted.
How == IF cfg.strategy = "angle" THEN "angle"
       ELSE IF cfg.strategy = "fixed" /\ sensor.model \in CountedLidars THEN "fixed"
       ELSE "neither"
Lines ==
  \/ sensor.model \in Rotating /\ sensor.lines = 0
  \/ sensor.model \in {"RSAIRY", "RSFAIRY"} /\ sensor.lines \in {48, 96}
      /\ (dec.init => dec.lines \in {48, 96})
Settled(d) ==
  /\ Rate(d.rps)
  /\ d.perFrame = Round \div StepAt(d.rps)
  /\ d.split = IF d.echo = Dual THEN 2 * d.perFrame ELSE d.perFrame
CountedRight(l) ==
  l.cloud.whole =>
    /\ cfg.strategy = "angle" => l.cloud.blks = l.round
    /\ /\ cfg.strategy = "fixed" /\ sensor.model \in CountedLidars
       /\ Sector(sensor) = Round /\ l.inStep
       => l.cloud.blks = l.round
HandedExact == \A l \in last : CountedRight(l)
WholeInv ==
  /\ Turning /\ sensor.next \in 0 .. RoundBlocks(sensor) - 1
  /\ Lines
  /\ sensor.model \in CountedLidars => Settled(dec)
  /\ Tallied(How, Sweep(sensor), RoundBlocks(sensor), dec, cloud, sensor.next)
  /\ dec.wait /\ ~dec.ready => cloud.missed /\ ~cloud.whole
  /\ HandedExact

LEMMA InSweep ==
  ASSUME NEW a, NEW n, IsSweep(a, n)
  PROVE  /\ n \in Nat /\ n > 1 /\ a \in [0 .. n - 1 -> 0 .. Round - 1]
         /\ \A k \in 0 .. n - 1 : Before(n, k) \in 0 .. n - 1 /\ After(n, k) \in 0 .. n - 1
<1>1. n \in Nat /\ n > 1
  BY DEF IsSweep
<1>2. PICK from \in 0 .. Round - 1, o \in [0 .. n - 1 -> 0 .. Round - 1] :
        a = [k \in 0 .. n - 1 |-> Onward(from, o[k])]
  BY DEF IsSweep
<1>3. \A k \in 0 .. n - 1 : Onward(from, o[k]) \in 0 .. Round - 1
  BY <1>2, Angles DEF Onward
<1> QED BY <1>1, <1>2, <1>3 DEF Before, After

(* Two angles a step passes the split angle between, and what others may   *)
(* do: w, x, y and z are offsets from the start of a round.                *)
LEMMA CutOnce ==
  ASSUME NEW from \in 0 .. Round - 1, NEW w \in 0 .. Round - 1, NEW x \in 0 .. Round - 1,
         NEW y \in 0 .. Round - 1, NEW z \in 0 .. Round - 1
  PROVE  /\ w <= x /\ x <= y /\ y <= z =>
              ~(AngleSplit(Onward(from, w), Onward(from, x))
                /\ AngleSplit(Onward(from, y), Onward(from, z)))
         /\ y <= z /\ z <= x /\ x > 0 =>
              ~(AngleSplit(Onward(from, x), Onward(from, 0))
                /\ AngleSplit(Onward(from, y), Onward(from, z)))
         /\ w <= x /\ (z <= w \/ x <= z) /\ AngleSplit(Onward(from, w), Onward(from, x)) =>
              ~AngleSplit(Onward(from, x), Onward(from, z))
         /\ z <= x /\ x > 0 /\ AngleSplit(Onward(from, x), Onward(from, 0)) =>
              ~AngleSplit(Onward(from, 0), Onward(from, z))
<1>1. Round \in Nat /\ Round > 0 /\ SplitAngle \in 0 .. Round - 1
  BY Angles
<1>2. w <= x /\ x <= y /\ y <= z =>
         ~(AngleSplit(Onward(from, w), Onward(from, x))
           /\ AngleSplit(Onward(from, y), Onward(from, z)))
  BY <1>1, SMTT(30) DEF AngleSplit, Onward
<1>3. y <= z /\ z <= x /\ x > 0 =>
         ~(AngleSplit(Onward(from, x), Onward(from, 0))
           /\ AngleSplit(Onward(from, y), Onward(from, z)))
  BY <1>1, SMTT(30) DEF AngleSplit, Onward
<1>4. w <= x /\ (z <= w \/ x <= z) /\ AngleSplit(Onward(from, w), Onward(from, x)) =>
         ~AngleSplit(Onward(from, x), Onward(from, z))
  BY <1>1, SMTT(30) DEF AngleSplit, Onward
<1>5. z <= x /\ x > 0 /\ AngleSplit(Onward(from, x), Onward(from, 0)) =>
         ~AngleSplit(Onward(from, 0), Onward(from, z))
  BY <1>1, SMTT(30) DEF AngleSplit, Onward
<1> QED BY <1>2, <1>3, <1>4, <1>5

LEMMA OneCut ==
  ASSUME NEW a, NEW n, IsSweep(a, n), NEW k \in 0 .. n - 1, NEW l \in 0 .. n - 1,
         CutsAt(a, n, k), CutsAt(a, n, l)
  PROVE  k = l
<1>1. SUFFICES ASSUME NEW i \in 0 .. n - 1, NEW j \in 0 .. n - 1, i < j,
                      CutsAt(a, n, i), CutsAt(a, n, j)
               PROVE  FALSE
  BY DEF IsSweep
<1>2. PICK from \in 0 .. Round - 1, o \in [0 .. n - 1 -> 0 .. Round - 1] :
        Rising(o, n) /\ a = [m \in 0 .. n - 1 |-> Onward(from, o[m])]
  BY DEF IsSweep
<1>3. n \in Nat /\ n > 1 /\ j # 0 /\ Before(n, j) = j - 1 /\ j - 1 \in 0 .. n - 1 /\ i <= j - 1
      /\ n - 1 \in 0 .. n - 1 /\ j <= n - 1 /\ 0 \in 0 .. n - 1
  BY <1>1 DEF IsSweep, Before
<1> DEFINE h == o[Before(n, i)]
<1>4. /\ o[i] \in 0 .. Round - 1 /\ o[j - 1] \in 0 .. Round - 1 /\ o[j] \in 0 .. Round - 1
      /\ o[i] <= o[j - 1] /\ o[j - 1] <= o[j] /\ o[j] <= o[n - 1] /\ o[n - 1] \in 0 .. Round - 1
  BY <1>1, <1>2, <1>3 DEF Rising
<1>5. AngleSplit(Onward(from, o[j - 1]), Onward(from, o[j]))
  BY <1>1, <1>2, <1>3 DEF CutsAt
<1>6. CASE i = 0
  <2>1. AngleSplit(Onward(from, o[n - 1]), Onward(from, 0)) /\ o[n - 1] > 0
    BY <1>1, <1>2, <1>3, <1>6 DEF CutsAt, Before, Rising
  <2> QED BY <1>4, <1>5, <2>1, CutOnce
<1>7. CASE i # 0
  <2>1. /\ i - 1 \in 0 .. n - 1 /\ Before(n, i) = i - 1
        /\ o[i - 1] \in 0 .. Round - 1 /\ o[i - 1] <= o[i]
    BY <1>1, <1>2, <1>3, <1>7 DEF Before, Rising
  <2>2. AngleSplit(Onward(from, o[i - 1]), Onward(from, o[i]))
    BY <1>1, <1>2, <2>1 DEF CutsAt
  <2> QED BY <1>4, <1>5, <2>1, <2>2, CutOnce
<1> QED BY <1>6, <1>7

(* A whole cloud is handed over with the blocks of a round, and one more   *)
(* block keeps it whole.                                                   *)
LEMMA CutOff ==
  ASSUME NEW a, NEW n, IsSweep(a, n), NEW k \in 0 .. n - 1, NEW c \in Clouds,
         SinceCut(a, n, c, k), CutsAt(a, n, k)
  PROVE  c.blks = n
<1>1. PICK s \in 0 .. n - 1 : /\ CutsAt(a, n, s) /\ c.blks \in 1 .. n
                              /\ s + c.blks = k \/ s + c.blks = k + n
  BY DEF SinceCut
<1>2. s = k
  BY <1>1, OneCut
<1> QED BY <1>1, <1>2 DEF IsSweep

LEMMA GoneOn ==
  ASSUME NEW a, NEW n, IsSweep(a, n), NEW k \in 0 .. n - 1, NEW c \in Clouds, NEW e,
         SinceCut(a, n, c, k), ~CutsAt(a, n, k), e.blks = c.blks + 1
  PROVE  SinceCut(a, n, e, After(n, k))
<1>1. PICK s \in 0 .. n - 1 : /\ CutsAt(a, n, s) /\ c.blks \in 1 .. n
                              /\ s + c.blks = k \/ s + c.blks = k + n
  BY DEF SinceCut
<1>2. s # k /\ n \in Nat /\ n > 1
  BY <1>1 DEF IsSweep
<1>3. e.blks \in 1 .. n
  BY <1>1, <1>2
<1>4. s + e.blks = After(n, k) \/ s + e.blks = After(n, k) + n
  BY <1>1, <1>2, <1>3 DEF After
<1> QED BY <1>1, <1>3, <1>4 DEF SinceCut

LEMMA BegunAtCut ==
  ASSUME NEW a, NEW n, IsSweep(a, n), NEW k \in 0 .. n - 1, NEW e,
         CutsAt(a, n, k), e.blks = 1
  PROVE  SinceCut(a, n, e, After(n, k))
<1>1. n \in Nat /\ n > 1
  BY DEF IsSweep
<1>2. e.blks \in 1 .. n
  BY <1>1
<1>3. k + e.blks = After(n, k) \/ k + e.blks = After(n, k) + n
  BY <1>1 DEF After
<1> QED BY <1>2, <1>3 DEF SinceCut

\* A packet of good blocks from place k of a round on.
Carries(how, p, a, n, k) ==
  /\ p.good \in Nat
  /\ \A i \in 1 .. p.good : p.at[i] \in 0 .. Horizon - 1 /\ p.az[i] = a[(k + i - 1) % n]
  /\ how \in {"angle", "fixed"} => p.cfg.strategy = how

LEMMA Added ==
  ASSUME NEW c \in Clouds, NEW at, NEW chans
  PROVE  /\ AddBlock(c, at, chans).whole = c.whole
         /\ AddBlock(c, at, chans).missed = FALSE
         /\ AddBlock(c, at, chans).blks = c.blks + 1
BY DEF AddBlock, Clouds

\* The settings of a decoder that blocks leave as they are.
SameSettings(d, e) == \A f \in Fields \ {"angle", "blks"} : d[f] = e[f]

LEMMA Appended == ASSUME NEW S, NEW q \in Seq(S), NEW x \in S PROVE Append(q, x) \in Seq(S)
OBVIOUS

LEMMA BlockTallies ==
  ASSUME NEW how, NEW a, NEW n, IsSweep(a, n), NEW k \in 0 .. n - 1,
         NEW dev, dev.chans \in Nat, NEW height \in Nat, NEW s,
         Tallied(how, a, n, s.dec, s.cloud, k), s.out \in Seq(Exact(how, n, s.dec.split)),
         NEW p, NEW i, p.at[i] \in 0 .. Horizon - 1, p.az[i] = a[k],
         how \in {"angle", "fixed"} => p.cfg.strategy = how
  PROVE  LET r == DecodeBlock(dev, height, s, p, i)
         IN  /\ Tallied(how, a, n, r.dec, r.cloud, After(n, k))
             /\ r.out \in Seq(Exact(how, n, s.dec.split))
             /\ SameSettings(r.dec, s.dec)
<1> DEFINE at == p.at[i]
           cut == IsSplit(s.dec, p.cfg, p.az[i])
           c == IF cut THEN [EmptyCloud EXCEPT !.whole = ~s.cloud.missed] ELSE s.cloud
           r == DecodeBlock(dev, height, s, p, i)
           max == MaxBlks(s.dec, p.cfg)
<1>1. /\ r.dec = NewBlock(s.dec, p.cfg, a[k])
      /\ r.cloud = AddBlock(c, at, dev.chans)
      /\ r.out = IF cut /\ s.cloud.blks > 0
                 THEN Append(s.out, [cloud |-> s.cloud, height |-> height]) ELSE s.out
  BY DEF DecodeBlock
<1>2. /\ DOMAIN s.dec = Fields /\ s.cloud \in Clouds
      /\ s.cloud.seen = {} \/ \E x \in s.cloud.seen : s.cloud.seen = {x}
      /\ s.cloud.whole => ~s.cloud.missed
  BY DEF Tallied
<1>3. /\ c \in Clouds /\ (c.seen = {} \/ \E x \in c.seen : c.seen = {x})
      /\ cut => c.blks = 0 /\ (c.whole <=> ~s.cloud.missed)
      /\ ~cut => c = s.cloud
  <2>1. CASE cut
    <3>1. (~s.cloud.missed) \in BOOLEAN
      OBVIOUS
    <3>2. c = [EmptyCloud EXCEPT !.whole = ~s.cloud.missed]
      BY <2>1
    <3>3. c.blks = 0 /\ (c.whole <=> ~s.cloud.missed)
      BY <3>2 DEF EmptyCloud
    <3> QED BY <2>1, <3>1, <3>2, <3>3, BegunEmpty
  <2>2. CASE ~cut
    BY <1>2, <2>2
  <2> QED BY <2>1, <2>2
<1>4. /\ DOMAIN r.dec = Fields /\ SameSettings(r.dec, s.dec)
      /\ p.cfg.strategy = "angle" => r.dec.angle = a[k]
      /\ p.cfg.strategy # "angle" => r.dec.blks = NumCount(s.dec.blks, max)
  BY <1>1, <1>2 DEF NewBlock, SameSettings, Fields
<1>5. /\ how = "angle" => (cut <=> AngleSplit(s.dec.angle, a[k]))
      /\ how = "fixed" => (cut <=> NumSplit(s.dec.blks, s.dec.split)) /\ max = s.dec.split
  BY DEF IsSplit, MaxBlks
<1> HIDE DEF r, c, cut, at, max
<1>6. /\ r.cloud \in Clouds /\ r.cloud.seen = {at}
      /\ (r.cloud.whole <=> c.whole) /\ r.cloud.missed = FALSE
      /\ r.cloud.blks = c.blks + 1
  <2>1. at \in 0 .. Horizon - 1
    BY DEF at
  <2>2. r.cloud \in Clouds /\ r.cloud.seen = {at}
    BY <1>1, <1>3, <2>1, Adds
  <2>3. /\ r.cloud.whole = c.whole /\ r.cloud.missed = FALSE
        /\ r.cloud.blks = c.blks + 1
    <3>1. c \in Clouds
      BY <1>3
    <3>2. /\ AddBlock(c, at, dev.chans).whole = c.whole
          /\ AddBlock(c, at, dev.chans).missed = FALSE
          /\ AddBlock(c, at, dev.chans).blks = c.blks + 1
      BY <3>1, Added, Zenon
    <3> QED BY <1>1, <3>2, Zenon
  <2> QED BY <2>2, <2>3
<1>7. n \in Nat /\ n > 1 /\ Before(n, After(n, k)) = k
  BY DEF IsSweep, Before, After
<1>8. ASSUME how = "angle"
      PROVE  /\ r.dec.angle = a[Before(n, After(n, k))]
             /\ r.cloud.whole => SinceCut(a, n, r.cloud, After(n, k))
             /\ cut /\ s.cloud.whole => s.cloud.blks = n
  <2>1. ~s.cloud.missed => (cut <=> CutsAt(a, n, k))
    BY <1>5, <1>8 DEF Tallied, CutsAt
  <2>2. s.cloud.whole => SinceCut(a, n, s.cloud, k)
    BY <1>8 DEF Tallied
  <2>3. ASSUME r.cloud.whole PROVE SinceCut(a, n, r.cloud, After(n, k))
    <3>1. CASE cut
      <4>1. CutsAt(a, n, k) /\ r.cloud.blks = 1
        BY <1>3, <1>6, <2>1, <2>3, <3>1
      <4> QED BY <4>1, BegunAtCut
    <3>2. CASE ~cut
      <4>1. ~CutsAt(a, n, k) /\ r.cloud.blks = s.cloud.blks + 1 /\ s.cloud.whole
        BY <1>2, <1>3, <1>6, <2>1, <2>3, <3>2
      <4> QED BY <1>2, <2>2, <4>1, GoneOn
    <3> QED BY <3>1, <3>2
  <2>4. ASSUME cut, s.cloud.whole PROVE s.cloud.blks = n
    BY <1>2, <2>1, <2>2, <2>4, CutOff
  <2> QED BY <1>4, <1>7, <1>8, <2>3, <2>4
<1>9. ASSUME how = "fixed"
      PROVE  /\ r.dec.blks \in Nat /\ r.dec.split \in Int
             /\ r.cloud.whole => SinceCount(r.dec, r.cloud)
             /\ cut /\ s.cloud.whole /\ s.dec.split > 1 => s.cloud.blks = s.dec.split
  <2>1. /\ s.dec.blks \in Nat /\ s.dec.split \in Int
        /\ s.cloud.whole => SinceCount(s.dec, s.cloud)
        /\ s.cloud.blks \in Nat
    BY <1>2, <1>9 DEF Tallied, Clouds
  <2>2. /\ cut <=> s.dec.blks + 1 >= s.dec.split
        /\ r.dec.blks = IF cut THEN 0 ELSE s.dec.blks + 1
    BY <1>4, <1>5, <1>9 DEF NumCount, NumSplit
  <2>3. r.dec.split = s.dec.split
    BY <1>4 DEF SameSettings, Fields
  <2>4. r.cloud.whole => SinceCount(r.dec, r.cloud)
    <3>1. CASE cut
      BY <1>3, <1>6, <2>1, <2>2, <3>1 DEF SinceCount
    <3>2. CASE ~cut
      BY <1>3, <1>6, <2>1, <2>2, <2>3, <3>2 DEF SinceCount
    <3> QED BY <3>1, <3>2
  <2>5. cut /\ s.cloud.whole /\ s.dec.split > 1 => s.cloud.blks = s.dec.split
    BY <2>1, <2>2 DEF SinceCount
  <2> QED BY <2>1, <2>2, <2>3, <2>4, <2>5
<1>10. Tallied(how, a, n, r.dec, r.cloud, After(n, k))
  BY <1>3, <1>4, <1>6, <1>8, <1>9 DEF Tallied
<1>11. r.out \in Seq(Exact(how, n, s.dec.split))
  <2>1. CASE cut
    <3> DEFINE h == [cloud |-> s.cloud, height |-> height]
    <3>1. h \in [cloud : Clouds, height : Nat] /\ h.cloud = s.cloud
      BY <1>2
    <3>2. s.cloud.whole => /\ how = "angle" => s.cloud.blks = n
                           /\ how = "fixed" /\ s.dec.split > 1 => s.cloud.blks = s.dec.split
      BY <1>8, <1>9, <2>1
    <3>3. r.out = s.out \/ r.out = Append(s.out, h)
      BY <1>1
    <3> HIDE DEF h
    <3>4. h \in Exact(how, n, s.dec.split)
      BY <3>1, <3>2 DEF Exact
    <3>5. Append(s.out, h) \in Seq(Exact(how, n, s.dec.split))
      BY <3>4, Appended, Zenon
    <3> QED BY <3>3, <3>5
  <2>2. CASE ~cut
    BY <1>1, <2>2
  <2> QED BY <2>1, <2>2
<1> QED BY <1>4, <1>10, <1>11 DEF r

-----------------------------------------------------------------------------
(***************************************************************************)
(* Places in a round.                                                      *)
(***************************************************************************)
LEMMA Multiple ==
  ASSUME NEW n \in Nat, n > 0, NEW z \in Int, -n < n * z, n * z < n PROVE z = 0
<1>1. z >= 1 => n * z >= n
  OBVIOUS
<1>2. z <= -1 => n * z <= -n
  OBVIOUS
<1> QED BY <1>1, <1>2

LEMMA Spread ==
  ASSUME NEW n \in Int, NEW x \in Int, NEW y \in Int
  PROVE n * (x - y) = n * x - n * y /\ n * x \in Int
OBVIOUS

(* A quotient and a remainder are the only ones. *)
LEMMA Remainder ==
  ASSUME NEW n \in Nat, n > 0, NEW q \in Int, NEW r \in 0 .. n - 1
  PROVE  (n * q + r) % n = r /\ (n * q + r) \div n = q
<1> DEFINE x == n * q + r
           y == x \div n
<1>1. x \in Int /\ n * q \in Int
  BY Spread
<1> HIDE DEF x
<1>2. y \in Int /\ x % n \in 0 .. n - 1 /\ x = n * y + (x % n)
  BY <1>1, Dividing
<1> HIDE DEF y
<1>3. n * y \in Int
  BY <1>2, Spread
<1>4. n * q - n * y = (x % n) - r
  BY <1>1, <1>2, <1>3 DEF x
<1>5. n * (q - y) = n * q - n * y
  BY <1>2, Spread
<1>6. -n < n * (q - y) /\ n * (q - y) < n
  BY <1>2, <1>4, <1>5
<1>7. q - y = 0
  BY <1>2, <1>6, Multiple
<1>8. y = q
  BY <1>2, <1>7
<1>9. x % n = r
  BY <1>1, <1>2, <1>3, <1>4, <1>8
<1> QED BY <1>8, <1>9 DEF x, y

(* The place of the next block. *)
LEMMA Successor ==
  ASSUME NEW n \in Nat, n > 0, NEW m \in Nat
  PROVE  m % n \in 0 .. n - 1 /\ (m + 1) % n = After(n, m % n)
<1> DEFINE q == m \div n
           r == m % n
<1>1. q \in Int /\ r \in 0 .. n - 1 /\ m = n * q + r
  BY Dividing
<1> HIDE DEF q, r
<1>2. n * q \in Int /\ n * (q + 1) = n * q + n
  BY <1>1
<1>3. CASE r = n - 1
  <2>1. m + 1 = n * (q + 1) + 0
    BY <1>1, <1>2, <1>3
  <2>2. (n * (q + 1) + 0) % n = 0
    <3>1. q + 1 \in Int /\ 0 \in 0 .. n - 1
      BY <1>1
    <3> QED BY <3>1, Remainder
  <2>3. (m + 1) % n = 0
    BY <2>1, <2>2
  <2> QED BY <1>1, <1>3, <2>3 DEF After, r
<1>4. CASE r # n - 1
  <2>1. m + 1 = n * q + (r + 1) /\ r + 1 \in 0 .. n - 1
    BY <1>1, <1>2, <1>4
  <2>2. (n * q + (r + 1)) % n = r + 1
    BY <1>1, <2>1, Remainder
  <2> QED BY <1>1, <1>4, <2>1, <2>2 DEF After, r
<1> QED BY <1>3, <1>4

(* The angle of a block, whatever number of rounds the LiDAR turned. *)
LEMMA TurnedBy ==
  ASSUME NEW t \in Nat, NEW y \in 0 .. Round - 1
  PROVE  /\ (t * Round + y) % Horizon \in 0 .. Horizon - 1
         /\ ((t * Round + y) % Horizon) % Round = y
<1> DEFINE q == t \div 3
           r == t % 3
           z == r * Round + y
<1>1. Round \in Nat /\ Round > 0 /\ Horizon \in Nat /\ Horizon > 0 /\ Horizon = 3 * Round
  BY Angles
<1>2. q \in Int /\ r \in 0 .. 2 /\ t = 3 * q + r
  OBVIOUS
<1> HIDE DEF q, r
<1>3. z \in 0 .. Horizon - 1 /\ z % Round = y
  <2>1. CASE r = 0
    BY <1>1, <2>1
  <2>2. CASE r = 1
    <3>1. z = Round * 1 + y
      BY <1>1, <2>2
    <3>2. (Round * 1 + y) % Round = y
      BY <1>1, Remainder
    <3> QED BY <1>1, <2>2, <3>1, <3>2
  <2>3. CASE r = 2
    <3>1. z = Round * 2 + y
      BY <1>1, <2>3
    <3>2. (Round * 2 + y) % Round = y
      BY <1>1, Remainder
    <3> QED BY <1>1, <2>3, <3>1, <3>2
  <2> QED BY <1>2, <2>1, <2>2, <2>3
<1>4. t * Round + y = Horizon * q + z
  <2>1. t * Round = 3 * q * Round + r * Round
    BY <1>1, <1>2
  <2> QED BY <1>1, <1>2, <2>1
<1> HIDE DEF z
<1>5. (Horizon * q + z) % Horizon = z
  BY <1>1, <1>2, <1>3, Remainder
<1> QED BY <1>3, <1>4, <1>5

LEMMA TurnedAngle ==
  ASSUME NEW t \in Nat, NEW from \in 0 .. Round - 1, NEW o \in 0 .. Round - 1
  PROVE  /\ (t * Round + from + o) % Horizon \in 0 .. Horizon - 1
         /\ ((t * Round + from + o) % Horizon) % Round = Onward(from, o)
<1> DEFINE y == Onward(from, o)
           u == IF from + o < Round THEN t ELSE t + 1
<1>1. u \in Nat /\ y \in 0 .. Round - 1
  BY Angles DEF Onward
<1>2. (t + 1) * Round = t * Round + Round /\ t * Round \in Int
  BY Angles
<1>3. t * Round + from + o = u * Round + y
  BY <1>2, Angles DEF Onward
<1> HIDE DEF u, y
<1>4. (u * Round + y) % Horizon \in 0 .. Horizon - 1 /\ ((u * Round + y) % Horizon) % Round = y
  BY <1>1, TurnedBy
<1> QED BY <1>3, <1>4 DEF y

LEMMA BlocksTally ==
  ASSUME NEW how, NEW a, NEW n, IsSweep(a, n), NEW k \in 0 .. n - 1,
         NEW dev, dev.chans \in Nat, NEW height \in Nat, NEW d, NEW c,
         Tallied(how, a, n, d, c, k), NEW p, Carries(how, p, a, n, k), NEW times
  PROVE  LET r == InternDecode(dev, height, d, c, p, times)
         IN  /\ Tallied(how, a, n, r.dec, r.cloud, (k + p.good) % n)
             /\ r.out \in Seq(Exact(how, n, d.split))
             /\ SameSettings(r.dec, d)
<1>1. p.good \in Nat /\ n \in Nat /\ n > 0
  BY DEF Carries, IsSweep
<1>2. PICK f : /\ AreDone(f, p.good, dev, height, d, c, p)
               /\ InternDecode(dev, height, d, c, p, times) =
                     [dec |-> f[p.good].dec, cloud |-> f[p.good].cloud, out |-> f[p.good].out,
                      new |-> f[p.good].new, times |-> times]
  BY <1>1, BlocksDone
<1>3. \A i \in 0 .. p.good :
        f[i] = IF i = 0 THEN Undecoded(d, c) ELSE DecodeBlock(dev, height, f[i - 1], p, i)
  BY <1>2 DEF AreDone
<1> DEFINE Good(s, m) == /\ Tallied(how, a, n, s.dec, s.cloud, (k + m) % n)
                         /\ s.out \in Seq(Exact(how, n, d.split))
                         /\ SameSettings(s.dec, d)
           S == {m \in 0 .. p.good : ~Good(f[m], m)}
<1>4. ASSUME S # {} PROVE FALSE
  <2>1. S \subseteq Nat
    BY <1>1
  <2>2. PICK m \in S : \A j \in S : ~(<<j, m>> \in OpToRel(<, Nat))
    BY <1>4, <2>1, NatLessThanWellFounded, WFMin
  <2>3. m \in 0 .. p.good /\ ~Good(f[m], m)
    OBVIOUS
  <2>4. CASE m = 0
    <3>1. f[0] = Undecoded(d, c)
      BY <1>1, <1>3
    <3>2. (k + 0) % n = k
      BY <1>1
    <3>3. /\ Undecoded(d, c).dec = d /\ Undecoded(d, c).cloud = c
          /\ Undecoded(d, c).out = <<>> /\ SameSettings(d, d)
      BY DEF Undecoded, SameSettings
    <3> QED BY <2>3, <2>4, <3>1, <3>2, <3>3
  <2>5. CASE m # 0
    <3> DEFINE s == f[m - 1]
               j == (k + (m - 1)) % n
               r == DecodeBlock(dev, height, s, p, m)
    <3>1. m - 1 \in 0 .. p.good /\ m \in 1 .. p.good /\ m - 1 < m /\ m \in Nat /\ m - 1 \in Nat
      BY <1>1, <2>3, <2>5
    <3>2. <<m - 1, m>> \in OpToRel(<, Nat)
      BY <3>1 DEF OpToRel
    <3>3. Good(s, m - 1)
      BY <2>2, <3>1, <3>2
    <3>4. f[m] = r
      BY <1>3, <2>3, <2>5
    <3>5. k + (m - 1) \in Nat /\ k + (m - 1) + 1 = k + m /\ k + m - 1 = k + (m - 1)
      BY <1>1, <3>1
    <3>6. j \in 0 .. n - 1 /\ (k + m) % n = After(n, j)
      BY <1>1, <3>5, Successor
    <3>7. p.at[m] \in 0 .. Horizon - 1 /\ p.az[m] = a[j]
      BY <3>1, <3>5 DEF Carries
    <3>8. how \in {"angle", "fixed"} => p.cfg.strategy = how
      BY DEF Carries
    <3>9. s.dec.split = d.split
      BY <3>3 DEF SameSettings, Fields
    <3> HIDE DEF s, j
    <3>10. /\ Tallied(how, a, n, r.dec, r.cloud, After(n, j))
           /\ r.out \in Seq(Exact(how, n, s.dec.split))
           /\ SameSettings(r.dec, s.dec)
      <4>1. Tallied(how, a, n, s.dec, s.cloud, j) /\ s.out \in Seq(Exact(how, n, s.dec.split))
        BY <3>3, <3>9 DEF j
      <4> QED BY <3>6, <3>7, <3>8, <4>1, BlockTallies
    <3> HIDE DEF r
    <3>11. SameSettings(r.dec, d)
      BY <3>3, <3>10 DEF SameSettings
    <3>12. Good(r, m)
      BY <3>6, <3>9, <3>10, <3>11
    <3> QED BY <2>3, <3>4, <3>12
  <2> QED BY <2>4, <2>5
<1>5. Good(f[p.good], p.good)
  BY <1>1, <1>4
<1> QED BY <1>2, <1>5

-----------------------------------------------------------------------------
(***************************************************************************)
(* The decoders again: what the blocks of a packet do to the count.        *)
(***************************************************************************)
Columned == {"RSAIRY", "RSFAIRY"}
Learnt(d) == d.init => d.lines \in {48, 96}

LEMMA SetupTallies ==
  ASSUME NEW how, NEW a, NEW n, NEW k, NEW d, NEW c, Tallied(how, a, n, d, c, k),
         NEW model \in Models, how = "fixed" => model \in CountedLidars, NEW p, NEW e,
         Setup(model, d, e, p), model \in Columned => p.lines \in {48, 96} /\ Learnt(d)
  PROVE  /\ Tallied(how, a, n, e, c, k)
         /\ how = "fixed" => e.split = d.split
         /\ model \in CountedLidars => \A f \in Fields \ {"init"} : e[f] = d[f]
         /\ model \in Columned => Learnt(e)
         /\ e.wait = d.wait /\ (d.ready => e.ready)
         /\ Unknown(model, e, p) => p.type # 0
<1>1. Moveless(d, e) /\ DOMAIN d = Fields
  BY DEF Setup, Tallied
<1>2. model \in CountedLidars => \A f \in Fields \ {"init"} : e[f] = d[f]
  BY <1>1 DEF Setup, Fields
<1>3. how = "fixed" => e.split = d.split /\ e.blks = d.blks
  BY <1>2 DEF Fields
<1>4. Tallied(how, a, n, e, c, k)
  BY <1>1, <1>3 DEF Tallied, Moveless, SinceCount
<1>5. model \in Columned => Learnt(e)
  BY DEF Setup, Columned, Learnt
<1>6. Unknown(model, e, p) => p.type # 0
  BY DEF Unknown, Setup, Columned, Learnt
<1> QED BY <1>1, <1>2, <1>3, <1>4, <1>5, <1>6 DEF Moveless

Msops(how, a, n, model, d, p, k, r) ==
  /\ \/ /\ Tallied(how, a, n, r.dec, r.cloud, (k + p.good) % n)
        /\ model \in Columned => p.type = 0
     \/ p.type # 0 /\ Tallied(how, a, n, r.dec, r.cloud, k)
  /\ r.out \in Seq(Exact(how, n, d.split))
  /\ model \in CountedLidars => \A f \in Fields \ {"angle", "blks", "init"} : r.dec[f] = d[f]
  /\ model \in Columned => Learnt(r.dec)
  /\ r.dec.wait = d.wait /\ (d.ready => r.dec.ready)

LEMMA MsopTallies ==
  ASSUME NEW how, NEW a, NEW n, IsSweep(a, n), NEW k \in 0 .. n - 1, NEW d, NEW c,
         Tallied(how, a, n, d, c, k), NEW model \in Models,
         how = "fixed" => model \in CountedLidars, NEW p, Carries(how, p, a, n, k),
         model \in Columned => p.lines \in {48, 96} /\ Learnt(d)
  PROVE  Msops(how, a, n, model, d, p, k, DecodeMsop(model, d, c, p))
<1> DEFINE r == DecodeMsop(model, d, c, p)
<1>1. DOMAIN d = Fields
  BY DEF Tallied
<1>2. Understood(model, d, c, p, r)
  BY <1>1, MsopIs
<1> HIDE DEF r
<1>4. ASSUME NEW dev, NEW height, NEW e, NEW times, dev.chans \in Nat, height \in Nat,
             Setup(model, d, e, p), ~Unknown(model, e, p),
             r = InternDecode(dev, height, e, c, p, times)
      PROVE  Msops(how, a, n, model, d, p, k, r)
  <2>1. /\ Tallied(how, a, n, e, c, k)
        /\ how = "fixed" => e.split = d.split
        /\ model \in CountedLidars => \A f \in Fields \ {"init"} : e[f] = d[f]
        /\ model \in Columned => Learnt(e)
        /\ e.wait = d.wait /\ (d.ready => e.ready)
    BY <1>4, SetupTallies
  <2>2. /\ Tallied(how, a, n, r.dec, r.cloud, (k + p.good) % n)
        /\ r.out \in Seq(Exact(how, n, e.split))
        /\ SameSettings(r.dec, e)
    BY <1>4, <2>1, BlocksTally
  <2>3. Exact(how, n, e.split) = Exact(how, n, d.split)
    BY <2>1, Zenon DEF Exact
  <2>4. model \in CountedLidars =>
          \A f \in Fields \ {"angle", "blks", "init"} : r.dec[f] = d[f]
    BY <2>1, <2>2 DEF SameSettings
  <2>5. /\ r.dec.wait = e.wait /\ r.dec.ready = e.ready
        /\ r.dec.init = e.init /\ r.dec.lines = e.lines
    BY <2>2 DEF SameSettings, Fields
  <2>6. model \in Columned => Learnt(r.dec)
    BY <2>1, <2>5 DEF Learnt
  <2>7. model \in Columned => p.type = 0
    BY <1>4 DEF Unknown, Columned
  <2> QED BY <2>1, <2>2, <2>3, <2>4, <2>5, <2>6, <2>7 DEF Msops
<1>5. ASSUME NEW e, Setup(model, d, e, p), Unknown(model, e, p), r = Refused(e, c)
      PROVE  Msops(how, a, n, model, d, p, k, r)
  <2>1. /\ Tallied(how, a, n, e, c, k)
        /\ model \in CountedLidars => \A f \in Fields \ {"init"} : e[f] = d[f]
        /\ model \in Columned => Learnt(e)
        /\ e.wait = d.wait /\ (d.ready => e.ready)
        /\ p.type # 0
    BY <1>5, SetupTallies
  <2>2. r.dec = e /\ r.cloud = c /\ r.out = <<>>
    BY <1>5 DEF Refused
  <2> QED BY <2>1, <2>2 DEF Msops
<1>6. Msops(how, a, n, model, d, p, k, r)
  BY <1>2, <1>4, <1>5 DEF Understood
<1> QED BY <1>6 DEF r

-----------------------------------------------------------------------------
(***************************************************************************)
(* The LiDAR sends such rounds.                                            *)
(***************************************************************************)
(* How far a block turns the LiDAR, in steps of a block turn. *)
LEMMA StepsRise ==
  ASSUME NEW k \in Nat, NEW l \in Nat, k <= l, NEW num \in {1, 2}, NEW den \in {1, 2, 4}
  PROVE  /\ (k * num) \div den \in Nat /\ (l * num) \div den \in Nat
         /\ (k * num) \div den <= (l * num) \div den
<1>1. CASE num = 1 /\ den = 1
  BY <1>1
<1>2. CASE num = 1 /\ den = 2
  BY <1>2
<1>3. CASE num = 1 /\ den = 4
  BY <1>3
<1>4. CASE num = 2 /\ den = 1
  BY <1>4
<1>5. CASE num = 2 /\ den = 2
  BY <1>5
<1>6. CASE num = 2 /\ den = 4
  BY <1>6
<1> QED BY <1>1, <1>2, <1>3, <1>4, <1>5, <1>6

LEMMA StepsEnd ==
  ASSUME NEW q \in Int, NEW num \in {1, 2}, NEW den \in {1, 2, 4},
         NEW n \in Nat, n = (q * den) \div num, n >= 6
  PROVE  /\ ((n - 1) * num) \div den >= 1
         /\ ((n - 1) * num) \div den <= q - 1
<1>1. CASE num = 1 /\ den = 1
  BY <1>1
<1>2. CASE num = 1 /\ den = 2
  BY <1>2
<1>3. CASE num = 1 /\ den = 4
  BY <1>3
<1>4. CASE num = 2 /\ den = 1
  BY <1>4
<1>5. CASE num = 2 /\ den = 2
  BY <1>5
<1>6. CASE num = 2 /\ den = 4
  BY <1>6
<1> QED BY <1>1, <1>2, <1>3, <1>4, <1>5, <1>6

LEMMA Grows ==
  ASSUME NEW x \in Int, NEW y \in Int, x <= y, NEW s \in Nat
  PROVE  x * s \in Int /\ y * s \in Int /\ x * s <= y * s
OBVIOUS

LEMMA SweepIs ==
  ASSUME Turning
  PROVE  /\ IsSweep(Sweep(sensor), RoundBlocks(sensor))
         /\ \A k \in 0 .. RoundBlocks(sensor) - 1 : Offset(sensor, k) \in 0 .. Round - 1
<1> DEFINE n == RoundBlocks(sensor)
           num == Layout(sensor).num
           den == Layout(sensor).den
           step == Step(sensor)
           from == sensor.fov[1]
           span == Sector(sensor)
           q == span \div step
           a == Sweep(sensor)
           o == [k \in 0 .. n - 1 |-> Offset(sensor, k)]
           steps(k) == (k * num) \div den
<1>1. n \in Nat /\ n > 0 /\ step \in Nat /\ step > 0
  BY RoundLength
<1>2. num \in {1, 2} /\ den \in {1, 2, 4}
  BY Layouts
<1>3. from \in 0 .. Round - 1 /\ span \in 1 .. Round
  <2>1. sensor.fov \in Fovs
    BY DEF Turning, Sensor
  <2> QED BY <2>1, Sectors
<1>4. n >= 6
  <2>1. Device(sensor.model).blocks \in {3, 4, 8, 12}
    BY Blocks DEF Turning, Sensor
  <2> QED BY <1>1, <2>1 DEF Turning, ToScale
<1>5. n = (q * den) \div num
  BY DEF RoundBlocks
<1>6. q \in Int /\ q * step <= span
  BY <1>1, <1>3, Angles
<1>7. \A k \in 0 .. n - 1 : o[k] = steps(k) * step
  BY DEF Offset
<1>8. a = [k \in 0 .. n - 1 |-> Onward(from, o[k])]
  BY DEF Sweep
<1>9. o = [k \in 0 .. n - 1 |-> o[k]] /\ \A k \in 0 .. n - 1 : o[k] = Offset(sensor, k)
  OBVIOUS
<1> HIDE DEF n, num, den, step, from, span, q, a, o
<1>10. steps(n - 1) >= 1 /\ steps(n - 1) <= q - 1
  BY <1>1, <1>2, <1>4, <1>5, <1>6, StepsEnd
<1>11. ASSUME NEW k \in 0 .. n - 1, NEW l \in 0 .. n - 1, k <= l
       PROVE  /\ steps(k) \in Nat /\ steps(l) \in Nat
              /\ o[k] \in Nat /\ o[l] \in Nat /\ o[k] <= o[l]
  <2>1. steps(k) \in Nat /\ steps(l) \in Nat /\ steps(k) <= steps(l)
    BY <1>1, <1>2, <1>11, StepsRise
  <2>2. 0 * step \in Int /\ 0 * step <= steps(k) * step /\ 0 * step = 0
    <3>1. 0 <= steps(k)
      BY <2>1
    <3> HIDE DEF steps
    <3> QED BY <1>1, <2>1, <3>1, Grows
  <2>3. steps(k) * step \in Int /\ steps(l) * step \in Int /\ steps(k) * step <= steps(l) * step
    <3> HIDE DEF steps
    <3> QED BY <1>1, <2>1, Grows
  <2>4. o[k] = steps(k) * step /\ o[l] = steps(l) * step
    BY <1>7
  <2> HIDE DEF steps
  <2> QED BY <2>1, <2>2, <2>3, <2>4
<1>12. n - 1 \in 0 .. n - 1 /\ 0 \in 0 .. n - 1
  BY <1>1
<1>13. (q - 1) * step <= span - step /\ (q - 1) * step \in Int
  BY <1>1, <1>3, <1>6, Angles
<1>14. o[n - 1] <= (q - 1) * step
  <2>1. steps(n - 1) \in Int /\ q - 1 \in Int /\ o[n - 1] = steps(n - 1) * step
    BY <1>6, <1>7, <1>11, <1>12
  <2> HIDE DEF steps
  <2> QED BY <1>1, <1>10, <2>1, Grows
<1>15. \A k \in 0 .. n - 1 : o[k] \in 0 .. Round - 1
  <2> TAKE k \in 0 .. n - 1
  <2>1. o[k] \in Nat /\ o[n - 1] \in Nat /\ o[k] <= o[n - 1]
    <3>1. k <= n - 1
      BY <1>1
    <3> QED BY <1>11, <1>12, <3>1
  <2>2. o[n - 1] <= span - step
    <3> DEFINE m == (q - 1) * step
    <3>1. m \in Int /\ m <= span - step /\ o[n - 1] <= m
      BY <1>13, <1>14
    <3> HIDE DEF m
    <3> QED BY <1>1, <1>3, <2>1, <3>1
  <2> QED BY <1>1, <1>3, <2>1, <2>2, Angles
<1>16. o[0] = 0 /\ o[n - 1] > 0
  <2>0. steps(0) = 0
    <3>1. 0 * num = 0 /\ 0 \div 1 = 0 /\ 0 \div 2 = 0 /\ 0 \div 4 = 0
      BY <1>2
    <3> QED BY <1>2, <3>1
  <2>1. o[0] = steps(0) * step /\ o[n - 1] = steps(n - 1) * step /\ steps(n - 1) \in Nat
    BY <1>1, <1>7, <1>11, <1>12
  <2>2. 1 * step <= steps(n - 1) * step /\ steps(n - 1) * step \in Int /\ 1 * step = step
    <3> HIDE DEF steps
    <3> QED BY <1>1, <1>10, <2>1, Grows
  <2>3. 0 * step = 0
    BY <1>1
  <2>4. o[n - 1] \in Int /\ step <= o[n - 1]
    <3> HIDE DEF steps
    <3> QED BY <2>1, <2>2
  <2> HIDE DEF steps
  <2> QED BY <1>1, <2>0, <2>1, <2>3, <2>4
<1>17. o \in [0 .. n - 1 -> 0 .. Round - 1]
  BY <1>9, <1>15
<1>18. Rising(o, n)
  <2>1. \A k, l \in 0 .. n - 1 : k <= l => o[k] <= o[l]
    BY <1>11
  <2> QED BY <1>16, <1>17, <2>1 DEF Rising
<1>19. n \in Nat /\ n > 1
  BY <1>1, <1>4
<1>20. from \in 0 .. Round - 1
  BY <1>3
<1>21. IsSweep(a, n)
  BY <1>8, <1>17, <1>18, <1>19, <1>20, Zenon DEF IsSweep
<1> QED BY <1>9, <1>15, <1>21 DEF a, n

LEMMA WholeLength ==
  ASSUME NEW S, NEW n \in Nat, NEW s \in [1 .. n -> S]
  PROVE  Len(SubSeq(s, 1, n)) = n
<1>1. s \in Seq(S) /\ Len(s) = n
  OBVIOUS
<1> QED BY <1>1

LEMMA PacketCarries ==
  ASSUME Turning, sensor.next \in 0 .. RoundBlocks(sensor) - 1, NEW type,
         NEW good \in Nat, good <= Device(sensor.model).blocks
  PROVE  LET p == Packet(sensor, 0, good, type)
         IN  /\ Carries(How, p, Sweep(sensor), RoundBlocks(sensor), sensor.next)
             /\ p.good = good /\ p.type = type /\ p.lines = sensor.lines
             /\ Len(p.az) = Device(sensor.model).blocks
<1> DEFINE blocks == Device(sensor.model).blocks
           layout == Layout(sensor)
           round == RoundBlocks(sensor)
           first == sensor.next + 0
           off(i) == ((((first + i - 1) % round) * layout.num) \div layout.den) * Step(sensor)
           turned(i) == (sensor.turn + (first + i - 1) \div round) * Round + sensor.fov[1] + off(i)
           angles == [i \in 1 .. blocks |-> turned(i) % Horizon]
           at == SubSeq(angles, 1, blocks)
           rests == [i \in 1 .. blocks |-> at[i] % Round]
           az == SubSeq(rests, 1, blocks)
           a == Sweep(sensor)
           p == Packet(sensor, 0, good, type)
<1>1. blocks \in Nat /\ sensor.next \in Nat /\ sensor.turn \in Nat /\ first = sensor.next
  BY Devices DEF Turning, Sensor
<1>2. round \in Nat /\ round > 0 /\ IsSweep(a, round)
  BY RoundLength, SweepIs
<1>3. \A j \in 0 .. round - 1 :
        a[j] = Onward(sensor.fov[1], Offset(sensor, j)) /\ Offset(sensor, j) \in 0 .. Round - 1
  BY SweepIs DEF Sweep
<1>4. sensor.fov[1] \in 0 .. Round - 1
  BY Sectors DEF Turning, Sensor
<1>6. ASSUME NEW i \in 1 .. blocks
      PROVE  /\ turned(i) % Horizon \in 0 .. Horizon - 1
             /\ (turned(i) % Horizon) % Round = a[(sensor.next + i - 1) % round]
  <2> DEFINE j == (first + i - 1) % round
             t == sensor.turn + (first + i - 1) \div round
  <2>1. first + i - 1 \in Nat
    BY <1>1
  <2>2. j \in 0 .. round - 1 /\ t \in Nat /\ j = (sensor.next + i - 1) % round
    <3> HIDE DEF first, round
    <3>1. j \in 0 .. round - 1 /\ (first + i - 1) \div round \in Nat
      BY <1>2, <2>1
    <3> QED BY <1>1, <3>1
  <2>3. off(i) = Offset(sensor, j)
    BY DEF Offset
  <2>4. a[j] = Onward(sensor.fov[1], off(i)) /\ off(i) \in 0 .. Round - 1
    <3> HIDE DEF off, a, j
    <3> QED BY <1>3, <2>2, <2>3
  <2>5. turned(i) = t * Round + sensor.fov[1] + off(i)
    OBVIOUS
  <2> HIDE DEF j, t, off, turned, a
  <2> QED BY <1>4, <2>2, <2>4, <2>5, TurnedAngle
<1> HIDE DEF turned
<1>7. \A i \in 1 .. blocks : angles[i] \in 0 .. Horizon - 1
  BY <1>6
<1>8. \A i \in 1 .. blocks : at[i] = angles[i]
  <2>1. angles \in [1 .. blocks -> 0 .. Horizon - 1]
    BY <1>7
  <2> HIDE DEF angles
  <2> QED BY <1>1, <2>1, WholePrefix
<1>9. \A i \in 1 .. blocks : angles[i] = turned(i) % Horizon
  OBVIOUS
<1> HIDE DEF angles, at
<1>10. Len(az) = blocks /\ \A i \in 1 .. blocks : az[i] = at[i] % Round
  <2>1. \A i \in 1 .. blocks : at[i] % Round \in Nat
    BY <1>7, <1>8, Angles
  <2>2. rests \in [1 .. blocks -> Nat] /\ \A i \in 1 .. blocks : rests[i] = at[i] % Round
    BY <2>1, Zenon
  <2> HIDE DEF rests
  <2>3. \A i \in 1 .. blocks : az[i] = rests[i]
    BY <1>1, <2>2, WholePrefix
  <2>4. Len(az) = blocks
    BY <1>1, <2>2, WholeLength
  <2> QED BY <2>2, <2>3, <2>4
<1>11. /\ p.at = at /\ p.az = az /\ p.good = good /\ p.cfg = cfg
       /\ p.type = type /\ p.lines = sensor.lines
  BY DEF Packet, at, angles, turned
<1>12. How \in {"angle", "fixed"} => cfg.strategy = How
  BY DEF How
<1> HIDE DEF p, at, az, a, round, first, blocks
<1>13. \A i \in 1 .. p.good :
         p.at[i] \in 0 .. Horizon - 1 /\ p.az[i] = a[(sensor.next + i - 1) % round]
  <2> TAKE i \in 1 .. p.good
  <2>1. i \in 1 .. blocks
    BY <1>1, <1>11 DEF blocks
  <2> QED BY <1>6, <1>7, <1>8, <1>9, <1>10, <1>11, <2>1
<1>14. Carries(How, p, a, round, sensor.next)
  BY <1>11, <1>12, <1>13 DEF Carries
<1> QED BY <1>10, <1>11, <1>14 DEF p, a, round, blocks

-----------------------------------------------------------------------------
(***************************************************************************)
(* The steps again, with the count.                                        *)
(***************************************************************************)
(* Marks of the history that make nothing whole.                           *)
LEMMA MarkedTally ==
  ASSUME NEW how, NEW a, NEW n, NEW k, NEW d, NEW c, Tallied(how, a, n, d, c, k),
         NEW w \in BOOLEAN, NEW m \in BOOLEAN,
         w => c.whole /\ ~m, ~m => ~c.missed
  PROVE  Tallied(how, a, n, d, [c EXCEPT !.whole = w, !.missed = m], k)
<1> DEFINE r == [c EXCEPT !.whole = w, !.missed = m]
<1>1. c \in Clouds
  BY DEF Tallied
<1>2. r \in Clouds
  BY <1>1, Zenon DEF Clouds
<1>3. /\ r.seen = c.seen /\ r.blks = c.blks
      /\ (r.whole <=> w) /\ (r.missed <=> m)
  BY <1>1 DEF Clouds
<1> HIDE DEF r
<1>4. Tallied(how, a, n, d, r, k)
  BY <1>2, <1>3 DEF Tallied, SinceCut, SinceCount
<1> QED BY <1>4 DEF r

(* After blocks were missed the round and the place in it do not matter.   *)
LEMMA MissedTally ==
  ASSUME NEW how, NEW a, NEW n, NEW k, NEW d, NEW c, Tallied(how, a, n, d, c, k),
         NEW b, NEW o, NEW l, ~c.whole, c.missed
  PROVE  Tallied(how, b, o, d, c, l)
BY DEF Tallied

LEMMA Forgotten ==
  ASSUME NEW how, NEW a, NEW n, NEW k, NEW d, NEW c, Tallied(how, a, n, d, c, k),
         NEW b, NEW o, NEW l
  PROVE  LET r == [c EXCEPT !.whole = FALSE, !.missed = TRUE]
         IN  Tallied(how, b, o, d, r, l) /\ r.missed /\ ~r.whole
<1> DEFINE r == [c EXCEPT !.whole = FALSE, !.missed = TRUE]
<1>1. Tallied(how, a, n, d, r, k)
  BY MarkedTally
<1>2. (r.whole <=> FALSE) /\ (r.missed <=> TRUE)
  BY DEF Tallied, Clouds
<1> HIDE DEF r
<1>3. Tallied(how, b, o, d, r, l)
  BY <1>1, <1>2, MissedTally
<1> QED BY <1>2, <1>3 DEF r

LEMMA AskedTallies ==
  ASSUME NEW how, NEW a, NEW n, NEW k, NEW d, NEW e, NEW c, Tallied(how, a, n, d, c, k),
         SameButPre(d, e)
  PROVE  /\ Tallied(how, a, n, e, c, k)
         /\ Settled(d) => Settled(e)
         /\ Learnt(d) => Learnt(e)
         /\ e.wait = d.wait /\ e.ready = d.ready /\ e.split = d.split
<1>1. /\ e.angle = d.angle /\ e.blks = d.blks /\ e.split = d.split /\ e.rps = d.rps
      /\ e.perFrame = d.perFrame /\ e.echo = d.echo /\ e.init = d.init
      /\ e.lines = d.lines /\ e.wait = d.wait /\ e.ready = d.ready /\ DOMAIN e = Fields
  BY DEF SameButPre, Fields
<1>2. Tallied(how, a, n, e, c, k)
  BY <1>1 DEF Tallied, SinceCount
<1>3. Settled(d) => Settled(e)
  BY <1>1, Zenon DEF Settled
<1> QED BY <1>1, <1>2, <1>3 DEF Learnt

(* What a decoder that is settled believes of a LiDAR it is in step with   *)
(* is the number of its blocks.                                            *)
LEMMA InStepSplit ==
  ASSUME Turning, sensor.model \in CountedLidars, sensor.lines = 0,
         Sector(sensor) = Round,
         NEW d, Settled(d), InStep(sensor, d)
  PROVE  d.split = RoundBlocks(sensor) /\ d.split > 1
<1>1. d.echo = Echo(sensor.model, sensor.mode) /\ d.rps = sensor.rps
  BY DEF InStep
<1>2. sensor.model \notin {"RS16", "RSHELIOS_16P"} /\ sensor.lines # 96
  BY DEF CountedLidars
<1>3. Layout(sensor) = IF d.echo = Dual THEN [num |-> 1, den |-> 2] ELSE [num |-> 1, den |-> 1]
  BY <1>1, <1>2, Zenon DEF Layout
<1>4. Step(sensor) = StepAt(d.rps) /\ Step(sensor) \in Nat /\ Step(sensor) > 0
  BY <1>1, RoundLength DEF Step
<1>5. d.perFrame = Round \div Step(sensor) /\ d.perFrame \in Int
  BY <1>4, Angles DEF Settled
<1>6. RoundBlocks(sensor) = (d.perFrame * Layout(sensor).den) \div Layout(sensor).num
  BY <1>5, Zenon DEF RoundBlocks
<1>7. d.split = IF d.echo = Dual THEN 2 * d.perFrame ELSE d.perFrame
  BY DEF Settled
<1>8. d.split = RoundBlocks(sensor)
  BY <1>3, <1>5, <1>6, <1>7
<1>9. RoundBlocks(sensor) > 1
  BY SweepIs DEF IsSweep
<1> QED BY <1>8, <1>9

LEMMA LinesKnown ==
  ASSUME WholeInv
  PROVE  /\ sensor.model \in Models
         /\ sensor.model \in CountedLidars => sensor.lines = 0
         /\ sensor.model \in Columned => sensor.lines \in {48, 96} /\ Learnt(dec)
         /\ How = "fixed" => sensor.model \in CountedLidars
         /\ sensor.model \in CountedLidars => sensor.model \notin Columned
BY DEF WholeInv, Lines, Models, Columned, CountedLidars, Rotating, Learnt, How

(* A packet keeps the count: it is the place behind it, unless not all of  *)
(* its blocks were good, or it had none.                                   *)
LEMMA ProcessTallies ==
  ASSUME WholeInv, NEW good \in Nat, good <= Device(sensor.model).blocks, NEW type,
         Process(Packet(sensor, 0, good, type)), NEW k,
         good = Device(sensor.model).blocks =>
           \/ type = 0 /\ k = (sensor.next + good) % RoundBlocks(sensor)
           \/ type # 0 /\ k = sensor.next /\ sensor.model \in Columned
  PROVE  /\ Tallied(How, Sweep(sensor), RoundBlocks(sensor), dec', cloud', k)
         /\ sensor.model \in CountedLidars => Settled(dec')
         /\ sensor.model \in Columned => Learnt(dec')
         /\ dec'.wait /\ ~dec'.ready => cloud'.missed /\ ~cloud'.whole
         /\ \A l \in last' : CountedRight(l)
<1> DEFINE a == Sweep(sensor)
           n == RoundBlocks(sensor)
           j == sensor.next
           p == Packet(sensor, 0, good, type)
           asked == IsNewFrame(dec, p).dec
           r == DecodeMsop(sensor.model, asked, cloud, p)
           spoilt == p.good < Len(p.az)
           blocks == Device(sensor.model).blocks
           round == RoundBlocks(sensor)
<1>1. /\ Turning /\ j \in 0 .. n - 1 /\ Tallied(How, a, n, dec, cloud, j)
      /\ sensor.model \in CountedLidars => Settled(dec)
      /\ dec.wait /\ ~dec.ready => cloud.missed /\ ~cloud.whole
      /\ \A l \in last : CountedRight(l)
  BY DEF WholeInv, HandedExact
<1>2. /\ Carries(How, p, a, n, j)
      /\ p.good = good /\ p.type = type /\ p.lines = sensor.lines /\ Len(p.az) = blocks
  BY <1>1, PacketCarries
<1>3. IsSweep(a, n)
  BY <1>1, SweepIs
<1>4. blocks \in Nat
  BY LinesKnown, Devices
<1>5. DOMAIN dec = Fields /\ cloud \in Clouds
  BY <1>1 DEF Tallied
<1>6. SameButPre(dec, asked)
  BY <1>5, Asked
<1>7. /\ Tallied(How, a, n, asked, cloud, j)
      /\ sensor.model \in CountedLidars => Settled(asked)
      /\ sensor.model \in Columned => Learnt(asked)
      /\ asked.wait = dec.wait /\ asked.ready = dec.ready /\ asked.split = dec.split
  <2> HIDE DEF asked, a, n, j
  <2> QED BY <1>1, <1>6, AskedTallies, LinesKnown
<1>8. CASE dec.wait /\ ~dec.ready
  <2>1. dec' = asked /\ cloud' = cloud /\ last' = last
    BY <1>8 DEF Process
  <2> HIDE DEF asked, a, n, j
  <2>2. Tallied(How, a, n, dec', cloud', k)
    BY <1>1, <1>7, <1>8, <2>1, MissedTally
  <2> QED BY <1>1, <1>7, <2>1, <2>2 DEF a, n
<1>9. CASE ~(dec.wait /\ ~dec.ready)
  <2>1. Msops(How, a, n, sensor.model, asked, p, j, r)
    <3> HIDE DEF asked, a, n, j, p, r
    <3> QED BY <1>1, <1>2, <1>3, <1>7, LinesKnown, MsopTallies DEF r
  <2>2. /\ dec' = r.dec
        /\ cloud' = [r.cloud EXCEPT !.whole = @ /\ ~spoilt, !.missed = @ \/ spoilt]
        /\ last' = IF r.out = <<>> THEN last
                   ELSE {[cloud |-> r.out[Len(r.out)].cloud, inStep |-> InStep(sensor, r.dec),
                          round |-> round]}
    BY <1>9 DEF Process
  <2> HIDE DEF asked, a, n, j, p, r, spoilt, round, blocks
  <2>3. spoilt <=> good < blocks
    BY <1>2 DEF spoilt
  <2> DEFINE w == r.cloud.whole /\ ~spoilt
             m == r.cloud.missed \/ spoilt
  <2>4. PICK i : Tallied(How, a, n, r.dec, r.cloud, i) /\ (good = blocks => i = k)
    <3>1. CASE Tallied(How, a, n, r.dec, r.cloud, (j + p.good) % n)
               /\ (sensor.model \in Columned => p.type = 0)
      <4>1. good = blocks => (j + p.good) % n = k
        BY <1>2, <3>1 DEF blocks, j, n
      <4> QED BY <3>1, <4>1
    <3>2. CASE p.type # 0 /\ Tallied(How, a, n, r.dec, r.cloud, j)
      <4>1. good = blocks => j = k
        BY <1>2, <3>2 DEF blocks, j
      <4> QED BY <3>2, <4>1
    <3> QED BY <2>1, <3>1, <3>2 DEF Msops
  <2>5. w \in BOOLEAN /\ m \in BOOLEAN /\ (w => r.cloud.whole /\ ~m) /\ (~m => ~r.cloud.missed)
    <3>1. w \in BOOLEAN /\ m \in BOOLEAN
      BY Zenon
    <3>2. r.cloud.whole => ~r.cloud.missed
      BY <2>4 DEF Tallied
    <3> QED BY <3>1, <3>2
  <2>6. cloud' = [r.cloud EXCEPT !.whole = w, !.missed = m]
    BY <2>2, Zenon
  <2> HIDE DEF w, m
  <2>7. Tallied(How, a, n, dec', cloud', i)
    <3>1. Tallied(How, a, n, r.dec, [r.cloud EXCEPT !.whole = w, !.missed = m], i)
      BY <2>4, <2>5, MarkedTally
    <3> QED BY <2>2, <2>6, <3>1
  <2>8. Tallied(How, a, n, dec', cloud', k)
    <3>1. CASE good = blocks
      BY <2>4, <2>7, <3>1
    <3>2. CASE good # blocks
      <4>1. spoilt
        BY <1>4, <2>3, <3>2 DEF blocks
      <4>2. (cloud'.whole <=> FALSE) /\ (cloud'.missed <=> TRUE)
        BY <2>4, <2>6, <4>1 DEF w, m, Tallied, Clouds
      <4> QED BY <2>7, <4>2, MissedTally
    <3> QED BY <3>1, <3>2
  <2>9. sensor.model \in CountedLidars => Settled(dec')
    <3>1. sensor.model \in CountedLidars =>
            /\ r.dec.rps = asked.rps /\ r.dec.perFrame = asked.perFrame
            /\ r.dec.echo = asked.echo /\ r.dec.split = asked.split
      BY <2>1 DEF Msops, Fields
    <3> QED BY <1>7, <2>2, <3>1, Zenon DEF Settled
  <2>10. sensor.model \in Columned => Learnt(dec')
    BY <2>1, <2>2 DEF Msops
  <2>11. ~(dec'.wait /\ ~dec'.ready)
    BY <1>7, <1>9, <2>1, <2>2 DEF Msops
  <2>12. ASSUME NEW l \in last' PROVE CountedRight(l)
    <3>1. CASE r.out = <<>>
      BY <1>1, <2>2, <2>12, <3>1
    <3>2. CASE r.out # <<>>
      <4>1. r.out \in Seq(Exact(How, n, asked.split))
        BY <2>1 DEF Msops
      <4> DEFINE h == r.out[Len(r.out)]
      <4>2. h \in Exact(How, n, asked.split)
        BY <3>2, <4>1
      <4>3. l = [cloud |-> h.cloud, inStep |-> InStep(sensor, r.dec), round |-> round]
        BY <2>2, <2>12, <3>2
      <4> HIDE DEF h
      <4>4. /\ l.cloud = h.cloud /\ l.round = n /\ (l.inStep <=> InStep(sensor, r.dec))
        BY <4>3 DEF round, n
      <4>5. cfg.strategy = "angle" /\ l.cloud.whole => l.cloud.blks = l.round
        BY <4>2, <4>4 DEF Exact, How
      <4>6. ASSUME cfg.strategy = "fixed", sensor.model \in CountedLidars,
                   Sector(sensor) = Round, l.inStep, l.cloud.whole
            PROVE  l.cloud.blks = l.round
        <5>1. How = "fixed"
          BY <4>6 DEF How
        <5>2. Settled(r.dec) /\ InStep(sensor, r.dec) /\ sensor.lines = 0
          BY <2>2, <2>9, <4>4, <4>6, LinesKnown
        <5>3. r.dec.split = RoundBlocks(sensor) /\ r.dec.split > 1
          BY <1>1, <4>6, <5>2, InStepSplit
        <5>4. r.dec.split = asked.split
          BY <2>1, <4>6 DEF Msops, Fields
        <5> QED BY <4>2, <4>4, <4>6, <5>1, <5>3, <5>4 DEF Exact, n
      <4> QED BY <4>5, <4>6 DEF CountedRight
    <3> QED BY <3>1, <3>2
  <2> QED BY <2>8, <2>9, <2>10, <2>11, <2>12 DEF a, n
<1> QED BY <1>8, <1>9

\* The same LiDAR, set up as before.
SameLidar ==
  /\ sensor'.model = sensor.model /\ sensor'.lines = sensor.lines
  /\ sensor'.mode = sensor.mode /\ sensor'.rps = sensor.rps /\ sensor'.fov = sensor.fov

LEMMA SameRounds ==
  ASSUME SameLidar, cfg' = cfg
  PROVE  /\ RoundBlocks(sensor') = RoundBlocks(sensor)
         /\ Sweep(sensor') = Sweep(sensor)
         /\ How' = How
<1>1. Layout(sensor') = Layout(sensor) /\ Step(sensor') = Step(sensor)
  BY DEF SameLidar, Layout, Step
<1>2. RoundBlocks(sensor') = RoundBlocks(sensor)
  BY <1>1 DEF SameLidar, RoundBlocks, Sector
<1>3. Sweep(sensor') = Sweep(sensor)
  BY <1>1, <1>2, Zenon DEF SameLidar, Sweep, Offset
<1>4. How' = How
  BY DEF SameLidar, How
<1> QED BY <1>2, <1>3, <1>4

LEMMA TurnedPlace ==
  ASSUME Turning, NEW n \in Nat, sensor' = Turned(sensor, n)
  PROVE  /\ SameLidar
         /\ sensor'.next = (sensor.next + n) % RoundBlocks(sensor)
         /\ sensor'.next \in 0 .. RoundBlocks(sensor) - 1
<1>1. sensor \in Sensor /\ sensor.next \in Nat
  BY DEF Turning, Sensor
<1> DEFINE t == (sensor.turn + (sensor.next + n) \div RoundBlocks(sensor)) % 3
           k == (sensor.next + n) % RoundBlocks(sensor)
<1>2. sensor' = [sensor EXCEPT !.turn = t, !.next = k]
  BY DEF Turned
<1>3. k \in 0 .. RoundBlocks(sensor) - 1
  BY <1>1, RoundLength
<1> HIDE DEF t, k
<1>4. SameLidar /\ sensor'.next = k
  BY <1>1, <1>2 DEF Sensor, SameLidar
<1> QED BY <1>3, <1>4 DEF k

LEMMA MsopWhole ==
  ASSUME WholeInv, Msop \/ DamagedMsop \/ OtherMsop
  PROVE  WholeInv'
<1> DEFINE blocks == Device(sensor.model).blocks
           n == RoundBlocks(sensor)
           a == Sweep(sensor)
<1>1. Turning /\ sensor.model \in Models /\ sensor.next \in 0 .. n - 1 /\ Lines
  BY LinesKnown DEF WholeInv
<1>2. blocks \in Nat /\ blocks > 1
  BY <1>1, Blocks
<1>3. \E good \in {1, blocks}, type \in {0, 1} :
        /\ Process(Packet(sensor, 0, good, type))
        /\ good = blocks =>
             \/ type = 0 /\ sensor' = Turned(sensor, blocks)
             \/ type # 0 /\ sensor' = sensor /\ sensor.model \in Columned
  BY <1>2 DEF Msop, DamagedMsop, OtherMsop, Columned
<1>4. cfg' = cfg /\ (sensor' = Turned(sensor, blocks) \/ sensor' = sensor)
  BY DEF Msop, DamagedMsop, OtherMsop
<1>5. /\ SameLidar /\ Turning' /\ sensor'.next \in 0 .. n - 1
      /\ sensor' = Turned(sensor, blocks) => sensor'.next = (sensor.next + blocks) % n
  <2> HIDE DEF blocks
  <2>1. CASE sensor' = Turned(sensor, blocks)
    BY <1>1, <1>2, <2>1, TurnedPlace, TurnsOn
  <2>2. CASE sensor' = sensor /\ ~(sensor' = Turned(sensor, blocks))
    BY <1>1, <2>2 DEF SameLidar, Turning
  <2> QED BY <1>4, <2>1, <2>2
<1>6. /\ Tallied(How, a, n, dec', cloud', sensor'.next)
      /\ sensor.model \in CountedLidars => Settled(dec')
      /\ sensor.model \in Columned => Learnt(dec')
      /\ dec'.wait /\ ~dec'.ready => cloud'.missed /\ ~cloud'.whole
      /\ \A l \in last' : CountedRight(l)
  <2>1. PICK good \in {1, blocks}, type \in {0, 1} :
        /\ Process(Packet(sensor, 0, good, type))
        /\ good = blocks =>
             \/ type = 0 /\ sensor' = Turned(sensor, blocks)
             \/ type # 0 /\ sensor' = sensor /\ sensor.model \in Columned
    BY <1>3
  <2>2. good \in Nat /\ good <= blocks
    BY <1>2
  <2>3. good = blocks =>
          \/ type = 0 /\ sensor'.next = (sensor.next + good) % n
          \/ type # 0 /\ sensor'.next = sensor.next /\ sensor.model \in Columned
    BY <1>5, <2>1
  <2> QED BY <2>1, <2>2, <2>3, ProcessTallies
<1>7. RoundBlocks(sensor') = n /\ Sweep(sensor') = a /\ How' = How
  BY <1>4, <1>5, SameRounds
<1>8. Lines'
  BY <1>1, <1>5, <1>6 DEF Lines, SameLidar, Learnt, Columned
<1>9. HandedExact'
  BY <1>4, <1>5, <1>6 DEF HandedExact, CountedRight, SameLidar, Sector
<1>10. (sensor.model \in CountedLidars => Settled(dec))'
  BY <1>5, <1>6 DEF SameLidar
<1>11. Tallied(How, Sweep(sensor), RoundBlocks(sensor), dec, cloud, sensor.next)'
  BY <1>6, <1>7
<1> QED BY <1>5, <1>6, <1>7, <1>8, <1>9, <1>10, <1>11 DEF WholeInv

LEMMA LostWhole == ASSUME WholeInv, Lost PROVE WholeInv'
<1> DEFINE blocks == Device(sensor.model).blocks
           aRound == (RoundBlocks(sensor) + blocks - 1) \div blocks
<1>1. Turning /\ sensor.model \in Models /\ Lines
  BY LinesKnown DEF WholeInv
<1>2. blocks \in Nat /\ blocks > 0
  BY <1>1, Devices
<1>3. RoundBlocks(sensor) \in Nat /\ RoundBlocks(sensor) >= 2 * blocks
  BY <1>1, RoundLength DEF Turning, ToScale
<1>4. aRound \in Nat /\ aRound > 0
  <2> HIDE DEF blocks
  <2>1. RoundBlocks(sensor) + blocks - 1 \in Nat /\ RoundBlocks(sensor) + blocks - 1 >= blocks
    BY <1>2, <1>3
  <2> QED BY <1>2, <2>1
<1>5. PICK i \in {1, aRound - 1, aRound} : sensor' = Turned(sensor, i * blocks)
  BY DEF Lost
<1>6. i * blocks \in Nat
  BY <1>2, <1>4
<1>7. SameLidar /\ Turning' /\ sensor'.next \in 0 .. RoundBlocks(sensor) - 1
  BY <1>1, <1>5, <1>6, TurnedPlace, TurnsOn
<1>8. /\ cfg' = cfg /\ dec' = dec /\ last' = last
      /\ cloud' = [cloud EXCEPT !.whole = FALSE, !.missed = TRUE]
  BY DEF Lost
<1>9. RoundBlocks(sensor') = RoundBlocks(sensor) /\ How' = How
  BY <1>7, <1>8, SameRounds
<1>10. /\ Tallied(How, Sweep(sensor'), RoundBlocks(sensor'), dec', cloud', sensor'.next)
       /\ cloud'.missed /\ ~cloud'.whole
  BY <1>8, Forgotten DEF WholeInv
<1>11. Tallied(How, Sweep(sensor), RoundBlocks(sensor), dec, cloud, sensor.next)'
  BY <1>9, <1>10
<1>12. Lines' /\ HandedExact' /\ (sensor.model \in CountedLidars => Settled(dec))'
  BY <1>7, <1>8 DEF WholeInv, Lines, HandedExact, CountedRight, SameLidar, Sector
<1> QED BY <1>7, <1>9, <1>10, <1>11, <1>12 DEF WholeInv

LEMMA DifopSettles ==
  ASSUME NEW d, DOMAIN d = Fields, NEW q, q.rps = 0 \/ Rate(q.rps)
  PROVE  /\ \A model \in CountedLidars : Settled(DecodeDifop(model, d, q))
         /\ \A model \in Columned : Learnt(d) => Learnt(DecodeDifop(model, d, q))
<1> DEFINE e == DifopCommon(d, q)
           rps == IF q.rps = 0 THEN 10 ELSE q.rps
<1>1. /\ DOMAIN e = Fields /\ e.rps = rps /\ e.perFrame = Round \div StepAt(rps)
      /\ e.init = d.init /\ e.lines = d.lines
  BY DEF DifopCommon, Fields
<1>2. Rate(rps)
  BY Default
<1> HIDE DEF e, rps
<1>3. \A echo : Settled(SetEcho(e, echo))
  <2> TAKE echo
  <2> DEFINE s == SetEcho(e, echo)
  <2>1. /\ s.rps = e.rps /\ s.perFrame = e.perFrame /\ s.echo = echo
        /\ s.split = IF echo = Dual THEN 2 * e.perFrame ELSE e.perFrame
    BY <1>1 DEF SetEcho, Fields
  <2> HIDE DEF s
  <2>2. Settled(s)
    BY <1>1, <1>2, <2>1 DEF Settled
  <2> QED BY <2>2 DEF s
<1>4. ASSUME NEW model \in CountedLidars PROVE Settled(DecodeDifop(model, d, q))
  <2>1. model = "RS32" => Settled(DecodeDifop(model, d, q))
    BY <1>3 DEF DecodeDifop, RS32Difop, e
  <2>2. model = "RSBP" => Settled(DecodeDifop(model, d, q))
    BY <1>3 DEF DecodeDifop, RSBPDifop, e
  <2>3. model = "RSHELIOS" => Settled(DecodeDifop(model, d, q))
    BY <1>3 DEF DecodeDifop, RSHELIOSDifop, e
  <2>4. model = "RS128" => Settled(DecodeDifop(model, d, q))
    BY <1>3 DEF DecodeDifop, RS128Difop, e
  <2>5. model = "RSP128" => Settled(DecodeDifop(model, d, q))
    BY <1>3 DEF DecodeDifop, RSP128Difop, e
  <2>6. model = "RS80" => Settled(DecodeDifop(model, d, q))
    BY <1>3 DEF DecodeDifop, RS80Difop, e
  <2>7. model = "RSP80" => Settled(DecodeDifop(model, d, q))
    BY <1>3 DEF DecodeDifop, RSP80Difop, e
  <2>8. model = "RS48" => Settled(DecodeDifop(model, d, q))
    BY <1>3 DEF DecodeDifop, RS48Difop, e
  <2>9. model = "RSP48" => Settled(DecodeDifop(model, d, q))
    BY <1>3 DEF DecodeDifop, RSP48Difop, e
  <2> QED BY <2>1, <2>2, <2>3, <2>4, <2>5, <2>6, <2>7, <2>8, <2>9 DEF CountedLidars
<1>5. ASSUME NEW model \in Columned, Learnt(d) PROVE Learnt(DecodeDifop(model, d, q))
  <2>1. RSAIRYDifop(d, q).init = d.init /\ RSAIRYDifop(d, q).lines = d.lines
    BY <1>1 DEF RSAIRYDifop, e, Fields
  <2>2. RSFAIRYDifop(d, q).init = d.init /\ RSFAIRYDifop(d, q).lines = d.lines
    BY <1>1 DEF RSFAIRYDifop, e
  <2>3. DecodeDifop(model, d, q) = RSAIRYDifop(d, q) \/ DecodeDifop(model, d, q) = RSFAIRYDifop(d, q)
    BY DEF DecodeDifop, Columned
  <2> QED BY <1>5, <2>1, <2>2, <2>3 DEF Learnt
<1> QED BY <1>4, <1>5

LEMMA DifopWhole == ASSUME WholeInv, Difop PROVE WholeInv'
<1>1. PICK cali \in BOOLEAN, rps \in {sensor.rps, 0} :
        LET q == [mode |-> sensor.mode, rps |-> rps, fov |-> sensor.fov,
                  cali |-> cali, install |-> sensor.install]
            d == DecodeDifop(sensor.model, dec, q)
        IN  /\ dec' = d
            /\ cloud' = [cloud EXCEPT !.whole = @ /\ [d EXCEPT !.ready = dec.ready] = dec]
  BY DEF Difop
<1> DEFINE q == [mode |-> sensor.mode, rps |-> rps, fov |-> sensor.fov,
                 cali |-> cali, install |-> sensor.install]
           same == [dec' EXCEPT !.ready = dec.ready] = dec
           w == cloud.whole /\ same
           n == RoundBlocks(sensor)
           a == Sweep(sensor)
           k == sensor.next
<1>2. /\ dec' = DecodeDifop(sensor.model, dec, q)
      /\ cloud' = [cloud EXCEPT !.whole = w]
  BY <1>1
<1>3. cfg' = cfg /\ sensor' = sensor /\ last' = last
  BY DEF Difop
<1>4. Turning /\ sensor.model \in Models /\ Tallied(How, a, n, dec, cloud, k)
  BY LinesKnown DEF WholeInv
<1>5. DOMAIN dec = Fields /\ cloud \in Clouds
  BY <1>4 DEF Tallied
<1>6. q.rps = 0 \/ Rate(q.rps)
  BY <1>4 DEF Turning, Sensor
<1> HIDE DEF q
<1>7. Moveless(dec, dec')
  BY <1>2, <1>4, <1>5, DifopMoves
<1>8. /\ sensor.model \in CountedLidars => Settled(dec')
      /\ sensor.model \in Columned => Learnt(dec')
  BY <1>2, <1>5, <1>6, DifopSettles, LinesKnown
<1>9. How = "fixed" => dec'.split \in Int
  <2>1. ASSUME How = "fixed" PROVE dec'.split \in Int
    <3>1. Settled(dec')
      BY <1>8, <2>1, LinesKnown
    <3>2. StepAt(dec'.rps) \in Nat /\ StepAt(dec'.rps) > 0
      BY <3>1, Steps DEF Settled
    <3>3. dec'.perFrame \in Int
      BY <3>1, <3>2, Angles DEF Settled
    <3> QED BY <3>1, <3>3 DEF Settled
  <2> QED BY <2>1
<1>10. same => dec'.split = dec.split
  BY <1>7 DEF Moveless, Fields
<1> HIDE DEF same, n, a, k
<1>11. w \in BOOLEAN /\ (w => cloud.whole /\ dec'.split = dec.split)
  <2>1. w \in BOOLEAN
    BY Zenon
  <2> QED BY <1>10, <2>1
<1> HIDE DEF w
<1>12. cloud' = [cloud EXCEPT !.whole = w, !.missed = cloud.missed]
  BY <1>2, <1>5 DEF Clouds
<1>13. Tallied(How, a, n, dec', cloud', k)
  <2>1. cloud.missed \in BOOLEAN /\ (w => ~cloud.missed)
    BY <1>4, <1>5, <1>11 DEF Tallied, Clouds
  <2>2. Tallied(How, a, n, dec, [cloud EXCEPT !.whole = w, !.missed = cloud.missed], k)
    BY <1>4, <1>11, <2>1, MarkedTally
  <2>3. Tallied(How, a, n, dec, cloud', k)
    BY <1>12, <2>2
  <2>4. cloud'.whole => dec'.split = dec.split
    BY <1>2, <1>5, <1>11 DEF Clouds
  <2> QED BY <1>7, <1>9, <2>3, <2>4 DEF Tallied, Moveless, SinceCount
<1>14. dec'.wait /\ ~dec'.ready => cloud'.missed /\ ~cloud'.whole
  <2>1. cloud'.missed = cloud.missed /\ (cloud'.whole <=> w)
    BY <1>2, <1>5 DEF Clouds
  <2> QED BY <1>7, <1>11, <2>1 DEF Moveless, WholeInv
<1>15. How' = How /\ Lines'
  BY <1>3, <1>8 DEF How, Lines, WholeInv, Learnt, Columned
<1>16. HandedExact'
  BY <1>3 DEF WholeInv, HandedExact, CountedRight
<1>17. Tallied(How, Sweep(sensor), RoundBlocks(sensor), dec, cloud, sensor.next)'
  BY <1>3, <1>13, <1>15 DEF a, n, k
<1> QED BY <1>3, <1>4, <1>8, <1>14, <1>15, <1>16, <1>17 DEF WholeInv, Turning

LEMMA ReconfigureWhole == ASSUME WholeInv, Reconfigure PROVE WholeInv'
<1>1. PICK mode \in ReturnModes, rps \in Speeds :
        sensor' = [sensor EXCEPT !.mode = mode, !.rps = rps,
                                 !.turn = (sensor.turn + 1) % 3, !.next = 0]
  BY DEF Reconfigure
<1>2. sensor \in Sensor
  BY DEF WholeInv, Turning
<1>3. /\ sensor'.next = 0 /\ sensor'.model = sensor.model /\ sensor'.lines = sensor.lines
      /\ sensor'.fov = sensor.fov
  BY <1>1, <1>2 DEF Sensor
<1>4. Turning'
  BY SetUpAnew DEF WholeInv
<1>5. /\ cfg' = cfg /\ dec' = dec /\ last' = last
      /\ cloud' = [cloud EXCEPT !.whole = FALSE, !.missed = TRUE]
  BY DEF Reconfigure
<1>6. (sensor.next \in 0 .. RoundBlocks(sensor) - 1)'
  <2>1. RoundBlocks(sensor') \in Nat /\ RoundBlocks(sensor') > 0
    BY <1>4, RoundsAre DEF Turning
  <2> QED BY <1>3, <2>1
<1>7. How' = How
  BY <1>3, <1>5 DEF How
<1>8. /\ Tallied(How, Sweep(sensor'), RoundBlocks(sensor'), dec', cloud', sensor'.next)
      /\ cloud'.missed /\ ~cloud'.whole
  BY <1>5, Forgotten DEF WholeInv
<1>9. Tallied(How, Sweep(sensor), RoundBlocks(sensor), dec, cloud, sensor.next)'
  BY <1>7, <1>8
<1>10. Lines' /\ HandedExact' /\ (sensor.model \in CountedLidars => Settled(dec))'
  BY <1>3, <1>5 DEF WholeInv, Lines, HandedExact, CountedRight, Sector
<1> QED BY <1>4, <1>6, <1>8, <1>9, <1>10 DEF WholeInv

LEMMA WholeStarts == MechInit => WholeInv
<1> SUFFICES ASSUME MechInit PROVE WholeInv
  OBVIOUS
<1>1. Turning
  BY MechStarts DEF MechInv
<1>2. sensor.next = 0 /\ \E m \in Sensors : sensor.model = m[1] /\ sensor.lines = m[2]
  BY DEF MechInit
<1>3. /\ dec = MechStart(cfg) /\ last = {}
      /\ cloud = [EmptyCloud EXCEPT !.whole = FALSE, !.missed = TRUE]
  BY DEF MechInit
<1>4. /\ DOMAIN dec = Fields /\ dec.init = FALSE /\ dec.blks = 0
      /\ dec.split = Round \div StepAt(10) /\ dec.rps = 10
      /\ dec.perFrame = Round \div StepAt(10) /\ dec.echo = Single
  BY <1>3 DEF MechStart, Fields
<1>5. sensor.next \in 0 .. RoundBlocks(sensor) - 1
  BY <1>1, <1>2, RoundLength
<1>6. Lines
  BY <1>2, <1>4, SensorsAssumption DEF Lines
<1>7. Settled(dec)
  <2>1. Single # Dual
    BY DEF Single, Dual
  <2> QED BY <1>4, <2>1, Default DEF Settled
<1>8. cloud \in Clouds /\ cloud.seen = {} /\ ~cloud.whole /\ cloud.missed
  <2>1. EmptyCloud \in Clouds
    BY DEF EmptyCloud, Clouds
  <2>2. cloud \in Clouds
    BY <1>3, <2>1, Zenon DEF Clouds
  <2> QED BY <1>3, <2>2 DEF EmptyCloud
<1>9. Tallied(How, Sweep(sensor), RoundBlocks(sensor), dec, cloud, sensor.next)
  <2>1. StepAt(10) \in Nat /\ StepAt(10) > 0
    BY Default, Steps
  <2>2. dec.split \in Int
    BY <1>4, <2>1, Angles
  <2> QED BY <1>4, <1>8, <2>2 DEF Tallied
<1>10. HandedExact
  BY <1>3 DEF HandedExact
<1> QED BY <1>1, <1>5, <1>6, <1>7, <1>8, <1>9, <1>10 DEF WholeInv

(* The blocks of a cloud that misses nothing are counted exactly, from the *)
(* split it began with to the next block the LiDAR fires.                  *)
THEOREM CountInvariant == MechSpec => []WholeInv
<1>1. WholeInv /\ [MechNext]_mechVars => WholeInv'
  <2> SUFFICES ASSUME WholeInv, [MechNext]_mechVars PROVE WholeInv'
    OBVIOUS
  <2>1. CASE Msop \/ DamagedMsop \/ OtherMsop
    BY <2>1, MsopWhole
  <2>2. CASE Lost
    BY <2>2, LostWhole
  <2>3. CASE Difop
    BY <2>3, DifopWhole
  <2>4. CASE Reconfigure
    BY <2>4, ReconfigureWhole
  <2>5. CASE UNCHANGED mechVars
    BY <2>5 DEF mechVars, WholeInv, Turning, Lines, How, HandedExact, CountedRight
  <2> QED BY <2>1, <2>2, <2>3, <2>4, <2>5 DEF MechNext
<1> QED BY <1>1, WholeStarts, PTL DEF MechSpec

(* A cloud during which nothing was lost has the blocks of one round, no   *)
(* more and no less: split by angle for every rotating LiDAR, and split by *)
(* split_blks_per_frame_ for those whose DIFOP sets it and that see all    *)
(* around (newBlock, decodeDifopPkt).                                      *)
THEOREM WholeCloudsAreRounds == MechSpec => []WholeCloudIsOneRound
<1>1. WholeInv => WholeCloudIsOneRound
  BY DEF WholeInv, HandedExact, CountedRight, WholeCloudIsOneRound
<1> QED BY <1>1, CountInvariant, PTL

-----------------------------------------------------------------------------
(***************************************************************************)
(* The playback of a recording.  isNewFrame stops at the first split of a  *)
(* packet, so that the angle it keeps is either the one the decoder keeps  *)
(* or that of the split, from where no block but the split itself looks    *)
(* like one.                                                               *)
(***************************************************************************)
Unasked(d) == [d |-> [d EXCEPT !.angle = d.preAngle, !.blks = d.preBlks], new |-> FALSE]
AreAsked(f, n, d, p) ==
  f = [i \in 0 .. n |-> IF i = 0 THEN Unasked(d) ELSE AskBlock(f[i - 1], p, i)]

LEMMA AsksExist ==
  ASSUME NEW d, NEW p, NEW n \in Nat
  PROVE  \E f : AreAsked(f, n, d, p)
<1> DEFINE S == {m \in Nat : ~ \E f : AreAsked(f, m, d, p)}
<1>1. SUFFICES ASSUME S # {} PROVE FALSE
  OBVIOUS
<1>2. PICK m \in S : \A k \in S : ~(<<k, m>> \in OpToRel(<, Nat))
  BY <1>1, NatLessThanWellFounded, WFMin
<1>3. m \in Nat /\ ~ \E f : AreAsked(f, m, d, p)
  OBVIOUS
<1>4. CASE m = 0
  <2> DEFINE f == [i \in 0 .. 0 |-> Unasked(d)]
  <2>1. \A i \in 0 .. 0 : i = 0
    OBVIOUS
  <2>2. f = [i \in 0 .. 0 |-> IF i = 0 THEN Unasked(d) ELSE AskBlock(f[i - 1], p, i)]
    BY <2>1
  <2> QED BY <1>3, <1>4, <2>2 DEF AreAsked
<1>5. CASE m # 0
  <2>1. m - 1 \in Nat /\ m - 1 < m
    BY <1>3, <1>5
  <2>2. <<m - 1, m>> \in OpToRel(<, Nat)
    BY <1>3, <2>1 DEF OpToRel
  <2>3. PICK f : AreAsked(f, m - 1, d, p)
    BY <1>2, <2>1, <2>2
  <2> DEFINE g == [i \in 0 .. m |-> IF i = m THEN AskBlock(f[m - 1], p, m) ELSE f[i]]
  <2>4. \A i \in 0 .. m : i # m => i \in 0 .. m - 1
    BY <1>3
  <2>5. \A i \in 0 .. m - 1 : g[i] = f[i]
    BY <1>3
  <2>6. \A i \in 0 .. m - 1 : f[i] = IF i = 0 THEN Unasked(d) ELSE AskBlock(f[i - 1], p, i)
    BY <2>3 DEF AreAsked
  <2>7. \A i \in 0 .. m : g[i] = IF i = 0 THEN Unasked(d) ELSE AskBlock(g[i - 1], p, i)
    <3> TAKE i \in 0 .. m
    <3>1. CASE i = m
      <4>1. g[i] = AskBlock(f[m - 1], p, m) /\ m - 1 \in 0 .. m - 1
        BY <1>3, <2>1, <3>1
      <4> QED BY <1>5, <2>5, <3>1, <4>1
    <3>2. CASE i # m
      <4>1. i \in 0 .. m - 1 /\ (i # 0 => i - 1 \in 0 .. m - 1)
        BY <1>3, <3>2
      <4> QED BY <2>5, <2>6, <4>1
    <3> QED BY <3>1, <3>2
  <2>8. g = [i \in 0 .. m |-> IF i = 0 THEN Unasked(d) ELSE AskBlock(g[i - 1], p, i)]
    <3> HIDE DEF g
    <3>1. g = [i \in 0 .. m |-> g[i]]
      BY DEF g
    <3> QED BY <2>7, <3>1
  <2> QED BY <1>3, <2>8 DEF AreAsked
<1> QED BY <1>4, <1>5

LEMMA AsksDone ==
  ASSUME NEW d, NEW p, p.good \in Nat, p.type = 0
  PROVE  \E f : /\ AreAsked(f, p.good, d, p)
                /\ IsNewFrame(d, p).new = f[p.good].new
                /\ IsNewFrame(d, p).dec =
                     [d EXCEPT !.preAngle = f[p.good].d.angle, !.preBlks = f[p.good].d.blks]
<1> DEFINE F == CHOOSE f : AreAsked(f, p.good, d, p)
<1>1. AreAsked(F, p.good, d, p)
  BY AsksExist, Zenon
<1>2. IsNewFrame(d, p) =
        [new |-> F[p.good].new,
         dec |-> [d EXCEPT !.preAngle = F[p.good].d.angle, !.preBlks = F[p.good].d.blks]]
  BY Zenon DEF IsNewFrame, AreAsked, Unasked
<1> HIDE DEF F
<1>3. /\ IsNewFrame(d, p).new = F[p.good].new
      /\ IsNewFrame(d, p).dec =
           [d EXCEPT !.preAngle = F[p.good].d.angle, !.preBlks = F[p.good].d.blks]
  BY <1>2
<1> QED BY <1>1, <1>3

(* The angle x the decoder keeps and the angle y isNewFrame keeps, with    *)
(* block k to come: either one angle, that of the block before or the      *)
(* split angle both start with, or y is left at the split.                 *)
Level(x, y, a, n, k) ==
  \/ y = x /\ (x = SplitAngle \/ x = a[Before(n, k)])
  \/ x = a[Before(n, k)] /\ \E e \in 0 .. n - 1 : e # k /\ CutsAt(a, n, e) /\ y = a[e]

LEMMA NoneBehind ==
  ASSUME NEW a, NEW n, IsSweep(a, n), NEW e \in 0 .. n - 1, NEW k \in 0 .. n - 1,
         CutsAt(a, n, e)
  PROVE  ~AngleSplit(a[e], a[k])
<1>1. PICK from \in 0 .. Round - 1, o \in [0 .. n - 1 -> 0 .. Round - 1] :
        Rising(o, n) /\ a = [m \in 0 .. n - 1 |-> Onward(from, o[m])]
  BY DEF IsSweep
<1>2. n \in Nat /\ n > 1 /\ 0 \in 0 .. n - 1 /\ n - 1 \in 0 .. n - 1
  BY DEF IsSweep
<1>3. /\ a[e] = Onward(from, o[e]) /\ a[k] = Onward(from, o[k])
      /\ o[e] \in 0 .. Round - 1 /\ o[k] \in 0 .. Round - 1 /\ o[n - 1] \in 0 .. Round - 1
      /\ o[k] <= o[n - 1] /\ o[0] = 0 /\ o[n - 1] > 0
  BY <1>1, <1>2 DEF Rising
<1>4. CASE e = 0
  <2>1. AngleSplit(Onward(from, o[n - 1]), Onward(from, 0)) /\ a[e] = Onward(from, 0)
    BY <1>1, <1>2, <1>3, <1>4 DEF CutsAt, Before
  <2> QED BY <1>3, <2>1, CutOnce
<1>5. CASE e # 0
  <2>1. e - 1 \in 0 .. n - 1 /\ Before(n, e) = e - 1 /\ (k <= e - 1 \/ e <= k)
    BY <1>2, <1>5 DEF Before
  <2>2. /\ AngleSplit(Onward(from, o[e - 1]), Onward(from, o[e]))
        /\ o[e - 1] \in 0 .. Round - 1 /\ o[e - 1] <= o[e]
        /\ o[k] <= o[e - 1] \/ o[e] <= o[k]
    BY <1>1, <1>2, <2>1 DEF CutsAt, Rising
  <2> QED BY <1>3, <2>2, CutOnce
<1> QED BY <1>4, <1>5

(* Level angles answer alike, and only of the split of the round.          *)
LEMMA LevelAnswers ==
  ASSUME NEW a, NEW n, IsSweep(a, n), NEW k \in 0 .. n - 1, NEW x, NEW y,
         Level(x, y, a, n, k)
  PROVE  /\ AngleSplit(x, a[k]) <=> AngleSplit(y, a[k])
         /\ AngleSplit(x, a[k]) => CutsAt(a, n, k)
<1>1. CASE y = x /\ x = SplitAngle
  <2>1. a[k] \in 0 .. Round - 1
    BY InSweep
  <2>2. ~AngleSplit(x, a[k])
    BY <1>1, <2>1, Angles DEF AngleSplit
  <2> QED BY <1>1, <2>2
<1>2. CASE y = x /\ x = a[Before(n, k)]
  BY <1>2 DEF CutsAt
<1>3. ASSUME x = a[Before(n, k)], NEW e \in 0 .. n - 1, e # k, CutsAt(a, n, e), y = a[e]
      PROVE  ~AngleSplit(x, a[k]) /\ ~AngleSplit(y, a[k])
  <2>1. ~CutsAt(a, n, k)
    BY <1>3, OneCut
  <2> QED BY <1>3, <2>1, NoneBehind DEF CutsAt
<1> QED BY <1>1, <1>2, <1>3 DEF Level

(* Places less than a round apart differ.                                  *)
LEMMA Apart ==
  ASSUME NEW n \in Nat, n > 0, NEW u \in Nat, NEW v \in Nat, u < v, v < u + n
  PROVE  u % n # v % n
<1> DEFINE q == u \div n
           t == v \div n
<1>1. q \in Int /\ t \in Int /\ u = n * q + (u % n) /\ v = n * t + (v % n)
      /\ u % n \in Int /\ v % n \in Int
  BY Dividing
<1> HIDE DEF q, t
<1>2. n * (t - q) = n * t - n * q /\ n * t \in Int /\ n * q \in Int
  BY <1>1, Spread
<1>3. ASSUME u % n = v % n PROVE FALSE
  <2>1. n * (t - q) = v - u
    BY <1>1, <1>2, <1>3
  <2>2. -n < n * (t - q) /\ n * (t - q) < n /\ t - q \in Int
    BY <1>1, <2>1
  <2>3. t - q = 0
    BY <2>2, Multiple
  <2> QED BY <1>1, <2>1, <2>3
<1> QED BY <1>3

\* m blocks decoded (s) and asked of (g), from place k of the round on.
InPace(a, n, k, m, e, s, g) ==
  /\ DOMAIN s.dec = Fields /\ DOMAIN g.d = Fields /\ s.dec.preAngle = e.preAngle
  /\ s.dec.wait = e.wait
  /\ s.new \in BOOLEAN /\ g.new \in BOOLEAN /\ (s.new <=> g.new)
  /\ ~s.new => Level(s.dec.angle, g.d.angle, a, n, (k + m) % n)
  /\ s.new => /\ s.dec.angle = a[Before(n, (k + m) % n)]
              /\ \E i \in 0 .. m - 1 : /\ CutsAt(a, n, (k + i) % n)
                                       /\ g.d.angle = a[(k + i) % n]

LEMMA BlockPaces ==
  ASSUME NEW a, NEW n, IsSweep(a, n), NEW k \in 0 .. n - 1, NEW m \in Nat, NEW e,
         NEW s, NEW g, InPace(a, n, k, m, e, s, g),
         NEW dev, NEW height, NEW p, p.az[m + 1] = a[(k + m) % n], p.cfg.strategy = "angle"
  PROVE  InPace(a, n, k, m + 1, e, DecodeBlock(dev, height, s, p, m + 1), AskBlock(g, p, m + 1))
<1> DEFINE j == (k + m) % n
           r == DecodeBlock(dev, height, s, p, m + 1)
           h == AskBlock(g, p, m + 1)
           cut == AngleSplit(s.dec.angle, a[j])
<1>1. n \in Nat /\ n > 0 /\ k + m \in Nat
  BY DEF IsSweep
<1>2. j \in 0 .. n - 1 /\ (k + (m + 1)) % n = After(n, j)
  <2>1. k + (m + 1) = (k + m) + 1
    OBVIOUS
  <2> QED BY <1>1, <2>1, Successor
<1> HIDE DEF j
<1>3. Before(n, After(n, j)) = j
  BY <1>2 DEF IsSweep, Before, After
<1>4. IsSplit(s.dec, p.cfg, p.az[m + 1]) = cut
  BY DEF IsSplit, j
<1>5. r.dec = [s.dec EXCEPT !.angle = a[j]] /\ r.new = (s.new \/ cut)
  BY <1>4 DEF DecodeBlock, NewBlock, j
<1>6. h = IF g.new THEN g
          ELSE [d |-> [g.d EXCEPT !.angle = a[j]], new |-> AngleSplit(g.d.angle, a[j])]
  BY DEF AskBlock, NewBlock, IsSplit, j
<1>7. DOMAIN s.dec = Fields /\ DOMAIN g.d = Fields
  BY DEF InPace
<1>8. /\ DOMAIN r.dec = Fields /\ r.dec.angle = a[j]
      /\ r.dec.preAngle = s.dec.preAngle /\ r.dec.wait = s.dec.wait
  BY <1>5, <1>7 DEF Fields
<1>9. (s.new \/ cut) \in BOOLEAN /\ AngleSplit(g.d.angle, a[j]) \in BOOLEAN
  BY Zenon DEF AngleSplit
<1> HIDE DEF r, h, cut
<1>10. ASSUME s.new PROVE InPace(a, n, k, m + 1, e, r, h)
  <2>1. g.new /\ h = g /\ r.new = TRUE
    BY <1>5, <1>6, <1>10 DEF InPace
  <2>2. PICK i \in 0 .. m - 1 : CutsAt(a, n, (k + i) % n) /\ g.d.angle = a[(k + i) % n]
    BY <1>10 DEF InPace
  <2>3. i \in 0 .. (m + 1) - 1
    OBVIOUS
  <2> QED BY <1>2, <1>3, <1>7, <1>8, <1>10, <2>1, <2>2, <2>3 DEF InPace
<1>11. ASSUME ~s.new PROVE InPace(a, n, k, m + 1, e, r, h)
  <2>1. ~g.new /\ Level(s.dec.angle, g.d.angle, a, n, j)
    BY <1>11 DEF InPace, j
  <2>2. /\ cut <=> AngleSplit(g.d.angle, a[j])
        /\ cut => CutsAt(a, n, j)
    BY <1>2, <2>1, LevelAnswers DEF cut
  <2>3. /\ h.new = AngleSplit(g.d.angle, a[j]) /\ DOMAIN h.d = Fields /\ h.d.angle = a[j]
    BY <1>6, <1>7, <2>1 DEF Fields
  <2>4. r.new \in BOOLEAN /\ h.new \in BOOLEAN /\ (r.new <=> h.new) /\ (r.new <=> cut)
    BY <1>5, <1>9, <1>11, <2>2, <2>3
  <2>5. ~r.new => Level(r.dec.angle, h.d.angle, a, n, After(n, j))
    BY <1>3, <1>8, <2>3 DEF Level
  <2>6. r.new => \E i \in 0 .. (m + 1) - 1 : CutsAt(a, n, (k + i) % n) /\ h.d.angle = a[(k + i) % n]
    <3>1. m \in 0 .. (m + 1) - 1
      OBVIOUS
    <3> QED BY <2>2, <2>3, <2>4, <3>1 DEF j
  <2> QED BY <1>2, <1>3, <1>8, <2>3, <2>4, <2>5, <2>6 DEF InPace
<1>12. InPace(a, n, k, m + 1, e, r, h)
  BY <1>10, <1>11
<1> QED BY <1>12 DEF r, h

(* A packet of less than a round, asked of and then decoded.               *)
LEMMA PacketPaces ==
  ASSUME NEW a, NEW n, IsSweep(a, n), NEW k \in 0 .. n - 1, NEW p,
         Carries("angle", p, a, n, k), p.type = 0, p.good < n,
         NEW d, DOMAIN d = Fields, Level(d.angle, d.preAngle, a, n, k),
         NEW e, Moveless(IsNewFrame(d, p).dec, e),
         NEW dev, NEW height, NEW c, NEW times
  PROVE  LET r == InternDecode(dev, height, e, c, p, times)
         IN  /\ IsNewFrame(d, p).new = r.new
             /\ Level(r.dec.angle, r.dec.preAngle, a, n, (k + p.good) % n)
             /\ r.dec.wait = d.wait
<1> DEFINE r == InternDecode(dev, height, e, c, p, times)
<1>1. p.good \in Nat /\ n \in Nat /\ n > 0 /\ p.cfg.strategy = "angle"
  BY DEF Carries, IsSweep
<1>2. PICK f : /\ AreDone(f, p.good, dev, height, e, c, p)
               /\ r = [dec |-> f[p.good].dec, cloud |-> f[p.good].cloud,
                       out |-> f[p.good].out, new |-> f[p.good].new, times |-> times]
  BY <1>1, BlocksDone
<1>3. PICK g : /\ AreAsked(g, p.good, d, p)
               /\ IsNewFrame(d, p).new = g[p.good].new
               /\ IsNewFrame(d, p).dec =
                    [d EXCEPT !.preAngle = g[p.good].d.angle, !.preBlks = g[p.good].d.blks]
  BY <1>1, AsksDone
<1>4. \A i \in 0 .. p.good :
        /\ f[i] = IF i = 0 THEN Undecoded(e, c) ELSE DecodeBlock(dev, height, f[i - 1], p, i)
        /\ g[i] = IF i = 0 THEN Unasked(d) ELSE AskBlock(g[i - 1], p, i)
  BY <1>2, <1>3 DEF AreDone, AreAsked
<1>5. /\ DOMAIN e = Fields /\ e.angle = d.angle /\ e.preAngle = g[p.good].d.angle
      /\ e.wait = d.wait
  BY <1>3 DEF Moveless, Fields
<1> DEFINE S == {m \in 0 .. p.good : ~InPace(a, n, k, m, e, f[m], g[m])}
<1>6. ASSUME S # {} PROVE FALSE
  <2>1. S \subseteq Nat
    BY <1>1
  <2>2. PICK m \in S : \A j \in S : ~(<<j, m>> \in OpToRel(<, Nat))
    BY <1>6, <2>1, NatLessThanWellFounded, WFMin
  <2>3. m \in 0 .. p.good /\ ~InPace(a, n, k, m, e, f[m], g[m])
    OBVIOUS
  <2>4. CASE m = 0
    <3>1. f[0] = Undecoded(e, c) /\ g[0] = Unasked(d) /\ (k + 0) % n = k
      BY <1>1, <1>4
    <3>2. Undecoded(e, c).dec = e /\ Undecoded(e, c).new = FALSE
      BY DEF Undecoded
    <3>3. /\ DOMAIN Unasked(d).d = Fields /\ Unasked(d).d.angle = d.preAngle
          /\ Unasked(d).new = FALSE
      BY DEF Unasked, Fields
    <3> QED BY <1>5, <2>3, <2>4, <3>1, <3>2, <3>3 DEF InPace
  <2>5. CASE m # 0
    <3> DEFINE l == m - 1
    <3>1. l \in 0 .. p.good /\ l \in Nat /\ l < m /\ m = l + 1 /\ m \in 1 .. p.good
      BY <1>1, <2>3, <2>5
    <3>2. <<l, m>> \in OpToRel(<, Nat)
      BY <3>1 DEF OpToRel
    <3>3. InPace(a, n, k, l, e, f[l], g[l])
      BY <2>2, <3>1, <3>2
    <3>4. f[m] = DecodeBlock(dev, height, f[l], p, m) /\ g[m] = AskBlock(g[l], p, m)
      BY <1>4, <2>3, <2>5
    <3>5. p.az[m] = a[(k + l) % n]
      <4>1. k + m - 1 = k + l
        BY <3>1
      <4> QED BY <3>1, <4>1 DEF Carries
    <3> HIDE DEF l
    <3>6. InPace(a, n, k, l + 1, e, DecodeBlock(dev, height, f[l], p, l + 1),
                 AskBlock(g[l], p, l + 1))
      BY <1>1, <3>1, <3>3, <3>5, BlockPaces
    <3> QED BY <2>3, <3>1, <3>4, <3>6
  <2> QED BY <2>4, <2>5
<1>7. InPace(a, n, k, p.good, e, f[p.good], g[p.good])
  BY <1>1, <1>6
<1>8. /\ r.dec = f[p.good].dec /\ r.new = f[p.good].new
  BY <1>2
<1> HIDE DEF r
<1>9. IsNewFrame(d, p).new = r.new /\ r.dec.wait = d.wait /\ r.dec.preAngle = g[p.good].d.angle
  BY <1>3, <1>5, <1>7, <1>8 DEF InPace
<1>10. Level(r.dec.angle, r.dec.preAngle, a, n, (k + p.good) % n)
  <2>1. CASE ~r.new
    BY <1>7, <1>8, <1>9, <2>1 DEF InPace
  <2>2. CASE r.new
    <3>1. r.dec.angle = a[Before(n, (k + p.good) % n)]
      BY <1>7, <1>8, <2>2 DEF InPace
    <3>2. PICK i \in 0 .. p.good - 1 : /\ CutsAt(a, n, (k + i) % n)
                                       /\ g[p.good].d.angle = a[(k + i) % n]
      BY <1>7, <1>8, <2>2 DEF InPace
    <3>3. /\ k + i \in Nat /\ k + p.good \in Nat /\ k + i < k + p.good
          /\ k + p.good < k + i + n
      BY <1>1
    <3>4. (k + i) % n # (k + p.good) % n /\ (k + i) % n \in 0 .. n - 1
      BY <1>1, <3>3, Apart, Successor
    <3> QED BY <1>9, <3>1, <3>2, <3>4 DEF Level
  <2> QED BY <2>1, <2>2
<1> QED BY <1>9, <1>10 DEF r

\* Until a packet is lost or damaged or the LiDAR set up anew.
PaceInv ==
  /\ upsets \in Nat
  /\ cfg.strategy = "angle" /\ ~dec.wait /\ upsets = 0 =>
       /\ Level(dec.angle, dec.preAngle, Sweep(sensor), RoundBlocks(sensor), sensor.next)
       /\ heard.at # <<>> => heard.paced

LEMMA Processed ==
  ASSUME NEW p, Process(p), ~dec.wait, NEW asked, asked = IsNewFrame(dec, p),
         NEW r, r = DecodeMsop(sensor.model, asked.dec, cloud, p)
  PROVE  dec' = r.dec /\ (asked.new = r.new => heard'.paced)
<1>1. /\ dec' = r.dec
      /\ heard' = [at |-> p.at, step |-> Step(sensor), times |-> r.times, new |-> r.new,
                   paced |-> asked.new = r.new,
                   inStep |-> ~(p.good < Len(p.az)) /\ InStep(sensor, r.dec)]
  BY Zenon DEF Process
<1> QED BY <1>1

LEMMA MsopPaces ==
  ASSUME WholeInv, PaceInv, Msop
  PROVE  PaceInv' /\ dec'.wait = dec.wait
<1> DEFINE n == RoundBlocks(sensor)
           a == Sweep(sensor)
           k == sensor.next
           blocks == Device(sensor.model).blocks
           p == Packet(sensor, 0, blocks, 0)
           asked == IsNewFrame(dec, p)
           r == DecodeMsop(sensor.model, asked.dec, cloud, p)
<1>1. /\ Turning /\ sensor.model \in Models /\ k \in 0 .. n - 1
      /\ Tallied(How, a, n, dec, cloud, k)
      /\ sensor.model \in Columned => sensor.lines \in {48, 96} /\ Learnt(dec)
      /\ How = "fixed" => sensor.model \in CountedLidars
  BY LinesKnown DEF WholeInv
<1>2. blocks \in Nat /\ n \in Nat /\ n > 0 /\ blocks < n
  <2>1. n >= 2 * blocks
    BY <1>1 DEF Turning, ToScale
  <2> QED BY <1>1, <2>1, Devices, RoundLength
<1>3. /\ Process(p) /\ sensor' = Turned(sensor, blocks) /\ cfg' = cfg /\ upsets' = upsets
  BY DEF Msop
<1>4. /\ Carries(How, p, a, n, k) /\ p.good = blocks /\ p.type = 0 /\ p.lines = sensor.lines
  BY <1>1, <1>2, PacketCarries
<1>5. /\ RoundBlocks(sensor') = n /\ Sweep(sensor') = a /\ sensor'.next = (k + blocks) % n
  <2>1. SameLidar /\ sensor'.next = (k + blocks) % n
    BY <1>1, <1>2, <1>3, TurnedPlace
  <2> QED BY <1>3, <2>1, SameRounds
<1>6. IsSweep(a, n) /\ DOMAIN dec = Fields
  BY <1>1, SweepIs DEF Tallied
<1>7. SameButPre(dec, asked.dec)
  BY <1>6, Asked
<1>8. asked.dec.wait = dec.wait /\ Tallied(How, a, n, asked.dec, cloud, k)
      /\ (Learnt(dec) => Learnt(asked.dec))
  <2> HIDE DEF asked, a, n, k
  <2> QED BY <1>1, <1>7, AskedTallies
<1>9. Msops(How, a, n, sensor.model, asked.dec, p, k, r)
  <2> HIDE DEF asked, a, n, k, p
  <2> QED BY <1>1, <1>4, <1>6, <1>8, MsopTallies
<1>10. dec'.wait = dec.wait
  <2>1. r.dec.wait = asked.dec.wait
    BY <1>9 DEF Msops
  <2>2. dec' = asked.dec \/ dec' = r.dec
    BY <1>3 DEF Process
  <2> QED BY <1>8, <2>1, <2>2
<1>11. ASSUME cfg.strategy = "angle", ~dec.wait, upsets = 0
       PROVE  /\ Level(dec'.angle, dec'.preAngle, a, n, (k + blocks) % n)
              /\ heard'.paced
  <2>1. dec' = r.dec /\ (asked.new = r.new => heard'.paced)
    <3> HIDE DEF p, asked, r
    <3>1. asked = IsNewFrame(dec, p) /\ r = DecodeMsop(sensor.model, asked.dec, cloud, p)
      BY Zenon DEF asked, r
    <3> QED BY <1>3, <1>11, <3>1, Processed
  <2>2. How = "angle" /\ Level(dec.angle, dec.preAngle, a, n, k)
    BY <1>11 DEF How, PaceInv
  <2>3. Understood(sensor.model, asked.dec, cloud, p, r)
    <3>1. DOMAIN asked.dec = Fields
      BY <1>7 DEF SameButPre
    <3> QED BY <1>1, <3>1, MsopIs
  <2> HIDE DEF r, p, a, n, k
  <2>4. ASSUME NEW dev, NEW height, NEW e, NEW times, Setup(sensor.model, asked.dec, e, p),
               r = InternDecode(dev, height, e, cloud, p, times)
        PROVE  asked.new = r.new /\ Level(r.dec.angle, r.dec.preAngle, a, n, (k + blocks) % n)
    <3>1. Moveless(IsNewFrame(dec, p).dec, e)
      BY <2>4 DEF Setup
    <3> QED BY <1>1, <1>2, <1>4, <1>6, <2>2, <2>4, <3>1, PacketPaces
  <2>5. ASSUME NEW e, Setup(sensor.model, asked.dec, e, p), Unknown(sensor.model, e, p)
        PROVE  FALSE
    <3> HIDE DEF asked
    <3>1. sensor.model \in Columned => p.lines \in {48, 96} /\ Learnt(asked.dec)
      BY <1>1, <1>4, <1>8
    <3> QED BY <1>1, <1>4, <1>8, <2>5, <3>1, SetupTallies
  <2> DEFINE G == asked.new = r.new /\ Level(r.dec.angle, r.dec.preAngle, a, n, (k + blocks) % n)
  <2>6. G
    <3> HIDE DEF G, asked
    <3>1. \A dev, height, e, times :
            Setup(sensor.model, asked.dec, e, p)
              /\ r = InternDecode(dev, height, e, cloud, p, times) => G
      BY <2>4, Zenon DEF G
    <3>2. \A e : ~(Setup(sensor.model, asked.dec, e, p) /\ Unknown(sensor.model, e, p))
      BY <2>5, Zenon
    <3> QED BY <2>3, <3>1, <3>2, Zenon DEF Understood
  <2> QED BY <2>1, <2>6
<1> HIDE DEF a, n, k, blocks
<1> QED BY <1>3, <1>5, <1>10, <1>11 DEF PaceInv

LEMMA PaceStarts == MechInit => PaceInv
<1> SUFFICES ASSUME MechInit PROVE PaceInv
  OBVIOUS
<1>1. dec.angle = SplitAngle /\ dec.preAngle = SplitAngle /\ upsets = 0 /\ heard.at = <<>>
  BY DEF MechInit, MechStart, Nothing
<1> QED BY <1>1 DEF PaceInv, Level

LEMMA DifopPaces ==
  ASSUME WholeInv, PaceInv, Difop
  PROVE  PaceInv' /\ dec'.wait = dec.wait
<1>1. PICK cali \in BOOLEAN, rps \in {sensor.rps, 0} :
        /\ dec' = DecodeDifop(sensor.model, dec,
                     [mode |-> sensor.mode, rps |-> rps, fov |-> sensor.fov,
                      cali |-> cali, install |-> sensor.install])
        /\ upsets' = IF rps = 0 THEN upsets + 1 ELSE upsets
  BY DEF Difop
<1>2. cfg' = cfg /\ sensor' = sensor /\ heard' = heard
  BY DEF Difop
<1>3. Moveless(dec, dec')
  <2>1. sensor.model \in Models /\ DOMAIN dec = Fields
    BY LinesKnown DEF WholeInv, Tallied
  <2> QED BY <1>1, <2>1, DifopMoves
<1>4. upsets' \in Nat /\ (upsets' = 0 => upsets = 0)
  BY <1>1 DEF PaceInv
<1> QED BY <1>2, <1>3, <1>4 DEF PaceInv, Moveless

(* isNewFrame and the decoder stay level: each time the input asks.        *)
LEMMA PaceStep == WholeInv /\ PaceInv /\ [MechNext]_mechVars => PaceInv'
<1> SUFFICES ASSUME WholeInv, PaceInv, [MechNext]_mechVars PROVE PaceInv'
  OBVIOUS
<1>1. CASE DamagedMsop \/ OtherMsop \/ Lost \/ Reconfigure
  <2>1. upsets' = upsets + 1
    BY <1>1 DEF DamagedMsop, OtherMsop, Lost, Reconfigure
  <2> QED BY <2>1 DEF PaceInv
<1>2. CASE UNCHANGED mechVars
  BY <1>2 DEF mechVars, PaceInv
<1> QED BY <1>1, <1>2, MsopPaces, DifopPaces DEF MechNext

(* In a recording that misses no packet isNewFrame answers of each packet  *)
(* just what decoding it does, so that the playback pauses once a cloud:   *)
(* split by angle, whatever LiDAR                                          *)
(* (InputPcap's pacing, isNewFrame, SplitStrategyByAngle::newBlock).       *)
THEOREM PlaybackIsPaced == MechSpec => PacedWithClouds
<1>1. WholeInv /\ PaceInv /\ [MechNext]_mechVars =>
        [cfg.strategy = "angle" /\ ~dec.wait /\ upsets' = 0 /\ heard'.at # <<>>
           => heard'.paced]_mechVars
  <2> SUFFICES ASSUME WholeInv, PaceInv, MechNext, cfg.strategy = "angle", ~dec.wait,
                      upsets' = 0, heard'.at # <<>>
               PROVE  heard'.paced
    OBVIOUS
  <2>1. PaceInv'
    BY PaceStep
  <2>2. cfg' = cfg
    BY DEF MechNext, Msop, DamagedMsop, OtherMsop, Lost, Difop, Reconfigure
  <2>3. Msop \/ Difop
    <3>1. DamagedMsop \/ OtherMsop \/ Lost \/ Reconfigure => upsets' = upsets + 1
      BY DEF DamagedMsop, OtherMsop, Lost, Reconfigure
    <3>2. upsets \in Nat
      BY DEF PaceInv
    <3> QED BY <3>1, <3>2 DEF MechNext
  <2>4. dec'.wait = dec.wait
    BY <2>3, MsopPaces, DifopPaces
  <2> QED BY <2>1, <2>2, <2>4 DEF PaceInv
<1> QED BY <1>1, PaceStarts, PaceStep, CountInvariant, PTL DEF MechSpec, PacedWithClouds
=============================================================================
