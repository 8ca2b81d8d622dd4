------------------------------- MODULE Inputs -------------------------------
(***************************************************************************)
(* Where rs_driver's packets come from (driver/input): sockets, waited for *)
(* with select or with epoll; a recording (pcap); a recording of jumbo     *)
(* packets, put together from their IP fragments; or the caller (raw).     *)
(* An input is initialised, started, stopped and destroyed by the driver,  *)
(* and has a thread that receives and pushes packets.  The ports are       *)
(* numbered like fds_: 0 MSOP, 1 DIFOP, 2 IMU.                             *)
(***************************************************************************)
EXTENDS Naturals, Integers, Sequences, FiniteSets

CONSTANTS
    Kinds,      \* "select", "epoll", "pcap", "jumbo", "raw"
    MaxWaiting, \* bound: datagrams waiting in a socket
    MaxAir,     \* bound: fragments on their way to the recording
    Fragments,  \* fragments of a jumbo packet
    MaxSent,    \* bound: jumbo packets and other datagrams sent
    MaxFaults   \* bound: starts, discarded datagrams, waits that fail, lost or
                \* repeated fragments

ASSUME FragmentsAssumption == Fragments \in Nat /\ Fragments > 1

VARIABLES
    kind, own,  \* the kind of input, the ports that have a socket of their own
    repeat,     \* pcap_repeat
    flags,      \* init_flag_, start_flag_, to_exit_recv_; whether the
                \* initialisation failed, and whether the object is gone
    fds,        \* fds_
    open,       \* descriptors of this input the kernel holds open
    strayed,    \* whether a descriptor was closed that was not open, or not ours
    pcap,       \* pcap_: "null", "open"
    thread,     \* where the thread is, what was ready, and which it reads next
    waiting,    \* datagrams waiting in the socket of each port
    jumbo,      \* ip_id_ and the fragments in buf_
    air,        \* fragments sent but not recorded yet
    sent,       \* jumbo packets and other datagrams sent
    pushed,     \* the last packet pushed
    faults

socks == <<fds, open, strayed, waiting>>
file == <<pcap, jumbo, air, sent>>
vars == <<kind, own, repeat, flags, fds, open, strayed, pcap, thread, waiting,
          jumbo, air, sent, pushed, faults>>

Ports == 0 .. 2
Fd(port) == 3 + port
Sock == kind \in {"select", "epoll"}
Idle == [at |-> "none", ready |-> <<>>, i |-> 0]

\* int fds_[3]{ -1 } leaves zero in the others.
Init ==
    /\ kind \in Kinds
    /\ own \in {{0}, {0, 1}, {0, 1, 2}}
    /\ repeat \in BOOLEAN
    /\ flags = [init |-> FALSE, start |-> FALSE, toExit |-> FALSE,
                failed |-> FALSE, gone |-> FALSE]
    /\ fds = [p \in Ports |-> IF p = 0 THEN -1 ELSE 0]
    /\ open = {} /\ strayed = FALSE
    /\ pcap = "null"
    /\ thread = Idle
    /\ waiting = [p \in Ports |-> 0]
    /\ jumbo = [id |-> 0, buf |-> <<>>]
    /\ air = {} /\ sent = 0
    /\ pushed = <<>>
    /\ faults = 0

-----------------------------------------------------------------------------
\* The driver's calls.

\* InputSock::init: the sockets are made in turn; at the first that cannot be
\* made those before it are closed again.  select stores the first two
\* descriptors before the third is made, and the third; epoll never stores it.
Stored(k, failed) ==
    [p \in Ports |->
        IF p = 2 /\ (k = "epoll" \/ failed = 2) THEN fds[2]
        ELSE IF p \in own THEN Fd(p) ELSE -1]
InitSock ==
    /\ Sock /\ ~flags.init /\ ~flags.failed
    /\ \E failed \in own \cup {3} :
          /\ fds' = IF failed < 2 THEN fds ELSE Stored(kind, failed)
          /\ open' = IF failed = 3 THEN {Fd(p) : p \in own} ELSE {}
          /\ flags' = [flags EXCEPT !.init = failed = 3, !.failed = failed # 3]
    /\ UNCHANGED <<kind, own, repeat, strayed, thread, waiting, file, pushed, faults>>

\* InputPcap::init and InputPcapJumbo::init; the raw input has none.
InitPcap ==
    /\ ~Sock /\ ~flags.init /\ ~flags.gone
    /\ flags' = [flags EXCEPT !.init = TRUE]
    /\ pcap' = IF kind = "raw" THEN pcap ELSE "open"
    /\ UNCHANGED <<kind, own, repeat, thread, socks, jumbo, air, sent, pushed, faults>>

Start ==
    /\ flags.init /\ ~flags.start /\ ~flags.gone /\ kind # "raw"
    /\ faults < MaxFaults
    /\ flags' = [flags EXCEPT !.start = TRUE, !.toExit = FALSE]
    /\ thread' = [Idle EXCEPT !.at = "top"]
    /\ faults' = faults + 1
    /\ UNCHANGED <<kind, own, repeat, socks, file, pushed>>

\* Input::stop, from the flag to the join.
StopFlag ==
    /\ flags.start /\ ~flags.toExit
    /\ flags' = [flags EXCEPT !.toExit = TRUE]
    /\ UNCHANGED <<kind, own, repeat, thread, socks, file, pushed, faults>>
StopJoin ==
    /\ flags.start /\ flags.toExit /\ thread.at \in {"dead", "ended", "failed"}
    /\ flags' = [flags EXCEPT !.start = FALSE]
    /\ UNCHANGED <<kind, own, repeat, thread, socks, file, pushed, faults>>

\* The destructors: stop(), which has been joined, then the descriptors.
Close ==
    /\ open' = open \ {fds[p] : p \in Ports}
    /\ strayed' = (strayed \/ (Sock /\ \E p \in Ports : fds[p] >= 0 /\ fds[p] \notin open))
    /\ pcap' = "null"
    /\ flags' = [flags EXCEPT !.gone = TRUE]
    /\ UNCHANGED <<kind, own, repeat, fds, thread, waiting, jumbo, air, sent, pushed, faults>>
DestroyRunning ==                                       (* mutant: stop() left out *)
    (flags.init \/ flags.failed) /\ ~flags.gone /\ Close
Destroy ==
    (flags.init \/ flags.failed) /\ ~flags.start /\ ~flags.gone /\ Close

\* InputRaw::feedPacket: the caller's packet is pushed at once.
Feed ==
    /\ kind = "raw" /\ ~flags.gone /\ sent < MaxSent
    /\ sent' = sent + 1
    /\ pushed' = <<[dg |-> sent', off |-> 0]>>
    /\ UNCHANGED <<kind, own, repeat, flags, thread, socks, pcap, jumbo, air, faults>>

-----------------------------------------------------------------------------
\* The thread.

Still == <<kind, own, repeat, flags, fds, open, strayed, pcap, jumbo, air, sent>>
Others == <<Still, faults>>

Top ==
    /\ thread.at = "top"
    /\ thread' = [thread EXCEPT !.at = IF flags.toExit THEN "dead"
                                       ELSE IF Sock THEN "wait" ELSE "file"]
    /\ UNCHANGED <<Others, waiting, pushed>>

\* select: the sockets to read are the ready ones of fds_, in that order.  A
\* wait that times out reports so and starts over, one that a signal
\* interrupts starts over, and one that fails for another reason (the kernel
\* is out of memory, say) ends the thread.
Watched == {p \in own : Fd(p) \in open}
ReadyPorts == SelectSeq(<<0, 1, 2>>, LAMBDA p : p \in Watched /\ waiting[p] > 0)
Wait(reads) ==
    /\ thread.at = "wait"
    /\ \/ /\ thread' = IF ReadyPorts = <<>> THEN [thread EXCEPT !.at = "top"]
                       ELSE [at |-> "read", ready |-> reads, i |-> 1]
          /\ UNCHANGED faults
       \/ /\ faults < MaxFaults
          /\ thread' = [thread EXCEPT !.at = "failed"]
          /\ faults' = faults + 1
    /\ UNCHANGED <<Still, waiting, pushed>>
Select == kind = "select" /\ Wait(ReadyPorts)

\* epoll_wait: as many events as there are ready sockets, in any order; the
\* i-th event makes the thread read the i-th descriptor of fds_.
Epoll == kind = "epoll" /\ Wait([i \in DOMAIN ReadyPorts |-> i - 1])

\* recvfrom: a socket without a datagram gives an error, which ends this round
\* (select) or the thread (epoll).
ErrorEnds(k) == [thread EXCEPT !.at = "dead"]        (* mutant: select like epoll *)
Error(k) == [thread EXCEPT !.at = IF k = "select" THEN "top" ELSE "dead"]
RoundDone == thread.i = Len(thread.ready)
ReadFirst ==                               (* mutant: one datagram a round *)
    /\ thread.at = "read"
    /\ LET p == thread.ready[1] IN
       IF fds[p] = Fd(p) /\ waiting[p] > 0
       THEN /\ waiting' = [waiting EXCEPT ![p] = @ - 1]
            /\ pushed' = <<[dg |-> 0, off |-> 0]>>
            /\ thread' = [thread EXCEPT !.at = "top"]
       ELSE thread' = Error(kind) /\ UNCHANGED <<waiting, pushed>>
    /\ UNCHANGED Others
Read ==
    /\ thread.at = "read"
    /\ LET p == thread.ready[thread.i] IN
       IF fds[p] = Fd(p) /\ waiting[p] > 0
       THEN /\ waiting' = [waiting EXCEPT ![p] = @ - 1]
            /\ pushed' = <<[dg |-> 0, off |-> 0]>>
            /\ thread' = IF RoundDone THEN [thread EXCEPT !.at = "top"]
                         ELSE [thread EXCEPT !.i = @ + 1]
       ELSE /\ thread' = Error(kind)
            /\ UNCHANGED <<waiting, pushed>>
    /\ UNCHANGED Others

\* The kernel: datagrams arrive, and one that select saw may be discarded, its
\* checksum being wrong, before it is read.
Datagram ==
    /\ Sock
    /\ \E p \in Watched :
          /\ waiting[p] < MaxWaiting
          /\ waiting' = [waiting EXCEPT ![p] = @ + 1]
    /\ UNCHANGED <<Others, thread, pushed>>
Discard ==
    /\ faults < MaxFaults
    /\ \E p \in Watched :
          /\ waiting[p] > 0
          /\ waiting' = [waiting EXCEPT ![p] = @ - 1]
    /\ faults' = faults + 1
    /\ UNCHANGED <<kind, own, repeat, flags, fds, open, strayed, file, thread, pushed>>

-----------------------------------------------------------------------------
\* InputPcap::recvPacket and InputPcapJumbo::recvPacket.

\* The end of the file: it is opened again, or the thread ends.  Reading
\* through the closed file is the end of the program.
EndOfFile ==
    /\ thread.at = "file" /\ pcap = "open"
    /\ IF repeat
       THEN /\ pcap' \in {"open", "null"}
            /\ thread' = [thread EXCEPT !.at = "top"]
       ELSE /\ pcap' = "null"
            /\ thread' = [thread EXCEPT !.at = "ended"]
    /\ UNCHANGED <<kind, own, repeat, flags, socks, jumbo, air, sent, pushed, faults>>
ReadClosed ==
    /\ thread.at = "file" /\ pcap = "null"
    /\ thread' = [thread EXCEPT !.at = "crash"]
    /\ UNCHANGED <<Others, waiting, pushed>>

\* A record of a packet for one of the ports is pushed if its length fits the
\* buffer; all others are passed over.
PcapRecord ==
    /\ kind = "pcap" /\ thread.at = "file" /\ pcap = "open"
    /\ \E port \in Ports, fits \in BOOLEAN :
          /\ thread' = [thread EXCEPT !.at = "top"]
          /\ pushed' = IF port \in own /\ fits THEN <<[dg |-> port, off |-> 0]>>
                       ELSE pushed
    /\ UNCHANGED <<Others, waiting>>

\* new_fragment, on the fragment f of datagram f.dg: at.  A datagram that is
\* not fragmented is handed on at once; the fragments of another one are
\* collected as long as each begins where the last one ended.
FragmentAnywhere(j, f) ==                  (* mutant: appended wherever it belongs *)
    IF f.id = j.id
    THEN LET buf == Append(j.buf, f) IN
         IF f.more THEN [jumbo |-> [j EXCEPT !.buf = buf], out |-> <<>>]
         ELSE [jumbo |-> [id |-> 0, buf |-> buf], out |-> buf]
    ELSE IF f.off # 0 THEN [jumbo |-> j, out |-> <<>>]
    ELSE IF f.more THEN [jumbo |-> [id |-> f.id, buf |-> <<f>>], out |-> <<>>]
    ELSE [jumbo |-> j, out |-> <<f>>]
Fragment(j, f) ==
    IF f.id = j.id
    THEN IF f.off # Len(j.buf) THEN [jumbo |-> j, out |-> <<>>]
         ELSE LET buf == Append(j.buf, f) IN
              IF f.more THEN [jumbo |-> [j EXCEPT !.buf = buf], out |-> <<>>]
              ELSE [jumbo |-> [id |-> 0, buf |-> buf], out |-> buf]
    ELSE IF f.off # 0 THEN [jumbo |-> j, out |-> <<>>]
    ELSE IF f.more THEN [jumbo |-> [id |-> f.id, buf |-> <<f>>], out |-> <<>>]
    ELSE [jumbo |-> j, out |-> <<f>>]
JumboRecord ==
    /\ kind = "jumbo" /\ thread.at = "file" /\ pcap = "open"
    /\ \E f \in air, again \in BOOLEAN :
          LET r == Fragment(jumbo, f) IN
          /\ again => faults < MaxFaults
          /\ air' = IF again THEN air ELSE air \ {f}
          /\ faults' = IF again THEN faults + 1 ELSE faults
          /\ jumbo' = r.jumbo
          /\ pushed' = IF r.out = <<>> THEN pushed ELSE r.out
    /\ thread' = [thread EXCEPT !.at = "top"]
    /\ UNCHANGED <<kind, own, repeat, flags, socks, pcap, sent>>

\* The LiDAR and the network that was recorded: jumbo packets and small ones,
\* each with an identification of its own, their fragments in any order.
Send ==
    /\ kind = "jumbo" /\ flags.start /\ sent < MaxSent
    /\ \E n \in {1, Fragments} :
          /\ Cardinality(air) + n <= MaxAir
          /\ air' = air \cup {[dg |-> sent + 1, id |-> sent + 1, off |-> i, more |-> i < n - 1] :
                                i \in 0 .. n - 1}
    /\ sent' = sent + 1
    /\ UNCHANGED <<kind, own, repeat, flags, thread, socks, pcap, jumbo, pushed, faults>>
LoseFragment ==
    /\ faults < MaxFaults
    /\ \E f \in air : air' = air \ {f}
    /\ faults' = faults + 1
    /\ UNCHANGED <<kind, own, repeat, flags, thread, socks, pcap, jumbo, sent, pushed>>

-----------------------------------------------------------------------------
Receiving == Top \/ Select \/ Epoll \/ Read \/ EndOfFile \/ ReadClosed \/ PcapRecord
             \/ JumboRecord
Next ==
  /\ thread.at # "crash"
  /\ \/ InitSock \/ InitPcap \/ Start \/ StopFlag \/ StopJoin \/ Destroy \/ Feed
     \/ Receiving \/ Datagram \/ Discard \/ Send \/ LoseFragment

\* The thread is scheduled, and stop() waits for it.
Spec == Init /\ [][Next]_vars /\ WF_vars(Receiving) /\ WF_vars(StopJoin)

-----------------------------------------------------------------------------
\* No datagram ends the thread, whatever the kernel discards between the wait
\* and the read: recvPacket returns only when told to, at the end of a
\* recording that is not repeated, or when the wait itself failed.
EndedItself == thread.at = "dead" /\ ~flags.toExit /\ flags.start
KeepsReceiving == EndedItself => kind = "epoll"

\* An input closes each of its descriptors once, closes no other, and leaves
\* none open nor its thread behind.  An initialisation that fails midway is
\* the exception: the destructor closes what it closed already, or, its
\* descriptors still being zero, the standard input.  With epoll, which does
\* not store the descriptor of the IMU, that happens in any case.
ClosesItsOwn ==
    kind # "epoll" =>
        /\ strayed => flags.failed
        /\ flags.gone => open = {} /\ thread.at \in {"none", "dead", "ended", "failed"}

\* What a jumbo input pushes is a datagram as it was sent: all its fragments,
\* in order, and none of another.
Reassembled ==
    pushed # <<>> /\ kind = "jumbo" =>
        /\ \A i \in DOMAIN pushed : pushed[i].off = i - 1 /\ pushed[i].dg = pushed[1].dg
        /\ ~pushed[Len(pushed)].more /\ \A i \in 1 .. Len(pushed) - 1 : pushed[i].more

\* No socket starves: while the input runs and its waits do not fail, datagrams
\* waiting at one port are read, however many arrive at the others.
EveryPortServed ==
    \A p \in Ports :
        (kind = "select" /\ waiting[p] = MaxWaiting /\ flags.start)
            ~> (\/ waiting[p] < MaxWaiting
                \/ ~flags.start \/ flags.toExit \/ thread.at = "failed")
=============================================================================
