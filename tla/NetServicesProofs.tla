------------------------- MODULE NetServicesProofs --------------------------
(***************************************************************************)
(* Two parts that share nothing but the arithmetic of the library.         *)
(* Of Net, for every number of threads and of messages: how many datagrams *)
(* the UDP senders send that count messages, and what has happened where a *)
(* receiver that counts waits for ever.  Of the services, for every file,  *)
(* buffer, clock and list of calls: a file that is read is in memory as a  *)
(* whole, the processors counted are those the file names, the functions   *)
(* of Clocks measure what has elapsed, and those of Statistics speak of    *)
(* the sample, however often the array has been sorted.                    *)
(***************************************************************************)
EXTENDS Net, Services, FiniteSetTheorems, SequenceTheorems, WellFoundedInduction, TLAPS

-----------------------------------------------------------------------------
(* Sending: the threads that have found the count above zero and have not  *)
(* decremented it since.  Uncounted: those of them that have sent.         *)

Sending == {t \in Thread : spc[t] \in {"send", "dec"}}
Uncounted == {t \in Thread : spc[t] = "dec"}

(* A thread that finds the count above zero makes Sending larger by one,   *)
(* and a decrement makes both the count and Sending smaller by one: so the *)
(* count is always above the number of threads in Sending less all threads.*)
(* What has been sent is what the count has lost, and what is uncounted.   *)
CountInv ==
  /\ mpac_net_msgcount \in Int /\ sent \in Nat
  /\ spc \in [Thread -> {"start", "open", "count", "send", "dec", "close", "done"}]
  /\ message_count \in [Thread -> Int]
  /\ mpac_net_msgcount > Cardinality(Sending) - num_thrs
  /\ sent = opts.num_msg - mpac_net_msgcount + Cardinality(Uncounted)
  /\ \A t \in Thread : spc[t] = "open" /\ message_count[t] <= 0 => mpac_net_msgcount <= 0
  /\ \A t \in Thread : spc[t] \in {"close", "done"} => mpac_net_msgcount <= 0

UdpCount == ~Tcp /\ ~Timed

SendInv == opts \in Setups /\ (UdpCount => CountInv)

LEMMA ThreadFinite == IsFiniteSet(Thread) /\ Cardinality(Thread) = num_thrs
BY NetAssumption, FS_Interval DEF Thread

LEMMA SubsetSize ==
  ASSUME NEW S \in SUBSET Thread
  PROVE  IsFiniteSet(S) /\ Cardinality(S) \in Nat /\ Cardinality(S) <= num_thrs
BY ThreadFinite, FS_Subset, FS_CardinalityType

LEMMA Joins ==
  ASSUME NEW S \in SUBSET Thread, NEW t \in Thread, t \notin S
  PROVE  Cardinality(S \cup {t}) = Cardinality(S) + 1
BY SubsetSize, FS_AddElement

LEMMA Leaves ==
  ASSUME NEW S \in SUBSET Thread, NEW t \in S
  PROVE  Cardinality(S \ {t}) = Cardinality(S) - 1
BY SubsetSize, FS_RemoveElement

LEMMA InitCounts == NInit => SendInv
<1> SUFFICES ASSUME NInit, UdpCount PROVE CountInv
  BY DEF NInit, SendInv
<1>1. Sending = {} /\ Uncounted = {}
  BY DEF NInit, Sending, Uncounted
<1>2. Cardinality({}) = 0
  BY FS_EmptySet
<1>3. opts.num_msg \in Nat \ {0} /\ num_thrs \in Nat \ {0}
  BY NetAssumption DEF NInit
<1>4. QED
  BY <1>1, <1>2, <1>3 DEF NInit, CountInv

-----------------------------------------------------------------------------
(* One step of a thread t of the sender, with UDP and a count.             *)

LEMMA ThreadCounts ==
  ASSUME SendInv, UdpCount, NEW t \in Thread, SenderThread(t)
  PROVE  CountInv'
<1>1. opts' = opts /\ opts.num_msg \in Nat /\ num_thrs \in Nat
  BY NetAssumption DEF SendInv, SenderThread, Start, OpenSocket, Connect, Open, Count,
     SendDatagram, Decrement, Write, Close, CloseAgain
<1>2. Sending \subseteq Thread /\ Uncounted \subseteq Thread
  BY DEF Sending, Uncounted
<1>3. /\ Cardinality(Sending) \in Nat /\ Cardinality(Sending) <= num_thrs
      /\ Cardinality(Uncounted) \in Nat
  BY <1>2, SubsetSize
<1> USE <1>1, <1>3 DEF SendInv, UdpCount, CountInv
<1>4. CASE Start(t) \/ Open(t)
  <2>1. Sending' = Sending /\ Uncounted' = Uncounted
    BY <1>4 DEF Start, Open, BeginLoop, Go, Sending, Uncounted
  <2>2. /\ UNCHANGED <<mpac_net_msgcount, sent>>
        /\ message_count' \in [Thread -> Int]
        /\ spc' \in [Thread -> {"start", "open", "count", "send", "dec", "close", "done"}]
    BY <1>4 DEF Start, Open, BeginLoop, Go, Share, history
  <2>3. ASSUME NEW u \in Thread, spc'[u] = "open", message_count'[u] <= 0
        PROVE  mpac_net_msgcount <= 0
    BY <1>4, <2>3 DEF Start, Open, BeginLoop, Go, Share
  <2>4. ASSUME NEW u \in Thread, spc'[u] \in {"close", "done"}
        PROVE  mpac_net_msgcount <= 0
    BY <1>4, <2>4 DEF Start, Open, BeginLoop, Go
  <2>5. QED
    BY <2>1, <2>2, <2>3, <2>4
<1>5. CASE Count(t) /\ mpac_net_msgcount <= 0
  <2>1. Sending' = Sending /\ Uncounted' = Uncounted
    BY <1>5 DEF Count, Go, Sending, Uncounted
  <2>2. QED
    BY <1>5, <2>1 DEF Count, Go, history
<1>6. CASE Count(t) /\ mpac_net_msgcount > 0
  <2>1. /\ Sending' = Sending \cup {t} /\ t \notin Sending
        /\ Uncounted' = Uncounted
    BY <1>6 DEF Count, Go, Sending, Uncounted
  <2>2. Cardinality(Sending') = Cardinality(Sending) + 1
    BY <2>1, <1>2, Joins
  <2>3. Cardinality(Sending') <= num_thrs
    BY SubsetSize DEF Sending, Thread
  <2>4. QED
    BY <1>6, <2>1, <2>2, <2>3 DEF Count, Go, history
<1>7. CASE SendDatagram(t)
  <2>1. /\ spc[t] = "send" /\ spc' = [spc EXCEPT ![t] = "dec"]
        /\ sent' = sent + 1
        /\ UNCHANGED <<mpac_net_msgcount, message_count>>
    BY <1>7 DEF SendDatagram, Go
  <2>2. /\ Sending' = Sending
        /\ Uncounted' = Uncounted \cup {t} /\ t \notin Uncounted
    BY <2>1 DEF Sending, Uncounted
  <2>3. Cardinality(Uncounted') = Cardinality(Uncounted) + 1
    BY <2>2, <1>2, Joins
  <2>4. QED
    BY <2>1, <2>2, <2>3
<1>8. CASE Decrement(t)
  <2>1. /\ spc[t] = "dec" /\ spc' = [spc EXCEPT ![t] = "count"]
        /\ mpac_net_msgcount' = mpac_net_msgcount - 1
        /\ UNCHANGED <<sent, message_count>>
    BY <1>8 DEF Decrement, Decremented, Go, history
  <2>2. /\ Sending' = Sending \ {t} /\ t \in Sending
        /\ Uncounted' = Uncounted \ {t} /\ t \in Uncounted
    BY <2>1 DEF Sending, Uncounted
  <2>3. /\ Cardinality(Sending') = Cardinality(Sending) - 1
        /\ Cardinality(Uncounted') = Cardinality(Uncounted) - 1
    BY <2>2, <1>2, Leaves
  <2>4. QED
    BY <2>1, <2>2, <2>3
<1>9. CASE Close(t)
  <2>1. /\ spc[t] = "close" /\ spc' = [spc EXCEPT ![t] = "done"]
        /\ UNCHANGED <<mpac_net_msgcount, message_count, sent>>
    BY <1>9 DEF Close, Go
  <2>2. Sending' = Sending /\ Uncounted' = Uncounted
    BY <2>1 DEF Sending, Uncounted
  <2>3. QED
    BY <2>1, <2>2
<1>10. ~OpenSocket(t) /\ ~Connect(t) /\ ~Write(t) /\ ~CloseAgain(t)
  BY DEF OpenSocket, Connect, Write, CloseAgain
<1>11. QED
  BY <1>4, <1>5, <1>6, <1>7, <1>8, <1>9, <1>10 DEF SenderThread

(* What the receiver and the timers do does not concern the count.         *)
LEMMA OthersKeepCount ==
  ASSUME SendInv, UdpCount,
         \/ \E r \in Thread : ReceiverThread(r)
         \/ Alarm \/ Accept \/ ReceiverAlarm \/ Exit \/ UNCHANGED nvars
  PROVE  CountInv'
<1>1. UNCHANGED <<opts, mpac_net_msgcount, spc, message_count, sent>>
  BY DEF UdpCount, ReceiverThread, StartReceiver, Receive, CloseReceiver, Alarm,
     Accept, ReceiverAlarm, Exit, sender, history, nvars
<1>2. QED
  BY <1>1 DEF SendInv, CountInv, Sending, Uncounted

LEMMA StepCounts == SendInv /\ [NNext]_nvars => SendInv'
<1> SUFFICES ASSUME SendInv, [NNext]_nvars PROVE SendInv'
  OBVIOUS
<1>1. opts' = opts
  BY DEF NNext, SenderThread, Start, OpenSocket, Connect, Open, Count, SendDatagram, Decrement, Write,
     Close, CloseAgain, ReceiverThread, StartReceiver, Receive, CloseReceiver,
     Alarm, Accept, ReceiverAlarm, Exit, nvars
<1>2. UdpCount' <=> UdpCount
  BY <1>1 DEF UdpCount, Tcp, Timed
<1>3. UdpCount => CountInv'
  BY ThreadCounts, OthersKeepCount DEF NNext
<1>4. QED
  BY <1>1, <1>2, <1>3 DEF SendInv

(* The UDP senders send at least the messages asked for, and fewer than    *)
(* one more for each thread, although they test the shared count without   *)
(* its lock, and send before they decrement it.                            *)
THEOREM SentIsBounded == NSpec => []SentInBounds
<1>1. SendInv => SentInBounds
  <2> SUFFICES ASSUME SendInv, UdpCount
               PROVE  /\ sent <= opts.num_msg + num_thrs - 1
                      /\ SendersDone => sent >= opts.num_msg
    BY DEF SentInBounds, UdpCount
  <2>1. opts.num_msg \in Nat /\ num_thrs \in Nat \ {0}
    BY NetAssumption DEF SendInv
  <2>2. /\ Sending \subseteq Thread /\ Uncounted \subseteq Sending
        /\ IsFiniteSet(Sending)
    BY SubsetSize DEF Sending, Uncounted
  <2>3. /\ Cardinality(Sending) \in Nat /\ Cardinality(Uncounted) \in Nat
        /\ Cardinality(Uncounted) <= Cardinality(Sending)
    BY <2>2, FS_Subset, FS_CardinalityType
  <2>4. sent <= opts.num_msg + num_thrs - 1
    BY <2>1, <2>3 DEF SendInv, CountInv
  <2>5. ASSUME SendersDone PROVE sent >= opts.num_msg
    <3>1. 0 \in Thread
      BY <2>1 DEF Thread
    <3>2. mpac_net_msgcount <= 0
      BY <2>5, <3>1 DEF SendInv, CountInv, SendersDone
    <3>3. QED
      BY <2>1, <2>3, <3>2 DEF SendInv, CountInv
  <2>6. QED
    BY <2>4, <2>5
<1>2. QED
  BY <1>1, InitCounts, StepCounts, PTL DEF NSpec

-----------------------------------------------------------------------------
(* Receiving by TCP, with a count.  Part: the messages of each thread.     *)
Part == opts.num_msg \div num_thrs

TcpCount == Tcp /\ ~Timed

TcpType ==
  /\ mpac_net_msgcount = opts.num_msg /\ ~rflag
  /\ spc \in [Thread -> {"start", "open", "connect", "send", "close", "close again", "done", "killed"}]
  /\ rpc \in [Thread -> {"start", "recv", "close", "done"}]
  /\ message_count \in [Thread -> Nat] /\ msgcount \in [Thread -> Nat]
  /\ fd \in [Thread -> Thread \cup {None}] /\ files \in [Thread -> Thread \cup {None}]
  /\ unread \in [Thread -> Nat] /\ connected \subseteq Thread /\ cut \subseteq Thread
  /\ accepted \in Seq(Thread) /\ backlog \in Seq(Thread) /\ Len(accepted) <= num_thrs

Unopened(t) == spc[t] \in {"start", "open"}

(* A connection is in the queue of one of the two ends, once.              *)
Connections ==
  /\ \A t \in Thread : Unopened(t) =>
       /\ \A d \in Thread : files[d] # t
       /\ \A k \in 1 .. Len(accepted) : accepted[k] # t
       /\ \A k \in 1 .. Len(backlog) : backlog[k] # t
  /\ \A k \in 1 .. Len(accepted), j \in 1 .. Len(backlog) : accepted[k] # backlog[j]
  /\ \A k \in 1 .. Len(accepted), j \in 1 .. Len(accepted) : accepted[k] = accepted[j] => k = j
  /\ \A k \in 1 .. Len(backlog), j \in 1 .. Len(backlog) : backlog[k] = backlog[j] => k = j

Queued(c) ==
  \/ \E k \in 1 .. Len(accepted) : accepted[k] = c
  \/ \E k \in 1 .. Len(backlog) : backlog[k] = c

(* What is connected was put into a queue; nothing else is written to.     *)
Established ==
  /\ \A c \in Thread : c \in connected <=> Queued(c)
  /\ \A c \in Thread : c \notin connected => unread[c] = 0

(* As long as nobody else closed it, a thread's number is its socket, and  *)
(* the thread connects it.                                                 *)
Descriptors ==
  \A t \in Thread :
    /\ spc[t] \in {"open", "connect"} => message_count[t] = Part
    /\ spc[t] = "send" => message_count[t] >= 1
    /\ spc[t] \in {"connect", "send", "close", "close again", "done"} => fd[t] \in Thread
    /\ spc[t] \in {"connect", "send", "close"} /\ t \notin cut => files[fd[t]] = t
    /\ spc[t] \in {"send", "close", "close again", "done"} => t \in connected \cup cut

Receivers ==
  /\ \A r \in Thread :
       /\ rpc[r] # "start" => Len(accepted) = num_thrs
       /\ rpc[r] = "recv" => msgcount[r] >= 1
       /\ rpc[r] \in {"close", "done"} => msgcount[r] = 0
  /\ exited => \A r \in Thread : rpc[r] = "done"

(* What is on the way and what is yet to be written are enough for what is *)
(* yet to be received, and not more as long as no connection was cut.      *)
ToWrite(t) == IF spc[t] \in {"connect", "send"} THEN message_count[t] ELSE 0

Balanced(t, due) ==
  /\ t \notin cut => unread[t] + ToWrite(t) >= due
  /\ cut = {} => unread[t] + ToWrite(t) = due

Due(r) == IF rpc[r] = "start" THEN Part ELSE msgcount[r]

Balance ==
  /\ \A r \in Thread : r < Len(accepted) => Balanced(accepted[r + 1], Due(r))
  /\ Len(accepted) < num_thrs => \A k \in 1 .. Len(backlog) : Balanced(backlog[k], Part)

TcpInv ==
  /\ TcpType
  /\ Connections /\ Established /\ Descriptors /\ Receivers
  /\ IF Killed THEN cut # {} ELSE Balance

(* Receiving by UDP, with a count: main gets what was sent.                *)
UdpInv ==
  /\ ~rflag /\ unread \in [Thread -> Nat] /\ msgcount \in [Thread -> Nat]
  /\ rpc \in [Thread -> {"start", "recv", "close", "done"}]
  /\ \A r \in Thread : rpc[r] # "done" => r = 0
  /\ rpc[0] = "recv" => msgcount[0] >= 1
  /\ ~lost =>
       /\ rpc[0] = "start" => sent = 0 /\ unread[0] = 0
       /\ rpc[0] = "recv" => unread[0] + opts.num_msg - msgcount[0] = sent

(* Until an alarm, by TCP: a thread closes its descriptor once, so that    *)
(* nobody else's socket is cut.                                            *)
TcpTimed == Tcp /\ Timed

OwnSocket(t) ==
  /\ spc[t] \in {"connect", "send", "close"} => fd[t] \in Thread /\ files[fd[t]] = t
  /\ spc[t] \in {"send", "close", "done"} => t \in connected

TimedInv ==
  /\ spc \in [Thread -> {"start", "open", "connect", "send", "close", "done", "killed"}]
  /\ rpc \in [Thread -> {"start", "recv", "close", "done"}]
  /\ fd \in [Thread -> Thread \cup {None}] /\ files \in [Thread -> Thread \cup {None}]
  /\ accepted \in Seq(Thread) /\ backlog \in Seq(Thread) /\ Len(accepted) <= num_thrs
  /\ \A c \in Thread : c \in connected <=> Queued(c)
  /\ \A t \in Thread : OwnSocket(t)
  /\ \A r \in Thread : rpc[r] # "start" => Len(accepted) = num_thrs
  /\ exited => Len(accepted) = num_thrs
  /\ Killed => Len(accepted) = num_thrs

ReceiveInv ==
  /\ TcpCount => TcpInv
  /\ TcpTimed => TimedInv
  /\ UdpCount => UdpInv

LEMMA Numbers ==
  /\ num_thrs \in Nat /\ num_thrs > 0
  /\ \A x : x \in Thread <=> x \in Nat /\ x < num_thrs
  /\ None \notin Thread
BY NetAssumption DEF Thread, None

(* When as many connections are accepted as there are threads, each thread *)
(* has one.                                                                *)
LEMMA EveryThreadAccepted ==
  ASSUME accepted \in Seq(Thread), Len(accepted) = num_thrs, Connections, NEW t \in Thread
  PROVE  \E r \in Thread : r < Len(accepted) /\ accepted[r + 1] = t
<1>1. \E k \in 1 .. num_thrs : accepted[k] = t
  <2> SUFFICES ASSUME \A k \in 1 .. num_thrs : accepted[k] # t PROVE FALSE
    OBVIOUS
  <2>1. accepted \in [1 .. num_thrs -> Thread \ {t}]
    BY Numbers
  <2>2. IsFiniteSet(Thread \ {t}) /\ Cardinality(Thread \ {t}) = num_thrs - 1
    BY ThreadFinite, FS_RemoveElement
  <2>3. IsFiniteSet(1 .. num_thrs) /\ Cardinality(1 .. num_thrs) = num_thrs
    <3>1. /\ IsFiniteSet(1 .. num_thrs)
          /\ Cardinality(1 .. num_thrs) = IF 1 > num_thrs THEN 0 ELSE num_thrs - 1 + 1
      <4>1. 1 \in Int /\ num_thrs \in Int
        BY Numbers
      <4>2. QED
        BY <4>1, FS_Interval
    <3>2. QED
      BY <3>1, Numbers
  <2>4. \E x, y \in 1 .. num_thrs : x # y /\ accepted[x] = accepted[y]
    <3>1. Cardinality(Thread \ {t}) < Cardinality(1 .. num_thrs)
      BY <2>2, <2>3, Numbers
    <3>2. QED
      BY <2>1, <2>2, <2>3, <3>1, FS_PigeonHole
  <2>5. QED
    BY <2>4 DEF Connections
<1>2. PICK k \in 1 .. num_thrs : accepted[k] = t
  BY <1>1
<1>3. k - 1 \in Thread /\ k - 1 < Len(accepted) /\ k - 1 + 1 = k
  BY Numbers
<1>4. QED
  BY <1>2, <1>3

(* As long as no connection was cut, nobody writes to a receiver that is   *)
(* gone: it has not got all its messages.                                  *)
LEMMA NobodyWritesInVain ==
  ASSUME TcpInv, TcpCount, ~Killed, cut = {}, NEW t \in Thread, spc[t] = "send"
  PROVE  ~Gone(t)
<1> SUFFICES ASSUME Gone(t) PROVE FALSE
  OBVIOUS
<1>1. TcpType /\ Connections /\ Descriptors /\ Receivers /\ Balance
  BY DEF TcpInv
<1>2. PICK r \in Thread : r < Len(accepted) /\ accepted[r + 1] = t /\ rpc[r] = "done"
  <2>1. CASE exited
    <3>1. \A r \in Thread : rpc[r] = "done"
      BY <1>1, <2>1 DEF Receivers
    <3>2. 0 \in Thread
      BY Numbers
    <3>3. Len(accepted) = num_thrs
      BY <1>1, <3>1, <3>2 DEF Receivers
    <3>4. QED
      BY <1>1, <3>1, <3>3, EveryThreadAccepted DEF TcpType
  <2>2. CASE ~exited
    BY <2>2 DEF Gone
  <2>3. QED
    BY <2>1, <2>2
<1>3. Balanced(t, 0)
  <2>1. msgcount[r] = 0
    BY <1>1, <1>2 DEF Receivers
  <2>2. Due(r) = 0
    BY <1>2, <2>1 DEF Due
  <2>3. QED
    BY <1>1, <1>2, <2>2 DEF Balance
<1>4. unread[t] + message_count[t] = 0
  BY <1>3 DEF Balanced, ToWrite
<1>5. unread[t] \in Nat /\ message_count[t] \in Nat /\ message_count[t] >= 1
  BY <1>1 DEF TcpType, Descriptors
<1>6. QED
  BY <1>4, <1>5

LEMMA PartIsNat ==
  ASSUME opts \in Setups
  PROVE  opts.num_msg \in Nat /\ opts.num_msg > 0 /\ Part \in Nat
<1>1. opts.num_msg \in Nat /\ opts.num_msg > 0
  BY NetAssumption
<1>2. QED
  BY <1>1, NetAssumption DEF Part

LEMMA StaysAlive ==
  ASSUME TcpType, NEW t \in Thread, spc[t] # "killed", NEW p, p # "killed",
         spc' = [spc EXCEPT ![t] = p]
  PROVE  Killed' <=> Killed
BY DEF TcpType, Killed

LEMMA StaysBalanced ==
  ASSUME NEW u, NEW due, Balanced(u, due), cut \subseteq cut',
         unread'[u] = unread[u], ToWrite(u)' = ToWrite(u)
  PROVE  Balanced(u, due)'
<1>1. u \notin cut' => u \notin cut
  OBVIOUS
<1>2. cut' = {} => cut = {}
  OBVIOUS
<1>3. QED
  BY <1>1, <1>2 DEF Balanced

LEMMA QueuesType ==
  ASSUME TcpType
  PROVE  /\ accepted \in Seq(Thread) /\ Len(accepted) \in Nat
         /\ backlog \in Seq(Thread) /\ Len(backlog) \in Nat
         /\ \A k \in 1 .. Len(accepted) : accepted[k] \in Thread
         /\ \A k \in 1 .. Len(backlog) : backlog[k] \in Thread
         /\ \A r \in Thread : r < Len(accepted) => r + 1 \in 1 .. Len(accepted) /\ accepted[r + 1] \in Thread
<1>1. accepted \in Seq(Thread) /\ backlog \in Seq(Thread)
  BY DEF TcpType
<1>2. Len(accepted) \in Nat /\ Len(backlog) \in Nat
  BY <1>1
<1>3. /\ \A k \in 1 .. Len(accepted) : accepted[k] \in Thread
      /\ \A k \in 1 .. Len(backlog) : backlog[k] \in Thread
  BY <1>1, ElementOfSeq
<1>4. \A r \in Thread : r < Len(accepted) => r + 1 \in 1 .. Len(accepted)
  BY <1>2, Numbers
<1>5. QED
  BY <1>1, <1>2, <1>3, <1>4

(* Where neither end of a connection does anything, it stays as it is.     *)
LEMMA BalanceStays ==
  ASSUME TcpType, Balance, Connections, cut \subseteq cut',
         UNCHANGED <<opts, accepted, backlog, unread>>, \A r \in Thread : Due(r)' = Due(r),
         \A u \in Thread : ToWrite(u)' = ToWrite(u) \/ Unopened(u)
  PROVE  Balance'
<1>1. ASSUME NEW r \in Thread, r < Len(accepted) PROVE Balanced(accepted[r + 1], Due(r))'
  <2>1. PICK u, due : u = accepted[r + 1] /\ due = Due(r)
    OBVIOUS
  <2>2. u \in Thread /\ ~Unopened(u)
    <3>1. r + 1 \in 1 .. Len(accepted) /\ accepted[r + 1] \in Thread
      BY <1>1, QueuesType
    <3>2. QED
      BY <2>1, <3>1 DEF Connections
  <2>3. Balanced(u, due)
    BY <1>1, <2>1 DEF Balance
  <2>4. Balanced(u, due)'
    BY <2>2, <2>3, StaysBalanced
  <2>5. accepted'[r + 1] = u /\ Due(r)' = due
    BY <2>1
  <2>6. QED
    BY <2>4, <2>5 DEF Balanced
<1>2. ASSUME Len(accepted) < num_thrs, NEW k \in 1 .. Len(backlog) PROVE Balanced(backlog[k], Part)'
  <2>1. PICK u, due : u = backlog[k] /\ due = Part
    OBVIOUS
  <2>2. u \in Thread /\ ~Unopened(u)
    BY <2>1, QueuesType DEF Connections
  <2>3. Balanced(u, due)
    BY <1>2, <2>1 DEF Balance
  <2>4. Balanced(u, due)'
    BY <2>2, <2>3, StaysBalanced
  <2>5. backlog'[k] = u /\ Part' = due
    BY <2>1 DEF Part
  <2>6. QED
    BY <2>4, <2>5 DEF Balanced
<1>3. QED
  BY <1>1, <1>2 DEF Balance

LEMMA EstablishedStays ==
  ASSUME Established, UNCHANGED <<accepted, backlog, connected, unread>>
  PROVE  Established'
BY DEF Established, Queued

LEMMA StartKeeps ==
  ASSUME TcpInv, TcpCount, opts \in Setups, NEW t \in Thread, Start(t)
  PROVE  TcpInv'
<1>1. TcpType /\ Connections /\ Established /\ Descriptors /\ Receivers
  BY DEF TcpInv
<1>2. /\ spc[t] = "start" /\ spc' = [spc EXCEPT ![t] = "open"]
      /\ message_count' = [message_count EXCEPT ![t] = Part]
      /\ UNCHANGED <<opts, mpac_net_msgcount, fd, files, accepted, rflag, rpc, msgcount, exited,
                     backlog, unread, connected, cut>>
  BY <1>1 DEF Start, Go, Share, TcpCount, Part, TcpType, receiver, network, history
<1>3. TcpType'
  <2>1. message_count' \in [Thread -> Nat]
    BY <1>1, <1>2, PartIsNat DEF TcpType
  <2>2. spc' \in [Thread -> {"start", "open", "connect", "send", "close", "close again", "done", "killed"}]
    BY <1>1, <1>2 DEF TcpType
  <2>3. QED
    BY <1>1, <1>2, <2>1, <2>2 DEF TcpType
<1>4. \A u \in Thread : Unopened(u)' <=> Unopened(u)
  BY <1>1, <1>2 DEF Unopened, TcpType
<1>5. Connections'
  BY <1>1, <1>2, <1>4 DEF Connections
<1>6. Descriptors'
  <2>1. \A u \in Thread : u # t => spc'[u] = spc[u] /\ message_count'[u] = message_count[u]
    BY <1>1, <1>2 DEF TcpType
  <2>2. spc'[t] = "open" /\ message_count'[t] = Part /\ Part' = Part
    BY <1>1, <1>2 DEF TcpType, Part
  <2>3. QED
    BY <1>1, <1>2, <2>1, <2>2 DEF Descriptors
<1>7. Receivers'
  BY <1>1, <1>2 DEF Receivers
<1>8. Killed' <=> Killed
  BY <1>1, <1>2, StaysAlive
<1>9. ~Killed => Balance'
  <2>1. \A u \in Thread : ToWrite(u)' = ToWrite(u) \/ Unopened(u)
    BY <1>1, <1>2 DEF ToWrite, TcpType, Unopened
  <2>2. QED
    BY <1>1, <1>2, <2>1, BalanceStays DEF TcpInv, Due, Part
<1>10. Established'
  BY <1>1, <1>2, EstablishedStays
<1>11. QED
  BY <1>1, <1>2, <1>3, <1>5, <1>6, <1>7, <1>8, <1>9, <1>10 DEF TcpInv

LEMMA OpenKeeps ==
  ASSUME TcpInv, TcpCount, opts \in Setups, NEW t \in Thread, OpenSocket(t)
  PROVE  TcpInv'
<1>1. TcpType /\ Connections /\ Established /\ Descriptors /\ Receivers
  BY DEF TcpInv
<1>2. PICK d \in Thread :
        files[d] = None /\ fd' = [fd EXCEPT ![t] = d] /\ files' = [files EXCEPT ![d] = t]
  BY DEF OpenSocket
<1>3. /\ spc[t] = "open" /\ message_count[t] = Part /\ spc' = [spc EXCEPT ![t] = "connect"]
      /\ UNCHANGED <<opts, mpac_net_msgcount, message_count, accepted, rflag, rpc, msgcount, exited,
                     backlog, unread, connected, cut>>
  BY <1>1 DEF OpenSocket, Go, Descriptors, receiver, network, history
<1>4. /\ spc'[t] = "connect" /\ fd'[t] = d /\ files'[d] = t
      /\ \A u \in Thread : u # t => spc'[u] = spc[u] /\ fd'[u] = fd[u]
      /\ \A e \in Thread : e # d => files'[e] = files[e]
  BY <1>1, <1>2, <1>3 DEF TcpType
<1>5. Unopened(t) /\ \A u \in Thread : Unopened(u)' <=> Unopened(u) /\ u # t
  BY <1>1, <1>3 DEF Unopened, TcpType
<1>6. TcpType'
  <2>1. spc' \in [Thread -> {"start", "open", "connect", "send", "close", "close again", "done", "killed"}]
    BY <1>1, <1>3 DEF TcpType
  <2>2. fd' \in [Thread -> Thread \cup {None}] /\ files' \in [Thread -> Thread \cup {None}]
    BY <1>1, <1>2 DEF TcpType
  <2>3. QED
    BY <1>1, <1>3, <2>1, <2>2 DEF TcpType
<1>7. Connections'
  <2>1. ASSUME NEW u \in Thread, Unopened(u)'
        PROVE  /\ \A e \in Thread : files'[e] # u
               /\ \A k \in 1 .. Len(accepted') : accepted'[k] # u
               /\ \A k \in 1 .. Len(backlog') : backlog'[k] # u
    <3>1. Unopened(u) /\ u # t
      BY <1>5, <2>1
    <3>2. \A e \in Thread : files'[e] # u
      BY <1>1, <1>4, <3>1 DEF Connections
    <3>3. QED
      BY <1>1, <1>3, <3>1, <3>2 DEF Connections
  <2>2. QED
    BY <1>1, <1>3, <2>1 DEF Connections
<1>8. Descriptors'
  <2>1. Part' = Part
    BY <1>3 DEF Part
  <2>2. ASSUME NEW u \in Thread, u # t, spc[u] \in {"connect", "send", "close"}, u \notin cut
        PROVE  files'[fd[u]] = u
    <3>1. fd[u] \in Thread /\ files[fd[u]] = u
      BY <1>1, <2>2 DEF Descriptors
    <3>2. fd[u] # d
      BY <1>2, <3>1, Numbers
    <3>3. QED
      BY <1>4, <3>1, <3>2
  <2>3. ASSUME NEW u \in Thread
        PROVE  /\ spc'[u] \in {"open", "connect"} => message_count[u] = Part
               /\ spc'[u] = "send" => message_count[u] >= 1
               /\ spc'[u] \in {"connect", "send", "close", "close again", "done"} => fd'[u] \in Thread
               /\ spc'[u] \in {"connect", "send", "close"} /\ u \notin cut => files'[fd'[u]] = u
               /\ spc'[u] \in {"send", "close", "close again", "done"} => u \in connected \cup cut
    <3>1. CASE u = t
      BY <1>2, <1>3, <1>4, <3>1
    <3>2. CASE u # t
      <4>1. spc'[u] = spc[u] /\ fd'[u] = fd[u]
        BY <1>4, <3>2
      <4>2. /\ spc[u] \in {"open", "connect"} => message_count[u] = Part
            /\ spc[u] = "send" => message_count[u] >= 1
            /\ spc[u] \in {"connect", "send", "close", "close again", "done"} => fd[u] \in Thread
            /\ spc[u] \in {"send", "close", "close again", "done"} => u \in connected \cup cut
        BY <1>1, Zenon DEF Descriptors
      <4>3. QED
        BY <2>2, <3>2, <4>1, <4>2, ZenonT(30)
    <3>3. QED
      BY <3>1, <3>2
  <2>4. QED
    BY <1>3, <2>1, <2>3, ZenonT(30) DEF Descriptors
<1>9. Receivers'
  BY <1>1, <1>3 DEF Receivers
<1>10. Killed' <=> Killed
  BY <1>1, <1>3, StaysAlive
<1>11. ~Killed => Balance'
  <2>1. \A u \in Thread : ToWrite(u)' = ToWrite(u) \/ Unopened(u)
    BY <1>3, <1>4, <1>5 DEF ToWrite
  <2>2. \A r \in Thread : Due(r)' = Due(r)
    BY <1>3 DEF Due, Part
  <2>3. QED
    BY <1>1, <1>3, <2>1, <2>2, BalanceStays DEF TcpInv
<1>12. Established'
  BY <1>1, <1>3, EstablishedStays
<1>13. QED
  BY <1>3, <1>6, <1>7, <1>8, <1>9, <1>10, <1>11, <1>12 DEF TcpInv

(* A connection that joins the queue of those that wait for accept.        *)
LEMMA Appended ==
  ASSUME accepted \in Seq(Thread), backlog \in Seq(Thread), NEW c \in Thread,
         backlog' = Append(backlog, c), UNCHANGED accepted
  PROVE  /\ backlog' \in Seq(Thread) /\ Len(backlog) \in Nat /\ Len(backlog') = Len(backlog) + 1
         /\ backlog'[Len(backlog) + 1] = c /\ \A k \in 1 .. Len(backlog) : backlog'[k] = backlog[k]
         /\ \A u : Queued(u)' <=> Queued(u) \/ u = c
<1>1. Len(backlog) \in Nat
  OBVIOUS
<1>2. /\ backlog' \in Seq(Thread) /\ Len(backlog') = Len(backlog) + 1
      /\ backlog'[Len(backlog) + 1] = c /\ \A k \in 1 .. Len(backlog) : backlog'[k] = backlog[k]
  BY AppendProperties
<1>3. /\ \A k \in 1 .. Len(backlog') : k \in 1 .. Len(backlog) \/ k = Len(backlog) + 1
      /\ Len(backlog) + 1 \in 1 .. Len(backlog') /\ 1 .. Len(backlog) \subseteq 1 .. Len(backlog')
  BY <1>1, <1>2
<1>4. ASSUME NEW u PROVE Queued(u)' <=> Queued(u) \/ u = c
  BY <1>2, <1>3 DEF Queued
<1>5. QED
  BY <1>1, <1>2, <1>4

(* The first that waits is accepted.                                       *)
LEMMA Moved ==
  ASSUME accepted \in Seq(Thread), backlog \in Seq(Thread), backlog # <<>>,
         accepted' = Append(accepted, Head(backlog)), backlog' = Tail(backlog)
  PROVE  /\ accepted' \in Seq(Thread) /\ Len(accepted) \in Nat /\ Len(accepted') = Len(accepted) + 1
         /\ backlog' \in Seq(Thread)
         /\ \A u : Queued(u)' <=> Queued(u)
<1>1. Len(accepted) \in Nat /\ Len(backlog) \in Nat
  OBVIOUS
<1>2. /\ backlog' \in Seq(Thread) /\ Len(backlog') = Len(backlog) - 1 /\ Head(backlog) \in Thread
      /\ \A k \in 1 .. Len(backlog') : backlog'[k] = backlog[k + 1]
  BY HeadTailProperties
<1>3. PICK h \in Thread : h = Head(backlog) /\ h = backlog[1] /\ Len(backlog) >= 1
  BY <1>2
<1>4. /\ accepted' \in Seq(Thread) /\ Len(accepted') = Len(accepted) + 1
      /\ accepted'[Len(accepted) + 1] = h /\ \A k \in 1 .. Len(accepted) : accepted'[k] = accepted[k]
  BY <1>3, AppendProperties
<1>5. /\ \A k \in 1 .. Len(accepted') : k \in 1 .. Len(accepted) \/ k = Len(accepted) + 1
      /\ \A k \in 1 .. Len(backlog') : k + 1 \in 1 .. Len(backlog)
      /\ 1 \in 1 .. Len(backlog) /\ Len(accepted) + 1 \in 1 .. Len(accepted')
      /\ \A k \in 1 .. Len(accepted) : k \in 1 .. Len(accepted')
  BY <1>1, <1>2, <1>3, <1>4
<1>6. ASSUME NEW k \in 1 .. Len(backlog), k # 1
      PROVE  k - 1 \in 1 .. Len(backlog') /\ backlog'[k - 1] = backlog[k]
  <2>1. k - 1 \in 1 .. Len(backlog') /\ k - 1 + 1 = k
    BY <1>1, <1>2, <1>6
  <2>2. QED
    BY <1>2, <2>1
<1>7. ASSUME NEW u PROVE Queued(u)' <=> Queued(u)
  <2>1. Queued(u)' => Queued(u)
    BY <1>2, <1>3, <1>4, <1>5 DEF Queued
  <2>2. (\E k \in 1 .. Len(accepted) : accepted[k] = u) => Queued(u)'
    BY <1>4, <1>5 DEF Queued
  <2>3. ASSUME NEW k \in 1 .. Len(backlog), backlog[k] = u PROVE Queued(u)'
    <3>1. CASE k = 1
      <4>1. accepted'[Len(accepted) + 1] = u /\ Len(accepted) + 1 \in 1 .. Len(accepted')
        BY <1>3, <1>4, <1>5, <2>3, <3>1
      <4>2. QED
        BY <4>1 DEF Queued
    <3>2. CASE k # 1
      <4>1. k - 1 \in 1 .. Len(backlog') /\ backlog'[k - 1] = u
        BY <1>6, <2>3, <3>2
      <4>2. QED
        BY <4>1 DEF Queued
    <3>3. QED
      BY <3>1, <3>2
  <2>4. QED
    BY <2>1, <2>2, <2>3 DEF Queued
<1>8. QED
  BY <1>1, <1>2, <1>4, <1>7

(* A socket that becomes a connection waits for accept; as long as nothing *)
(* was cut, it is that of the thread that connects, with all its messages. *)
LEMMA ConnectionQueued ==
  ASSUME TcpType, Connections, Established, NEW c \in Thread, c \notin connected,
         \A u \in Thread : Unopened(u) => u # c,
         backlog' = Append(backlog, c), connected' = connected \cup {c},
         UNCHANGED <<accepted, unread, files>>,
         \A u \in Thread : Unopened(u)' <=> Unopened(u)
  PROVE  /\ backlog' \in Seq(Thread) /\ Len(backlog) \in Nat /\ Len(backlog') = Len(backlog) + 1
         /\ backlog'[Len(backlog) + 1] = c /\ \A k \in 1 .. Len(backlog) : backlog'[k] = backlog[k]
         /\ Connections' /\ Established'
<1>1. Len(backlog) \in Nat /\ accepted \in Seq(Thread) /\ backlog \in Seq(Thread)
  BY QueuesType
<1>2. /\ backlog' \in Seq(Thread) /\ Len(backlog') = Len(backlog) + 1
      /\ backlog'[Len(backlog) + 1] = c /\ \A k \in 1 .. Len(backlog) : backlog'[k] = backlog[k]
      /\ \A u : Queued(u)' <=> Queued(u) \/ u = c
  BY <1>1, Appended
<1>3. \A k \in 1 .. Len(backlog') : k \in 1 .. Len(backlog) \/ k = Len(backlog) + 1
  BY <1>1, <1>2
<1>4. ~Queued(c)
  BY DEF Established
<1>5. /\ \A k \in 1 .. Len(backlog) : backlog[k] # c
      /\ \A k \in 1 .. Len(accepted) : accepted[k] # c
  BY <1>4 DEF Queued
<1>6. Connections'
  <2>1. ASSUME NEW u \in Thread, Unopened(u)'
        PROVE  /\ \A e \in Thread : files'[e] # u
               /\ \A k \in 1 .. Len(accepted') : accepted'[k] # u
               /\ \A k \in 1 .. Len(backlog') : backlog'[k] # u
    <3>1. Unopened(u) /\ u # c
      BY <2>1
    <3>2. \A k \in 1 .. Len(backlog') : backlog'[k] # u
      BY <1>2, <1>3, <3>1 DEF Connections
    <3>3. QED
      BY <3>1, <3>2 DEF Connections
  <2>2. \A k \in 1 .. Len(accepted), j \in 1 .. Len(backlog') : accepted[k] # backlog'[j]
    BY <1>2, <1>3, <1>5 DEF Connections
  <2>3. \A k \in 1 .. Len(backlog'), j \in 1 .. Len(backlog') : backlog'[k] = backlog'[j] => k = j
    BY <1>2, <1>3, <1>5 DEF Connections
  <2>4. QED
    BY <2>1, <2>2, <2>3 DEF Connections
<1>7. Established'
  BY <1>2 DEF Established
<1>8. QED
  BY <1>1, <1>2, <1>6, <1>7

LEMMA ConnectKeeps ==
  ASSUME TcpInv, TcpCount, opts \in Setups, NEW t \in Thread, Connect(t)
  PROVE  TcpInv'
<1>1. TcpType /\ Connections /\ Established /\ Descriptors /\ Receivers
  BY DEF TcpInv
<1>2. PICK p : p = IF Part = 0 THEN "close" ELSE "send"
  OBVIOUS
<1>3. /\ spc[t] = "connect" /\ message_count[t] = Part /\ spc' = [spc EXCEPT ![t] = p]
      /\ UNCHANGED <<opts, mpac_net_msgcount, message_count, fd, files, accepted, rflag, rpc, msgcount,
                     exited, unread, cut>>
  <2>1. spc[t] = "connect" /\ message_count[t] = Part
    BY <1>1 DEF Connect, Descriptors
  <2>2. p = IF message_count[t] <= 0 THEN "close" ELSE "send"
    BY <1>2, <2>1, PartIsNat
  <2>3. QED
    BY <2>1, <2>2 DEF Connect, BeginLoop, Go, TcpCount, receiver, history
<1>4. PICK c : c = files[fd[t]]
  OBVIOUS
<1>5. /\ fd[t] \in Thread /\ c \in Thread \cup {None}
      /\ t \notin cut => c = t
      /\ \A u \in Thread : Unopened(u) => u # c
  <2>1. fd[t] \in Thread /\ (t \notin cut => files[fd[t]] = t)
    BY <1>1, <1>3 DEF Descriptors
  <2>2. QED
    BY <1>1, <1>4, <2>1 DEF TcpType, Connections
<1>6. \/ /\ c \in Thread /\ c \notin connected
         /\ connected' = connected \cup {c} /\ backlog' = Append(backlog, c)
      \/ (c = None \/ c \in connected) /\ UNCHANGED <<connected, backlog>>
  BY <1>4, <1>5 DEF Connect
<1>7. \A u \in Thread : Unopened(u)' <=> Unopened(u)
  BY <1>1, <1>2, <1>3 DEF Unopened, TcpType
<1>8. Connections' /\ Established' /\ backlog' \in Seq(Thread) /\ connected' \subseteq Thread
  <2>1. CASE /\ c \in Thread /\ c \notin connected
             /\ connected' = connected \cup {c} /\ backlog' = Append(backlog, c)
    <3>1. connected' \subseteq Thread
      BY <1>1, <2>1 DEF TcpType
    <3>2. QED
      BY <1>1, <1>3, <1>5, <1>7, <2>1, <3>1, ConnectionQueued
  <2>2. CASE UNCHANGED <<connected, backlog>>
    <3>1. Connections'
      BY <1>1, <1>3, <1>7, <2>2 DEF Connections
    <3>2. Established'
      BY <1>1, <1>3, <2>2, EstablishedStays
    <3>3. QED
      BY <1>1, <2>2, <3>1, <3>2 DEF TcpType
  <2>3. QED
    BY <1>6, <2>1, <2>2
<1>9. t \in connected' \cup cut /\ connected \subseteq connected'
  BY <1>5, <1>6, Numbers
<1>10. TcpType'
  <2>1. spc' \in [Thread -> {"start", "open", "connect", "send", "close", "close again", "done", "killed"}]
    BY <1>1, <1>2, <1>3 DEF TcpType
  <2>2. QED
    BY <1>1, <1>3, <1>8, <2>1 DEF TcpType
<1>11. /\ spc'[t] = p /\ p \in {"close", "send"} /\ (p = "send" => Part >= 1)
       /\ \A u \in Thread : u # t => spc'[u] = spc[u]
  <2>1. Part \in Nat
    BY PartIsNat
  <2>2. p \in {"close", "send"} /\ (p = "send" => Part >= 1)
    BY <1>2, <2>1
  <2>3. spc'[t] = p /\ \A u \in Thread : u # t => spc'[u] = spc[u]
    BY <1>1, <1>3 DEF TcpType
  <2>4. QED
    BY <2>2, <2>3
<1>12. Descriptors'
  <2>1. Part' = Part
    BY <1>3 DEF Part
  <2>2. ASSUME NEW u \in Thread
        PROVE  /\ spc'[u] \in {"open", "connect"} => message_count[u] = Part
               /\ spc'[u] = "send" => message_count[u] >= 1
               /\ spc'[u] \in {"connect", "send", "close", "close again", "done"} => fd[u] \in Thread
               /\ spc'[u] \in {"connect", "send", "close"} /\ u \notin cut => files[fd[u]] = u
               /\ spc'[u] \in {"send", "close", "close again", "done"} => u \in connected' \cup cut
    <3>1. CASE u = t
      BY <1>3, <1>4, <1>5, <1>9, <1>11, <3>1
    <3>2. CASE u # t
      <4>1. spc'[u] = spc[u]
        BY <1>11, <3>2
      <4>2. /\ spc[u] \in {"open", "connect"} => message_count[u] = Part
            /\ spc[u] = "send" => message_count[u] >= 1
            /\ spc[u] \in {"connect", "send", "close", "close again", "done"} => fd[u] \in Thread
            /\ spc[u] \in {"connect", "send", "close"} /\ u \notin cut => files[fd[u]] = u
            /\ spc[u] \in {"send", "close", "close again", "done"} => u \in connected \cup cut
        BY <1>1, Zenon DEF Descriptors
      <4>3. u \in connected \cup cut => u \in connected' \cup cut
        BY <1>9
      <4>4. QED
        BY <4>1, <4>2, <4>3, ZenonT(30)
    <3>3. QED
      BY <3>1, <3>2
  <2>3. QED
    BY <1>3, <2>1, <2>2, ZenonT(30) DEF Descriptors
<1>13. Receivers'
  BY <1>1, <1>3 DEF Receivers
<1>14. Killed' <=> Killed
  BY <1>1, <1>2, <1>3, StaysAlive
<1>15. ASSUME ~Killed PROVE Balance'
  <2>1. \A u \in Thread : ToWrite(u)' = ToWrite(u)
    <3>1. Part = 0 => p = "close"
      BY <1>2
    <3>2. Part # 0 => p = "send"
      BY <1>2
    <3>3. ToWrite(t) = Part /\ ToWrite(t)' = Part
      BY <1>3, <1>11, <3>1, <3>2 DEF ToWrite
    <3>4. QED
      BY <1>3, <1>11, <3>3 DEF ToWrite
  <2>2. Balance /\ \A r \in Thread : Due(r)' = Due(r)
    BY <1>3, <1>15 DEF TcpInv, Due, Part
  <2>3. CASE UNCHANGED <<connected, backlog>>
    BY <1>1, <1>3, <2>1, <2>2, <2>3, BalanceStays
  <2>4. CASE /\ c \in Thread /\ c \notin connected
             /\ connected' = connected \cup {c} /\ backlog' = Append(backlog, c)
    <3>1. Balanced(c, Part)'
      <4>1. unread'[c] = 0 /\ Part' = Part /\ Part \in Nat
        BY <1>1, <1>3, <2>4, PartIsNat DEF Established, Part
      <4>2. ASSUME c \notin cut PROVE ToWrite(c)' = Part
        <5>1. spc[c] \notin {"start", "open"}
          BY <1>5, <2>4 DEF Unopened
        <5>2. spc[c] \notin {"send", "close", "close again", "done"}
          BY <1>1, <2>4, <4>2 DEF Descriptors
        <5>3. spc[c] # "killed"
          BY <1>15, <2>4 DEF Killed
        <5>4. spc[c] = "connect"
          BY <1>1, <2>4, <5>1, <5>2, <5>3 DEF TcpType
        <5>5. message_count[c] = Part
          BY <1>1, <2>4, <5>4 DEF Descriptors
        <5>6. QED
          BY <2>1, <2>4, <5>4, <5>5 DEF ToWrite
      <4>3. QED
        BY <1>3, <4>1, <4>2 DEF Balanced
    <3>2. /\ Len(backlog) \in Nat /\ Len(backlog') = Len(backlog) + 1
          /\ backlog'[Len(backlog) + 1] = c /\ \A k \in 1 .. Len(backlog) : backlog'[k] = backlog[k]
      BY <1>1, <1>3, <1>5, <1>7, <2>4, ConnectionQueued
    <3>3. ASSUME NEW r \in Thread, r < Len(accepted) PROVE Balanced(accepted[r + 1], Due(r))'
      <4>1. PICK u, due : u = accepted[r + 1] /\ due = Due(r)
        OBVIOUS
      <4>2. u \in Thread
        BY <1>1, <3>3, <4>1, QueuesType
      <4>3. Balanced(u, due)
        BY <2>2, <3>3, <4>1 DEF Balance
      <4>4. Balanced(u, due)'
        BY <1>3, <2>1, <4>2, <4>3, StaysBalanced
      <4>5. accepted'[r + 1] = u /\ Due(r)' = due
        BY <1>3, <2>2, <4>1
      <4>6. QED
        BY <4>4, <4>5 DEF Balanced
    <3>4. ASSUME Len(accepted) < num_thrs, NEW k \in 1 .. Len(backlog') PROVE Balanced(backlog[k], Part)'
      <4>1. k \in 1 .. Len(backlog) \/ k = Len(backlog) + 1
        BY <3>2
      <4>2. CASE k = Len(backlog) + 1
        <5>1. backlog'[k] = c
          BY <3>2, <4>2
        <5>2. QED
          BY <3>1, <5>1 DEF Balanced
      <4>3. CASE k \in 1 .. Len(backlog)
        <5>1. PICK u, due : u = backlog[k] /\ due = Part
          OBVIOUS
        <5>2. u \in Thread
          BY <1>1, <4>3, <5>1, QueuesType
        <5>3. Balanced(u, due)
          BY <2>2, <3>4, <4>3, <5>1 DEF Balance
        <5>4. Balanced(u, due)'
          BY <1>3, <2>1, <5>2, <5>3, StaysBalanced
        <5>5. backlog'[k] = u /\ Part' = due
          BY <1>3, <3>2, <4>3, <5>1 DEF Part
        <5>6. QED
          BY <5>4, <5>5 DEF Balanced
      <4>4. QED
        BY <4>1, <4>2, <4>3
    <3>5. QED
      BY <1>3, <3>3, <3>4 DEF Balance
  <2>5. QED
    BY <1>6, <2>3, <2>4
<1>16. QED
  BY <1>3, <1>8, <1>10, <1>12, <1>13, <1>14, <1>15 DEF TcpInv

(* A number that is closed is its thread's, or it cuts the other's line.   *)
LEMMA DescriptorClosed ==
  ASSUME TcpInv, opts \in Setups, NEW t \in Thread, spc[t] \in {"close", "close again"},
         NEW p, p \in {"close again", "done"}, CloseDescriptor(t), spc' = [spc EXCEPT ![t] = p],
         UNCHANGED <<opts, mpac_net_msgcount, message_count, fd, accepted, rflag, rpc, msgcount, exited,
                     backlog, unread, connected>>
  PROVE  TcpInv'
<1>1. TcpType /\ Connections /\ Established /\ Descriptors /\ Receivers
  BY DEF TcpInv
<1>2. /\ fd[t] \in Thread /\ files' = [files EXCEPT ![fd[t]] = None]
      /\ cut' = cut \cup ({files[fd[t]]} \ {t, None})
  BY <1>1 DEF Descriptors, CloseDescriptor
<1>3. files[fd[t]] \in Thread \cup {None}
  BY <1>1, <1>2 DEF TcpType
<1>4. TcpType'
  <2>1. spc' \in [Thread -> {"start", "open", "connect", "send", "close", "close again", "done", "killed"}]
    BY <1>1 DEF TcpType
  <2>2. files' \in [Thread -> Thread \cup {None}] /\ cut' \subseteq Thread
    BY <1>1, <1>2, <1>3 DEF TcpType
  <2>3. QED
    BY <1>1, <2>1, <2>2 DEF TcpType
<1>5. \A u \in Thread : Unopened(u)' <=> Unopened(u)
  BY <1>1 DEF Unopened, TcpType
<1>6. Connections'
  <2>1. \A u \in Thread, d \in Thread : files'[d] = u => files[d] = u
    BY <1>1, <1>2, Numbers DEF TcpType
  <2>2. QED
    <3>1. \A u \in Thread : Unopened(u) => \A d \in Thread : files'[d] # u
      BY <1>1, <2>1, Zenon DEF Connections
    <3>2. \A u \in Thread : Unopened(u) =>
            /\ \A k \in 1 .. Len(accepted) : accepted[k] # u
            /\ \A k \in 1 .. Len(backlog) : backlog[k] # u
      BY <1>1, Zenon DEF Connections
    <3>3. \A u \in Thread : Unopened(u)' =>
            /\ \A d \in Thread : files'[d] # u
            /\ \A k \in 1 .. Len(accepted') : accepted'[k] # u
            /\ \A k \in 1 .. Len(backlog') : backlog'[k] # u
      BY <1>5, <3>1, <3>2
    <3> DEFINE Apart(a, b) ==
          /\ \A k \in 1 .. Len(a), j \in 1 .. Len(b) : a[k] # b[j]
          /\ \A k \in 1 .. Len(a), j \in 1 .. Len(a) : a[k] = a[j] => k = j
          /\ \A k \in 1 .. Len(b), j \in 1 .. Len(b) : b[k] = b[j] => k = j
    <3>4. Apart(accepted, backlog)
      BY <1>1, Zenon DEF Connections
    <3> HIDE DEF Apart
    <3>5. Apart(accepted', backlog')
      BY <3>4
    <3>6. QED
      BY <3>3, <3>5, ZenonT(30) DEF Connections, Apart
<1>7. Descriptors'
  <2>1. Part' = Part
    BY DEF Part
  <2>2. spc'[t] \in {"close again", "done"} /\ \A u \in Thread : u # t => spc'[u] = spc[u]
    BY <1>1 DEF TcpType
  <2>3. ASSUME NEW u \in Thread, spc'[u] \in {"connect", "send", "close"}, u \notin cut' PROVE files'[fd[u]] = u
    <3>1. u # t /\ spc[u] \in {"connect", "send", "close"} /\ u \notin cut /\ u # None
      BY <1>2, <2>2, <2>3, Numbers
    <3>2. fd[u] \in Thread /\ files[fd[u]] = u
      BY <1>1, <3>1 DEF Descriptors
    <3>3. fd[u] # fd[t]
      BY <1>2, <2>3, <3>1, <3>2
    <3>4. QED
      BY <1>1, <1>2, <3>2, <3>3 DEF TcpType
  <2>4. ASSUME NEW u \in Thread, spc'[u] \in {"send", "close", "close again", "done"}
        PROVE  u \in connected' \cup cut'
    <3>1. spc[u] \in {"send", "close", "close again", "done"}
      BY <2>2, <2>4
    <3>2. u \in connected \cup cut
      BY <1>1, <3>1 DEF Descriptors
    <3>3. QED
      BY <1>2, <3>2
  <2>5. QED
    BY <1>1, <1>2, <2>1, <2>2, <2>3, <2>4 DEF Descriptors
<1>8. Receivers'
  BY <1>1 DEF Receivers
<1>9. Killed' <=> Killed
  BY <1>1, StaysAlive
<1>10. ~Killed => Balance'
  <2>1. \A u \in Thread : ToWrite(u)' = ToWrite(u)
    BY <1>1 DEF ToWrite, TcpType
  <2>2. cut \subseteq cut'
    BY <1>2
  <2>3. \A r \in Thread : Due(r)' = Due(r)
    BY DEF Due, Part
  <2>4. QED
    BY <1>1, <2>1, <2>2, <2>3, BalanceStays DEF TcpInv
<1>11. Killed => cut' # {}
  BY <1>2 DEF TcpInv
<1>12. Established'
  BY <1>1, EstablishedStays
<1>13. QED
  BY <1>12, <1>4, <1>6, <1>7, <1>8, <1>9, <1>10, <1>11 DEF TcpInv

LEMMA CloseKeeps ==
  ASSUME TcpInv, TcpCount, opts \in Setups, NEW t \in Thread, Close(t) \/ CloseAgain(t)
  PROVE  TcpInv'
<1>1. CASE Close(t)
  <2>1. /\ CloseDescriptor(t) /\ spc[t] = "close" /\ spc' = [spc EXCEPT ![t] = "close again"]
        /\ UNCHANGED <<opts, mpac_net_msgcount, message_count, fd, accepted, rflag, rpc, msgcount, exited,
                       backlog, unread, connected>>
    BY <1>1 DEF Close, Go, TcpCount, receiver, network
  <2>2. QED
    BY <2>1, DescriptorClosed
<1>2. CASE CloseAgain(t)
  <2>1. /\ CloseDescriptor(t) /\ spc[t] = "close again" /\ spc' = [spc EXCEPT ![t] = "done"]
        /\ UNCHANGED <<opts, mpac_net_msgcount, message_count, fd, accepted, rflag, rpc, msgcount, exited,
                       backlog, unread, connected>>
    BY <1>2 DEF CloseAgain, Go, TcpCount, receiver, network
  <2>2. QED
    BY <2>1, DescriptorClosed
<1>3. QED
  BY <1>1, <1>2

(* A write that arrives, or that a receiver that is gone leaves in vain.   *)
LEMMA TurnKeeps ==
  ASSUME TcpInv, TcpCount, opts \in Setups, NEW t \in Thread, spc[t] = "send", WriteReturns(t),
         LET c == files[fd[t]] IN
           \/ c \in connected /\ unread' = [unread EXCEPT ![c] = @ + 1]
           \/ (c \notin connected \/ Gone(c)) /\ UNCHANGED unread,
         UNCHANGED <<opts, mpac_net_msgcount, fd, files, accepted, rflag, rpc, msgcount, exited,
                     backlog, connected, cut>>
  PROVE  TcpInv'
<1>1. TcpType /\ Connections /\ Established /\ Descriptors /\ Receivers
  BY DEF TcpInv
<1>0. /\ unread \in [Thread -> Nat] /\ message_count \in [Thread -> Nat]
      /\ spc \in [Thread -> {"start", "open", "connect", "send", "close", "close again", "done", "killed"}]
  BY <1>1 DEF TcpType
<1>2. PICK c \in Thread \cup {None} : c = files[fd[t]] /\ (t \notin cut => c = t)
  BY <1>1 DEF TcpType, Descriptors
<1>3. PICK m \in Nat : m = message_count[t] /\ m >= 1
  BY <1>1 DEF TcpType, Descriptors
<1>4. PICK p : p = IF m = 1 THEN "close" ELSE "send"
  OBVIOUS
<1>5. spc' = [spc EXCEPT ![t] = p] /\ message_count' = [message_count EXCEPT ![t] = m - 1]
  BY <1>3, <1>4 DEF WriteReturns, TcpCount, Go
<1>6. \/ c \in connected /\ c # None /\ unread' = [unread EXCEPT ![c] = unread[c] + 1]
      \/ (c \notin connected \/ Gone(c)) /\ unread' = unread
  BY <1>1, <1>2, Numbers DEF TcpType
<1>7. TcpType'
  <2>1. spc' \in [Thread -> {"start", "open", "connect", "send", "close", "close again", "done", "killed"}]
    BY <1>1, <1>4, <1>5 DEF TcpType
  <2>2. message_count' \in [Thread -> Nat]
    <3>1. m - 1 \in Nat
      BY <1>3
    <3>2. QED
      BY <1>1, <1>5, <3>1 DEF TcpType
  <2>3. unread' \in [Thread -> Nat]
    <3>1. CASE c # None /\ unread' = [unread EXCEPT ![c] = unread[c] + 1]
      <4>1. unread[c] + 1 \in Nat
        <5>1. c \in Thread
          BY <1>2, <3>1
        <5>2. unread[c] \in Nat
          BY <1>0, <5>1
        <5>3. QED
          BY <5>2
      <4>2. QED
        BY <1>1, <3>1, <4>1 DEF TcpType
    <3>2. QED
      BY <1>1, <1>6, <3>1 DEF TcpType
  <2>4. QED
    BY <1>1, <2>1, <2>2, <2>3 DEF TcpType
<1>8. \A u \in Thread : Unopened(u)' <=> Unopened(u)
  BY <1>1, <1>4, <1>5 DEF Unopened, TcpType
<1>9. Connections' /\ Established'
  <2>1. Connections'
    BY <1>1, <1>8 DEF Connections
  <2>2. ASSUME NEW u \in Thread, u \notin connected PROVE unread'[u] = 0
    <3>1. unread[u] = 0
      BY <1>1, <2>2 DEF Established
    <3>2. CASE c \in connected /\ unread' = [unread EXCEPT ![c] = unread[c] + 1]
      <4>1. u # c
        BY <2>2, <3>2
      <4>2. QED
        BY <1>0, <3>1, <3>2, <4>1
    <3>3. QED
      BY <1>6, <3>1, <3>2
  <2>3. \A u : Queued(u)' <=> Queued(u)
    BY DEF Queued
  <2>4. QED
    BY <1>1, <2>1, <2>2, <2>3 DEF Established
<1>10. Descriptors'
  <2>1. Part' = Part
    BY DEF Part
  <2>2. /\ spc'[t] = p /\ message_count'[t] = m - 1
        /\ \A u \in Thread : u # t => spc'[u] = spc[u] /\ message_count'[u] = message_count[u]
    BY <1>1, <1>5 DEF TcpType
  <2>3. (p = "send" => m - 1 >= 1) /\ p \in {"send", "close"}
    BY <1>3, <1>4
  <2>4. t \in connected \cup cut
    BY <1>1 DEF Descriptors
  <2>5. QED
    BY <1>1, <2>1, <2>2, <2>3, <2>4 DEF Descriptors
<1>11. Receivers'
  BY <1>1 DEF Receivers
<1>12. Killed' <=> Killed
  BY <1>1, <1>4, <1>5, StaysAlive
<1>13. ASSUME ~Killed PROVE Balance'
  <2>1. Balance
    BY <1>13 DEF TcpInv
  <2>2. /\ ToWrite(t) = m /\ ToWrite(t)' = m - 1
        /\ \A u \in Thread : u # t => ToWrite(u)' = ToWrite(u)
    <3>1. spc'[t] = p /\ message_count'[t] = m - 1
      BY <1>0, <1>5
    <3>2. \A u \in Thread : u # t => spc'[u] = spc[u] /\ message_count'[u] = message_count[u]
      BY <1>0, <1>5
    <3>3. ToWrite(t)' = m - 1
      BY <1>3, <1>4, <3>1 DEF ToWrite
    <3>4. ToWrite(t) = m
      BY <1>3 DEF ToWrite
    <3>5. QED
      BY <3>2, <3>3, <3>4 DEF ToWrite
  <2>3. /\ cut # {} \/ (c = t /\ ~Gone(t))
        /\ t \notin cut => c = t /\ t \in connected
    BY <1>1, <1>2, <1>13, NobodyWritesInVain DEF Descriptors
  <2>4. ASSUME NEW u \in Thread, NEW due \in Nat, Balanced(u, due),
               u = t /\ t \notin cut /\ Gone(t) => due = 0
        PROVE  Balanced(u, due)'
    <3>1. unread[u] \in Nat /\ unread'[u] \in Nat /\ ToWrite(u) \in Nat /\ ToWrite(u)' \in Nat
      BY <1>1, <1>7 DEF TcpType, ToWrite
    <3>2. CASE u # t
      <4>1. unread'[u] >= unread[u] /\ (cut = {} => unread'[u] = unread[u])
        <5>1. CASE c # None /\ unread' = [unread EXCEPT ![c] = unread[c] + 1]
          <6>1. unread'[u] = IF u = c THEN unread[u] + 1 ELSE unread[u]
            BY <1>0, <1>2, <5>1
          <6>2. cut = {} => u # c
            BY <1>2, <3>2
          <6>3. QED
            BY <3>1, <6>1, <6>2
        <5>2. QED
          BY <1>6, <3>1, <5>1
      <4>2. QED
        BY <2>2, <2>4, <3>1, <3>2, <4>1 DEF Balanced
    <3>3. CASE u = t /\ t \in cut
      BY <3>3 DEF Balanced
    <3>4. CASE u = t /\ t \notin cut /\ ~Gone(t)
      <4>1. unread'[t] = unread[t] + 1
        <5>1. c = t /\ c \in connected
          BY <2>3, <3>4
        <5>2. QED
          BY <1>0, <1>6, <3>4, <5>1
      <4>2. QED
        BY <1>3, <2>2, <2>4, <3>1, <3>4, <4>1 DEF Balanced
    <3>5. CASE u = t /\ t \notin cut /\ Gone(t)
      <4>1. cut # {} /\ due = 0
        BY <2>3, <2>4, <3>5
      <4>2. QED
        BY <3>1, <4>1 DEF Balanced
    <3>6. QED
      BY <3>2, <3>3, <3>4, <3>5
  <2>5. ASSUME NEW r \in Thread, NEW due, r < Len(accepted), due = Due(r), Balanced(accepted[r + 1], due)
        PROVE  Balanced(accepted[r + 1], Due(r))'
    <3>1. PICK u : u = accepted[r + 1]
      OBVIOUS
    <3>2. u \in Thread /\ r + 1 \in 1 .. Len(accepted)
      BY <1>1, <2>5, <3>1, QueuesType
    <3>3. due \in Nat
      BY <1>1, <2>5, PartIsNat DEF Due, TcpType
    <3>4. u = t /\ Gone(t) => due = 0
      <4> SUFFICES ASSUME u = t, Gone(t) PROVE due = 0
        OBVIOUS
      <4>1. rpc[r] = "done"
        <5>1. CASE exited
          BY <1>1, <5>1 DEF Receivers
        <5>2. CASE ~exited
          <6>1. PICK x \in Thread : x < Len(accepted) /\ accepted[x + 1] = t /\ rpc[x] = "done"
            BY <5>2 DEF Gone
          <6>2. x + 1 \in 1 .. Len(accepted)
            BY <1>1, <6>1, QueuesType
          <6>3. x + 1 = r + 1
            BY <1>1, <3>1, <3>2, <6>1, <6>2 DEF Connections
          <6>4. x = r
            BY <6>3, Numbers
          <6>5. QED
            BY <6>1, <6>4
        <5>3. QED
          BY <5>1, <5>2
      <4>2. QED
        BY <1>1, <2>5, <4>1 DEF Receivers, Due
    <3>5. Balanced(u, due)'
      BY <2>4, <2>5, <3>1, <3>2, <3>3, <3>4
    <3>6. accepted'[r + 1] = u /\ Due(r)' = due
      BY <2>5, <3>1 DEF Due, Part
    <3>7. QED
      BY <3>5, <3>6 DEF Balanced
  <2>6. ASSUME NEW k \in 1 .. Len(backlog), Len(accepted) < num_thrs, Balanced(backlog[k], Part)
        PROVE  Balanced(backlog[k], Part)'
    <3>1. PICK u, due : u = backlog[k] /\ due = Part
      OBVIOUS
    <3>2. u \in Thread /\ due \in Nat
      BY <1>1, <3>1, QueuesType, PartIsNat
    <3>3. ~(u = t /\ Gone(t))
      <4> SUFFICES ASSUME u = t, Gone(t) PROVE FALSE
        OBVIOUS
      <4>1. ~exited
        <5>1. 0 \in Thread /\ Len(accepted) # num_thrs
          <6>1. Len(accepted) \in Nat
            BY <1>1, QueuesType
          <6>2. QED
            BY <2>6, <6>1, Numbers
        <5>2. QED
          BY <1>1, <5>1 DEF Receivers
      <4>2. PICK x \in Thread : x < Len(accepted) /\ accepted[x + 1] = t
        BY <4>1 DEF Gone
      <4>3. x + 1 \in 1 .. Len(accepted)
        BY <1>1, <4>2, QueuesType
      <4>4. QED
        BY <1>1, <3>1, <4>2, <4>3 DEF Connections
    <3>4. Balanced(u, due)'
      BY <2>4, <2>6, <3>1, <3>2, <3>3
    <3>5. Part' = due
      BY <3>1 DEF Part
    <3>6. QED
      BY <3>1, <3>4, <3>5 DEF Balanced
  <2>7. QED
    BY <2>1, <2>5, <2>6 DEF Balance
<1>14. QED
  BY <1>7, <1>9, <1>10, <1>11, <1>12, <1>13 DEF TcpInv

LEMMA WriteKeeps ==
  ASSUME TcpInv, TcpCount, opts \in Setups, NEW t \in Thread, Write(t)
  PROVE  TcpInv'
<1>1. TcpType /\ Connections /\ Established /\ Descriptors /\ Receivers
  BY DEF TcpInv
<1>2. /\ spc[t] = "send"
      /\ UNCHANGED <<opts, mpac_net_msgcount, fd, accepted, rflag, rpc, msgcount, exited,
                     backlog, connected, cut>>
  BY DEF Write, receiver, history
<1>3. PICK c : c = files[fd[t]]
  OBVIOUS
<1>4. \/ c \in connected /\ unread' = [unread EXCEPT ![c] = @ + 1] /\ WriteReturns(t) /\ UNCHANGED files
      \/ (c \notin connected \/ Gone(c)) /\ WriteReturns(t) /\ UNCHANGED <<unread, files>>
      \/ /\ c \notin connected \/ Gone(c)
         /\ spc' = [u \in Thread |-> "killed"] /\ files' = [d \in Thread |-> None]
         /\ UNCHANGED <<message_count, unread>>
  BY <1>3 DEF Write
<1>5. CASE /\ WriteReturns(t) /\ UNCHANGED files
           /\ \/ c \in connected /\ unread' = [unread EXCEPT ![c] = @ + 1]
              \/ (c \notin connected \/ Gone(c)) /\ UNCHANGED unread
  BY <1>2, <1>3, <1>5, TurnKeeps
<1>6. CASE /\ c \notin connected \/ Gone(c)
           /\ spc' = [u \in Thread |-> "killed"] /\ files' = [d \in Thread |-> None]
           /\ UNCHANGED <<message_count, unread>>
  <2>1. TcpType'
    BY <1>1, <1>2, <1>6 DEF TcpType
  <2>2. \A u \in Thread : spc'[u] = "killed" /\ files'[u] = None
    BY <1>6
  <2>3. Connections'
    BY <1>1, <1>2, <2>2, Numbers DEF Connections, Unopened
  <2>4. Descriptors'
    BY <2>2 DEF Descriptors
  <2>5. Receivers'
    BY <1>1, <1>2 DEF Receivers
  <2>6. cut # {}
    <3>1. t \notin cut => c = t /\ t \in connected
      BY <1>1, <1>2, <1>3 DEF Descriptors
    <3>2. QED
      BY <1>2, <1>6, <3>1, NobodyWritesInVain DEF TcpInv
  <2>7. Killed'
    BY <2>2 DEF Killed
  <2>8. Established'
    BY <1>1, <1>2, <1>6, EstablishedStays
  <2>9. QED
    BY <2>8, <1>2, <2>1, <2>3, <2>4, <2>5, <2>6, <2>7 DEF TcpInv
<1>7. QED
  BY <1>4, <1>5, <1>6

(* The first connection that waits is accepted.                            *)
LEMMA AcceptKeeps ==
  ASSUME TcpInv, TcpCount, opts \in Setups, Accept
  PROVE  TcpInv'
<1>1. TcpType /\ Connections /\ Established /\ Descriptors /\ Receivers
  BY DEF TcpInv
<1>2. /\ Len(accepted) < num_thrs /\ backlog # <<>>
      /\ accepted' = Append(accepted, Head(backlog)) /\ backlog' = Tail(backlog)
      /\ UNCHANGED <<opts, mpac_net_msgcount, spc, message_count, fd, files, rflag, rpc, msgcount,
                     exited, unread, connected, cut>>
  BY DEF Accept, sender, history
<1>3. /\ Len(accepted) \in Nat /\ Len(backlog) \in Nat
      /\ \A k \in 1 .. Len(accepted) : accepted[k] \in Thread
      /\ \A k \in 1 .. Len(backlog) : backlog[k] \in Thread
  BY <1>1, QueuesType
<1>4. /\ backlog' \in Seq(Thread) /\ Len(backlog') = Len(backlog) - 1 /\ Head(backlog) \in Thread
      /\ \A k \in 1 .. Len(backlog') : backlog'[k] = backlog[k + 1]
  <2>1. backlog \in Seq(Thread)
    BY <1>1, QueuesType
  <2>2. QED
    BY <1>2, <2>1, HeadTailProperties
<1>5. PICK h \in Thread : h = Head(backlog) /\ h = backlog[1] /\ Len(backlog) >= 1
  <2>1. backlog \in Seq(Thread)
    BY <1>1, QueuesType
  <2>2. QED
    BY <1>2, <1>4, <2>1
<1>6. /\ accepted' \in Seq(Thread) /\ Len(accepted') = Len(accepted) + 1
      /\ accepted'[Len(accepted) + 1] = h /\ \A k \in 1 .. Len(accepted) : accepted'[k] = accepted[k]
  <2>1. accepted \in Seq(Thread)
    BY <1>1, QueuesType
  <2>2. QED
    BY <1>2, <1>5, <2>1, AppendProperties
<1>7. TcpType'
  <2>1. Len(accepted') <= num_thrs
    BY <1>2, <1>3, <1>6, Numbers
  <2>2. QED
    BY <1>1, <1>2, <1>4, <1>6, <2>1 DEF TcpType
<1>8. /\ \A k \in 1 .. Len(accepted') : k \in 1 .. Len(accepted) \/ k = Len(accepted) + 1
      /\ \A k \in 1 .. Len(backlog') : k + 1 \in 1 .. Len(backlog) /\ k + 1 # 1
      /\ 1 \in 1 .. Len(backlog)
  BY <1>3, <1>4, <1>5, <1>6
<1>9. Connections'
  <2>1. \A k \in 1 .. Len(accepted) : accepted[k] # h
    BY <1>1, <1>5, <1>8 DEF Connections
  <2>2. \A k \in 1 .. Len(backlog') : backlog'[k] # h
    BY <1>1, <1>4, <1>5, <1>8 DEF Connections
  <2>3. ASSUME NEW u \in Thread, Unopened(u)
        PROVE  /\ \A k \in 1 .. Len(accepted') : accepted'[k] # u
               /\ \A k \in 1 .. Len(backlog') : backlog'[k] # u
    <3>1. h # u
      BY <1>1, <1>5, <1>8, <2>3 DEF Connections
    <3>2. /\ \A k \in 1 .. Len(accepted) : accepted[k] # u
          /\ \A k \in 1 .. Len(backlog) : backlog[k] # u
      BY <1>1, <2>3 DEF Connections
    <3>3. \A k \in 1 .. Len(accepted') : accepted'[k] # u
      BY <1>6, <1>8, <3>1, <3>2
    <3>4. QED
      BY <1>4, <1>8, <3>2, <3>3
  <2>4. \A k \in 1 .. Len(accepted'), j \in 1 .. Len(backlog') : accepted'[k] # backlog'[j]
    BY <1>1, <1>4, <1>6, <1>8, <2>2 DEF Connections
  <2>5. \A k \in 1 .. Len(accepted'), j \in 1 .. Len(accepted') : accepted'[k] = accepted'[j] => k = j
    BY <1>1, <1>6, <1>8, <2>1 DEF Connections
  <2>6. ASSUME NEW k \in 1 .. Len(backlog'), NEW j \in 1 .. Len(backlog'), backlog'[k] = backlog'[j]
        PROVE  k = j
    <3>1. k + 1 = j + 1
      BY <1>1, <1>4, <1>8, <2>6 DEF Connections
    <3>2. QED
      BY <1>3, <1>4, <3>1
  <2>7. QED
    BY <1>1, <1>2, <2>3, <2>4, <2>5, <2>6 DEF Connections, Unopened
<1>10. Descriptors'
  BY <1>1, <1>2 DEF Descriptors, Part, Unopened
<1>11. Receivers'
  <2>1. \A r \in Thread : rpc[r] = "start"
    BY <1>1, <1>2, <1>3, Numbers DEF Receivers
  <2>2. ~exited
    <3>1. 0 \in Thread
      BY Numbers
    <3>2. QED
      BY <1>1, <2>1, <3>1 DEF Receivers
  <2>3. QED
    BY <1>2, <2>1, <2>2 DEF Receivers
<1>12. Killed' <=> Killed
  BY <1>2 DEF Killed
<1>13. ASSUME ~Killed PROVE Balance'
  <2>1. Balance
    BY <1>13 DEF TcpInv
  <2>2. \A u, due : Balanced(u, due) => Balanced(u, due)'
    BY <1>2 DEF Balanced, ToWrite
  <2>3. ASSUME NEW r \in Thread, r < Len(accepted') PROVE Balanced(accepted[r + 1], Due(r))'
    <3>1. PICK u, due : u = accepted'[r + 1] /\ due = Due(r)
      OBVIOUS
    <3>2. Due(r)' = due
      BY <1>2, <3>1 DEF Due, Part
    <3>3. CASE r < Len(accepted)
      <4>1. r + 1 \in 1 .. Len(accepted)
        BY <1>1, <3>3, QueuesType
      <4>2. u = accepted[r + 1]
        BY <1>6, <3>1, <4>1
      <4>3. Balanced(u, due)'
        BY <2>1, <2>2, <3>1, <3>3, <4>2 DEF Balance
      <4>4. QED
        BY <3>1, <3>2, <4>3 DEF Balanced
    <3>4. CASE r = Len(accepted)
      <4>1. u = backlog[1]
        BY <1>5, <1>6, <3>1, <3>4
      <4>2. due = Part
        <5>1. rpc[r] = "start"
          BY <1>1, <1>2, <1>3, Numbers DEF Receivers
        <5>2. QED
          BY <3>1, <5>1 DEF Due
      <4>3. Balanced(u, due)
        BY <1>2, <1>8, <2>1, <4>1, <4>2 DEF Balance
      <4>4. Balanced(u, due)'
        BY <2>2, <4>3
      <4>5. QED
        BY <3>1, <3>2, <4>4 DEF Balanced
    <3>5. r < Len(accepted) \/ r = Len(accepted)
      BY <1>3, <1>6, <2>3, Numbers
    <3>6. QED
      BY <3>3, <3>4, <3>5
  <2>4. ASSUME NEW k \in 1 .. Len(backlog') PROVE Balanced(backlog[k], Part)'
    <3>1. PICK u, due : u = backlog[k + 1] /\ due = Part
      OBVIOUS
    <3>2. Balanced(u, due)
      BY <1>2, <1>8, <2>1, <3>1 DEF Balance
    <3>3. Balanced(u, due)'
      BY <2>2, <3>2
    <3>4. backlog'[k] = u /\ Part' = due
      BY <1>2, <1>4, <3>1 DEF Part
    <3>5. QED
      BY <3>3, <3>4 DEF Balanced
  <2>5. QED
    BY <2>3, <2>4 DEF Balance
<1>14. Established'
  <2>1. \A u : Queued(u)' <=> Queued(u)
    BY <1>1, <1>2, QueuesType, Moved
  <2>2. QED
    BY <1>1, <1>2, <2>1 DEF Established
<1>15. QED
  BY <1>14, <1>2, <1>7, <1>9, <1>10, <1>11, <1>12, <1>13 DEF TcpInv

(* Receiving threads that start or end ask for what is due to them.        *)
LEMMA ReceiverKeeps ==
  ASSUME TcpInv, TcpCount, opts \in Setups,
         NEW r \in Thread, StartReceiver(r) \/ CloseReceiver(r) \/ Exit
  PROVE  TcpInv'
<1>1. TcpType /\ Connections /\ Established /\ Descriptors /\ Receivers
  BY DEF TcpInv
<1>2. UNCHANGED <<opts, mpac_net_msgcount, spc, message_count, fd, files, accepted, rflag, backlog,
                  unread, connected, cut>>
  BY DEF StartReceiver, CloseReceiver, Exit, sender, network, history
<1>3. rpc \in [Thread -> {"start", "recv", "close", "done"}] /\ msgcount \in [Thread -> Nat]
  BY <1>1 DEF TcpType
<1>4. /\ rpc' \in [Thread -> {"start", "recv", "close", "done"}] /\ msgcount' \in [Thread -> Nat]
      /\ \A x \in Thread : Due(x)' = Due(x)
      /\ Receivers'
  <2>1. CASE StartReceiver(r)
    <3>1. PICK m \in Nat : m = Part
      BY PartIsNat
    <3>2. PICK p : p = IF m > 0 THEN "recv" ELSE "close"
      OBVIOUS
    <3>3. /\ rpc[r] = "start" /\ Len(accepted) = num_thrs
          /\ msgcount' = [msgcount EXCEPT ![r] = m] /\ rpc' = [rpc EXCEPT ![r] = p] /\ exited' = exited
      BY <2>1, <3>1, <3>2 DEF StartReceiver, AllAccepted, ToReceive, Part, TcpCount, RGo
    <3>4. p \in {"recv", "close"} /\ (p = "recv" => m >= 1) /\ (p = "close" => m = 0)
      BY <3>1, <3>2
    <3>5. /\ rpc'[r] = p /\ msgcount'[r] = m
          /\ \A x \in Thread : x # r => rpc'[x] = rpc[x] /\ msgcount'[x] = msgcount[x]
      BY <1>3, <3>3
    <3>6. Part' = m
      BY <1>2, <3>1 DEF Part
    <3>7. \A x \in Thread : Due(x)' = Due(x)
      BY <3>1, <3>3, <3>4, <3>5, <3>6 DEF Due
    <3>8. ~exited
      BY <1>1, <3>3 DEF Receivers
    <3>9. Receivers'
      BY <1>1, <1>2, <3>3, <3>4, <3>5, <3>8 DEF Receivers
    <3>10. QED
      BY <1>3, <3>3, <3>4, <3>7, <3>9
  <2>2. CASE CloseReceiver(r)
    <3>1. rpc[r] = "close" /\ rpc' = [rpc EXCEPT ![r] = "done"] /\ UNCHANGED <<msgcount, exited>>
      BY <2>2 DEF CloseReceiver, RGo
    <3>2. rpc'[r] = "done" /\ \A x \in Thread : x # r => rpc'[x] = rpc[x]
      BY <1>3, <3>1
    <3>3. \A x \in Thread : Due(x)' = Due(x)
      BY <1>2, <3>1, <3>2 DEF Due, Part
    <3>4. Receivers'
      BY <1>1, <1>2, <3>1, <3>2 DEF Receivers
    <3>5. QED
      BY <1>3, <3>1, <3>3, <3>4
  <2>3. CASE Exit
    <3>1. (\A x \in Thread : rpc[x] = "done") /\ UNCHANGED <<rpc, msgcount>>
      BY <2>3 DEF Exit
    <3>2. QED
      BY <1>1, <1>2, <1>3, <3>1 DEF Receivers, Due, Part
  <2>4. QED
    BY <2>1, <2>2, <2>3
<1>5. TcpType'
  BY <1>1, <1>2, <1>4 DEF TcpType
<1>6. Connections' /\ Descriptors'
  <2>1. Connections'
    BY <1>1, <1>2, ZenonT(60) DEF Connections, Unopened
  <2>2. Descriptors'
    BY <1>1, <1>2, ZenonT(60) DEF Descriptors, Part
  <2>3. QED
    BY <2>1, <2>2
<1>7. Killed' <=> Killed
  BY <1>2 DEF Killed
<1>8. ~Killed => Balance'
  <2>1. \A u \in Thread : ToWrite(u)' = ToWrite(u)
    BY <1>2 DEF ToWrite
  <2>2. QED
    BY <1>1, <1>2, <1>4, <2>1, BalanceStays DEF TcpInv
<1>9. Established'
  BY <1>1, <1>2, EstablishedStays
<1>10. QED
  BY <1>9, <1>2, <1>4, <1>5, <1>6, <1>7, <1>8 DEF TcpInv

(* A message that is received is due no more.                              *)
LEMMA MessageKeeps ==
  ASSUME TcpInv, TcpCount, opts \in Setups, NEW r \in Thread, Receive(r)
  PROVE  TcpInv'
<1>1. TcpType /\ Connections /\ Established /\ Descriptors /\ Receivers
  BY DEF TcpInv
<1>2. rpc \in [Thread -> {"start", "recv", "close", "done"}] /\ msgcount \in [Thread -> Nat]
      /\ unread \in [Thread -> Nat] /\ ~rflag
  BY <1>1 DEF TcpType
<1>3. /\ rpc[r] = "recv" /\ Len(accepted) = num_thrs
      /\ UNCHANGED <<opts, mpac_net_msgcount, spc, message_count, fd, files, accepted, rflag, backlog,
                     connected, cut, exited>>
  BY <1>1 DEF Receive, Receivers, sender, history
<1>4. r < Len(accepted) /\ r + 1 \in 1 .. Len(accepted)
  BY <1>1, <1>3, Numbers, QueuesType
<1>5. PICK c \in Thread : c = accepted[r + 1] /\ c = Channel(r)
  BY <1>1, <1>4, QueuesType DEF Channel, TcpCount
<1>6. PICK q \in Nat, m \in Nat : q = unread[c] /\ m = msgcount[r] /\ q >= 1 /\ m >= 1
  <2>1. unread[c] \in Nat /\ msgcount[r] \in Nat
    BY <1>2
  <2>2. unread[c] > 0 /\ msgcount[r] >= 1
    BY <1>1, <1>3, <1>5 DEF Receive, Receivers
  <2>3. QED
    BY <2>1, <2>2
<1>7. PICK p : p = IF m = 1 THEN "close" ELSE "recv"
  OBVIOUS
<1>8. /\ unread' = [unread EXCEPT ![c] = q - 1] /\ msgcount' = [msgcount EXCEPT ![r] = m - 1]
      /\ rpc' = [rpc EXCEPT ![r] = p]
  BY <1>2, <1>5, <1>6, <1>7 DEF Receive, TcpCount, RGo, LastTurn
<1>9. /\ unread'[c] = q - 1 /\ msgcount'[r] = m - 1 /\ rpc'[r] = p
      /\ \A x \in Thread : x # r => rpc'[x] = rpc[x] /\ msgcount'[x] = msgcount[x]
      /\ \A u \in Thread : u # c => unread'[u] = unread[u]
  BY <1>2, <1>8
<1>10. q - 1 \in Nat /\ m - 1 \in Nat /\ p \in {"recv", "close"}
       /\ (p = "recv" => m - 1 >= 1) /\ (p = "close" => m - 1 = 0)
  BY <1>6, <1>7
<1>11. TcpType'
  <2>1. /\ unread' \in [Thread -> Nat] /\ msgcount' \in [Thread -> Nat]
        /\ rpc' \in [Thread -> {"start", "recv", "close", "done"}]
    BY <1>2, <1>8, <1>10
  <2>2. QED
    BY <1>1, <1>3, <2>1 DEF TcpType
<1>12. Connections' /\ Established'
  <2>1. Connections'
    BY <1>1, <1>3, ZenonT(60) DEF Connections, Unopened
  <2>2. Queued(c) /\ c \in connected
    BY <1>1, <1>4, <1>5 DEF Queued, Established
  <2>3. \A u \in Thread : u \notin connected => unread'[u] = 0
    BY <1>1, <1>9, <2>2 DEF Established
  <2>4. \A u : Queued(u)' <=> Queued(u)
    BY <1>3 DEF Queued
  <2>5. QED
    BY <1>1, <1>3, <2>1, <2>3, <2>4 DEF Established
<1>13. Descriptors'
  BY <1>1, <1>3 DEF Descriptors, Unopened, Part
<1>14. Receivers'
  <2>1. ~exited
    BY <1>1, <1>3 DEF Receivers
  <2>2. QED
    BY <1>1, <1>3, <1>9, <1>10, <2>1 DEF Receivers
<1>15. Killed' <=> Killed
  BY <1>3 DEF Killed
<1>16. ASSUME ~Killed PROVE Balance'
  <2>1. Balance
    BY <1>16 DEF TcpInv
  <2>2. Balanced(c, m)
    BY <1>3, <1>4, <1>5, <1>6, <2>1 DEF Balance, Due
  <2>3. ToWrite(c) \in Nat /\ ToWrite(c)' = ToWrite(c)
    <3>1. message_count[c] \in Nat
      BY <1>1 DEF TcpType
    <3>2. QED
      BY <1>3, <3>1 DEF ToWrite
  <2>4. PICK w \in Nat : w = ToWrite(c) /\ w = ToWrite(c)'
    BY <2>3
  <2>5. /\ c \notin cut => q + w >= m
        /\ cut = {} => q + w = m
    BY <1>6, <2>2, <2>4 DEF Balanced
  <2>6. /\ c \notin cut => q - 1 + w >= m - 1
        /\ cut = {} => q - 1 + w = m - 1
    BY <1>6, <2>4, <2>5
  <2>7. Balanced(c, m - 1)'
    BY <1>3, <1>9, <2>4, <2>6 DEF Balanced
  <2>8. ASSUME NEW x \in Thread, x < Len(accepted) PROVE Balanced(accepted[x + 1], Due(x))'
    <3>1. CASE x = r
      <4>1. Due(x)' = m - 1 /\ accepted'[x + 1] = c
        BY <1>3, <1>5, <1>9, <1>10, <3>1 DEF Due
      <4>2. QED
        BY <2>7, <4>1 DEF Balanced
    <3>2. CASE x # r
      <4>1. PICK u, due : u = accepted[x + 1] /\ due = Due(x)
        OBVIOUS
      <4>2. u \in Thread /\ x + 1 \in 1 .. Len(accepted)
        BY <1>1, <2>8, <4>1, QueuesType
      <4>3. u # c
        <5>1. x + 1 # r + 1
          BY <3>2, Numbers
        <5>2. QED
          BY <1>1, <1>4, <1>5, <4>1, <4>2, <5>1 DEF Connections
      <4>4. Balanced(u, due)
        BY <2>1, <2>8, <4>1 DEF Balance
      <4>5. ToWrite(u)' = ToWrite(u)
        BY <1>3 DEF ToWrite
      <4>6. Balanced(u, due)'
        BY <1>3, <1>9, <4>2, <4>3, <4>4, <4>5, StaysBalanced
      <4>7. accepted'[x + 1] = u /\ Due(x)' = due
        BY <1>3, <1>9, <3>2, <4>1 DEF Due, Part
      <4>8. QED
        BY <4>6, <4>7 DEF Balanced
    <3>3. QED
      BY <3>1, <3>2
  <2>9. ~(Len(accepted) < num_thrs)
    BY <1>3, Numbers
  <2>10. QED
    BY <1>3, <2>8, <2>9 DEF Balance
<1>17. QED
  BY <1>3, <1>11, <1>12, <1>13, <1>14, <1>15, <1>16 DEF TcpInv

LEMMA TcpStep ==
  ASSUME TcpInv, TcpCount, opts \in Setups, NNext
  PROVE  TcpInv'
<1>1. TcpType
  BY DEF TcpInv
<1>2. ASSUME NEW t \in Thread, SenderThread(t) PROVE TcpInv'
  <2>1. spc[t] \notin {"count", "dec"}
    BY <1>1 DEF TcpType
  <2>2. \/ Start(t) \/ OpenSocket(t) \/ Connect(t)
        \/ Write(t) \/ Close(t) \/ CloseAgain(t)
    BY <1>2, <2>1 DEF SenderThread, Open, Count, Decrement, SendDatagram, TcpCount
  <2>3. QED
    BY <2>2, StartKeeps, OpenKeeps, ConnectKeeps, WriteKeeps, CloseKeeps
<1>3. ASSUME NEW r \in Thread, ReceiverThread(r) PROVE TcpInv'
  BY <1>3, ReceiverKeeps, MessageKeeps DEF ReceiverThread
<1>4. CASE Exit
  <2>1. 0 \in Thread
    BY Numbers
  <2>2. QED
    BY <1>4, <2>1, ReceiverKeeps
<1>5. ~Alarm /\ ~ReceiverAlarm
  BY DEF Alarm, ReceiverAlarm, TcpCount
<1>6. QED
  BY <1>2, <1>3, <1>4, <1>5, AcceptKeeps DEF NNext

-----------------------------------------------------------------------------
(* One thread of a timed sender takes a step with its own socket.          *)
LEMMA OwnSockets ==
  ASSUME TimedInv, NEW t \in Thread, spc[t] # "killed",
         NEW p \in {"start", "open", "connect", "send", "close", "done"}, spc' = [spc EXCEPT ![t] = p],
         fd' \in [Thread -> Thread \cup {None}], files' \in [Thread -> Thread \cup {None}],
         \A u \in Thread : u # t /\ OwnSocket(u) =>
           /\ fd'[u] = fd[u]
           /\ spc[u] \in {"connect", "send", "close"} => files'[fd[u]] = files[fd[u]],
         connected \subseteq connected', OwnSocket(t)'
  PROVE  /\ spc' \in [Thread -> {"start", "open", "connect", "send", "close", "done", "killed"}]
         /\ \A u \in Thread : OwnSocket(u)'
         /\ Killed' <=> Killed
<1>1. /\ spc \in [Thread -> {"start", "open", "connect", "send", "close", "done", "killed"}]
      /\ \A u \in Thread : OwnSocket(u)
  BY DEF TimedInv
<1>2. spc'[t] = p /\ \A u \in Thread : u # t => spc'[u] = spc[u]
  BY <1>1
<1>3. ASSUME NEW u \in Thread, u # t PROVE OwnSocket(u)'
  <2>1. OwnSocket(u) /\ spc'[u] = spc[u]
    BY <1>1, <1>2, <1>3
  <2>2. fd'[u] = fd[u] /\ (spc[u] \in {"connect", "send", "close"} => files'[fd[u]] = files[fd[u]])
    BY <1>3, <2>1
  <2>3. QED
    BY <2>1, <2>2 DEF OwnSocket
<1>4. QED
  BY <1>1, <1>2, <1>3 DEF Killed

LEMMA TimedSender ==
  ASSUME TimedInv, TcpTimed, NEW t \in Thread, SenderThread(t)
  PROVE  TimedInv'
<1>1. /\ spc \in [Thread -> {"start", "open", "connect", "send", "close", "done", "killed"}]
      /\ fd \in [Thread -> Thread \cup {None}] /\ files \in [Thread -> Thread \cup {None}]
      /\ accepted \in Seq(Thread) /\ backlog \in Seq(Thread) /\ OwnSocket(t)
      /\ Len(accepted) <= num_thrs
      /\ \A c \in Thread : c \in connected <=> Queued(c)
  BY DEF TimedInv
<1>2. spc[t] \notin {"count", "dec", "close again"}
  BY <1>1
<1>3. UNCHANGED <<accepted, rpc, exited>>
  BY DEF SenderThread, Start, OpenSocket, Connect, Open, Count, SendDatagram, Decrement, Write,
     Close, CloseAgain, receiver
<1>4. /\ \A r \in Thread : rpc[r] # "start" => Len(accepted) = num_thrs
      /\ exited => Len(accepted) = num_thrs
      /\ Killed => Len(accepted) = num_thrs
      /\ rpc \in [Thread -> {"start", "recv", "close", "done"}]
  BY DEF TimedInv
<1>5. ASSUME UNCHANGED <<backlog, connected>>
      PROVE  backlog' \in Seq(Thread) /\ \A c \in Thread : c \in connected' <=> Queued(c)'
  BY <1>1, <1>3, <1>5 DEF Queued
<1>6. CASE Start(t)
  <2>1. spc[t] = "start" /\ spc' = [spc EXCEPT ![t] = "open"] /\ UNCHANGED <<fd, files, backlog, connected>>
    BY <1>6 DEF Start, Go, network
  <2>2. spc'[t] = "open" /\ OwnSocket(t)'
    BY <1>1, <2>1 DEF OwnSocket
  <2>3. /\ spc' \in [Thread -> {"start", "open", "connect", "send", "close", "done", "killed"}]
        /\ \A u \in Thread : OwnSocket(u)'
        /\ Killed' <=> Killed
    BY <1>1, <2>1, <2>2, OwnSockets
  <2>4. QED
    BY <1>1, <1>3, <1>4, <1>5, <2>1, <2>3 DEF TimedInv
<1>7. CASE OpenSocket(t)
  <2>1. /\ spc[t] = "open" /\ spc' = [spc EXCEPT ![t] = "connect"] /\ UNCHANGED <<backlog, connected>>
        /\ \E d \in Thread : files[d] = None /\ fd' = [fd EXCEPT ![t] = d] /\ files' = [files EXCEPT ![d] = t]
    BY <1>7 DEF OpenSocket, Go, network
  <2>2. PICK d \in Thread : files[d] = None /\ fd' = [fd EXCEPT ![t] = d] /\ files' = [files EXCEPT ![d] = t]
    BY <2>1
  <2>3. fd' \in [Thread -> Thread \cup {None}] /\ files' \in [Thread -> Thread \cup {None}]
    BY <1>1, <2>2
  <2>4. spc'[t] = "connect" /\ fd'[t] = d /\ files'[d] = t /\ OwnSocket(t)'
    BY <1>1, <2>1, <2>2 DEF OwnSocket
  <2>5. ASSUME NEW u \in Thread, u # t, OwnSocket(u)
        PROVE  fd'[u] = fd[u] /\ (spc[u] \in {"connect", "send", "close"} => files'[fd[u]] = files[fd[u]])
    <3>1. fd'[u] = fd[u]
      BY <1>1, <2>2, <2>5
    <3>2. ASSUME spc[u] \in {"connect", "send", "close"} PROVE files'[fd[u]] = files[fd[u]]
      <4>1. fd[u] \in Thread /\ files[fd[u]] = u /\ u # None
        BY <2>5, <3>2, Numbers DEF OwnSocket
      <4>2. fd[u] # d
        BY <2>2, <4>1
      <4>3. QED
        BY <1>1, <2>2, <4>1, <4>2
    <3>3. QED
      BY <3>1, <3>2
  <2>6. /\ spc' \in [Thread -> {"start", "open", "connect", "send", "close", "done", "killed"}]
        /\ \A u \in Thread : OwnSocket(u)'
        /\ Killed' <=> Killed
    BY <1>1, <2>1, <2>3, <2>4, <2>5, OwnSockets
  <2>7. QED
    BY <1>1, <1>3, <1>4, <1>5, <2>1, <2>3, <2>6 DEF TimedInv
<1>8. CASE Connect(t)
  <2>1. /\ spc[t] = "connect" /\ spc' = [spc EXCEPT ![t] = "send"] /\ UNCHANGED <<fd, files>>
        /\ fd[t] \in Thread /\ files[fd[t]] = t
    BY <1>1, <1>8 DEF Connect, BeginLoop, Go, TcpTimed, OwnSocket
  <2>2. \/ connected' = connected \cup {t} /\ backlog' = Append(backlog, t)
        \/ t \in connected /\ UNCHANGED <<connected, backlog>>
    BY <1>8, <2>1, Numbers DEF Connect
  <2>3. t \in connected' /\ connected \subseteq connected'
    BY <2>2
  <2>4. backlog' \in Seq(Thread) /\ \A c \in Thread : c \in connected' <=> Queued(c)'
    <3>1. CASE connected' = connected \cup {t} /\ backlog' = Append(backlog, t)
      <4>1. backlog' \in Seq(Thread) /\ \A u : Queued(u)' <=> Queued(u) \/ u = t
        BY <1>1, <1>3, <3>1, Appended
      <4>2. QED
        BY <1>1, <3>1, <4>1
    <3>2. QED
      BY <1>5, <2>2, <3>1
  <2>5. spc'[t] = "send" /\ OwnSocket(t)'
    BY <1>1, <2>1, <2>3 DEF OwnSocket
  <2>6. /\ spc' \in [Thread -> {"start", "open", "connect", "send", "close", "done", "killed"}]
        /\ \A u \in Thread : OwnSocket(u)'
        /\ Killed' <=> Killed
    BY <1>1, <2>1, <2>3, <2>5, OwnSockets
  <2>7. QED
    BY <1>1, <1>3, <1>4, <2>1, <2>4, <2>6 DEF TimedInv
<1>9. CASE Write(t)
  <2>1. spc[t] = "send" /\ UNCHANGED <<fd, backlog, connected>>
    BY <1>9 DEF Write
  <2>2. fd[t] \in Thread /\ files[fd[t]] = t /\ t \in connected
    BY <1>1, <2>1 DEF OwnSocket
  <2>3. CASE UNCHANGED files /\ \E p \in {"close", "send"} : spc' = [spc EXCEPT ![t] = p]
    <3>1. PICK p \in {"close", "send"} : spc' = [spc EXCEPT ![t] = p]
      BY <2>3
    <3>2. OwnSocket(t)'
      BY <2>1, <2>2, <2>3 DEF OwnSocket
    <3>3. /\ spc' \in [Thread -> {"start", "open", "connect", "send", "close", "done", "killed"}]
          /\ \A u \in Thread : OwnSocket(u)'
          /\ Killed' <=> Killed
      BY <1>1, <2>1, <2>3, <3>1, <3>2, OwnSockets
    <3>4. QED
      BY <1>1, <1>3, <1>4, <1>5, <2>1, <2>3, <3>3 DEF TimedInv
  <2>4. CASE /\ Gone(t) /\ spc' = [u \in Thread |-> "killed"] /\ files' = [d \in Thread |-> None]
    <3>1. exited
      BY <2>4 DEF Gone, TcpTimed
    <3>2. \A u \in Thread : OwnSocket(u)'
      BY <2>4 DEF OwnSocket
    <3>3. /\ spc' \in [Thread -> {"start", "open", "connect", "send", "close", "done", "killed"}]
          /\ files' \in [Thread -> Thread \cup {None}]
      BY <2>4
    <3>4. QED
      BY <1>1, <1>3, <1>4, <1>5, <2>1, <3>1, <3>2, <3>3 DEF TimedInv
  <2>5. QED
    BY <1>9, <2>2, <2>3, <2>4 DEF Write, WriteReturns, TimedTurn, Go, TcpTimed
<1>10. CASE Close(t)
  <2>1. /\ spc[t] = "close" /\ spc' = [spc EXCEPT ![t] = "done"] /\ UNCHANGED <<fd, backlog, connected>>
        /\ files' = [files EXCEPT ![fd[t]] = None]
    BY <1>10 DEF Close, CloseDescriptor, Go, TcpTimed, network
  <2>2. fd[t] \in Thread /\ files[fd[t]] = t /\ t \in connected
    BY <1>1, <2>1 DEF OwnSocket
  <2>3. spc'[t] = "done" /\ OwnSocket(t)'
    BY <1>1, <2>1, <2>2 DEF OwnSocket
  <2>4. files' \in [Thread -> Thread \cup {None}]
    BY <1>1, <2>1
  <2>5. ASSUME NEW u \in Thread, u # t, OwnSocket(u), spc[u] \in {"connect", "send", "close"}
        PROVE  files'[fd[u]] = files[fd[u]]
    <3>1. fd[u] \in Thread /\ files[fd[u]] = u
      BY <2>5 DEF OwnSocket
    <3>2. fd[u] # fd[t]
      BY <2>2, <2>5, <3>1
    <3>3. QED
      BY <1>1, <2>1, <3>1, <3>2
  <2>6. /\ spc' \in [Thread -> {"start", "open", "connect", "send", "close", "done", "killed"}]
        /\ \A u \in Thread : OwnSocket(u)'
        /\ Killed' <=> Killed
    BY <1>1, <2>1, <2>3, <2>4, <2>5, OwnSockets
  <2>7. QED
    BY <1>1, <1>3, <1>4, <1>5, <2>1, <2>4, <2>6 DEF TimedInv
<1>11. ~Open(t) /\ ~Count(t) /\ ~SendDatagram(t) /\ ~Decrement(t) /\ ~CloseAgain(t)
  BY <1>2 DEF Open, Count, SendDatagram, Decrement, CloseAgain, TcpTimed
<1>12. QED
  BY <1>6, <1>7, <1>8, <1>9, <1>10, <1>11 DEF SenderThread

(* The receiver and the timers leave the sockets alone.                    *)
LEMMA TimedStep ==
  ASSUME TimedInv, TcpTimed, NNext
  PROVE  TimedInv'
<1>1. /\ spc \in [Thread -> {"start", "open", "connect", "send", "close", "done", "killed"}]
      /\ fd \in [Thread -> Thread \cup {None}] /\ files \in [Thread -> Thread \cup {None}]
      /\ accepted \in Seq(Thread) /\ backlog \in Seq(Thread) /\ Len(accepted) <= num_thrs
      /\ rpc \in [Thread -> {"start", "recv", "close", "done"}]
  BY DEF TimedInv
<1>2. /\ \A c \in Thread : c \in connected <=> Queued(c)
      /\ \A t \in Thread : OwnSocket(t)
      /\ \A r \in Thread : rpc[r] # "start" => Len(accepted) = num_thrs
      /\ exited => Len(accepted) = num_thrs
      /\ Killed => Len(accepted) = num_thrs
  BY DEF TimedInv
<1>3. ASSUME UNCHANGED <<fd, files, connected, backlog, accepted>>
      PROVE  /\ fd' \in [Thread -> Thread \cup {None}] /\ files' \in [Thread -> Thread \cup {None}]
             /\ accepted' \in Seq(Thread) /\ backlog' \in Seq(Thread)
             /\ \A c \in Thread : c \in connected' <=> Queued(c)'
  BY <1>1, <1>2, <1>3 DEF Queued
<1>4. ASSUME UNCHANGED <<spc, fd, files, connected>>
      PROVE  /\ spc' \in [Thread -> {"start", "open", "connect", "send", "close", "done", "killed"}]
             /\ \A t \in Thread : OwnSocket(t)'
             /\ Killed' <=> Killed
  <2>1. \A t \in Thread : OwnSocket(t)'
    BY <1>2, <1>4 DEF OwnSocket
  <2>2. QED
    BY <1>1, <1>4, <2>1 DEF Killed
<1>5. ASSUME NEW r \in Thread, ReceiverThread(r) PROVE TimedInv'
  <2>1. UNCHANGED <<spc, fd, files, connected, backlog, accepted, exited>>
    BY <1>5 DEF ReceiverThread, StartReceiver, Receive, CloseReceiver, sender, network
  <2>2. PICK p \in {"recv", "close", "done"} : rpc' = [rpc EXCEPT ![r] = p]
    BY <1>5 DEF ReceiverThread, StartReceiver, Receive, CloseReceiver, RGo
  <2>3. Len(accepted) = num_thrs
    BY <1>2, <1>5 DEF ReceiverThread, StartReceiver, Receive, CloseReceiver, AllAccepted, TcpTimed
  <2>4. rpc' \in [Thread -> {"start", "recv", "close", "done"}]
    BY <1>1, <2>2
  <2>5. QED
    BY <1>3, <1>4, <2>1, <2>3, <2>4 DEF TimedInv
<1>6. CASE Alarm
  <2>1. UNCHANGED <<fd, files, connected, backlog, accepted, rpc, exited>>
    BY <1>6 DEF Alarm, receiver, network
  <2>2. CASE UNCHANGED spc
    BY <1>1, <1>2, <1>3, <1>4, <2>1, <2>2 DEF TimedInv
  <2>3. CASE \E t \in Thread : spc[t] = "send" /\ spc' = [spc EXCEPT ![t] = "close"]
    <3>1. PICK t \in Thread : spc[t] = "send" /\ spc' = [spc EXCEPT ![t] = "close"]
      BY <2>3
    <3>2. OwnSocket(t)'
      BY <1>2, <2>1, <3>1 DEF OwnSocket
    <3>3. /\ spc' \in [Thread -> {"start", "open", "connect", "send", "close", "done", "killed"}]
          /\ \A u \in Thread : OwnSocket(u)'
          /\ Killed' <=> Killed
      BY <1>1, <2>1, <3>1, <3>2, OwnSockets
    <3>4. QED
      BY <1>1, <1>2, <1>3, <2>1, <3>3 DEF TimedInv
  <2>4. QED
    BY <1>6, <2>2, <2>3 DEF Alarm, Go
<1>7. CASE Accept
  <2>1. /\ Len(accepted) < num_thrs /\ backlog # <<>>
        /\ accepted' = Append(accepted, Head(backlog)) /\ backlog' = Tail(backlog)
        /\ UNCHANGED <<spc, fd, files, connected, rpc, exited>>
    BY <1>7 DEF Accept, sender
  <2>2. /\ accepted' \in Seq(Thread) /\ backlog' \in Seq(Thread)
        /\ Len(accepted) \in Nat /\ Len(accepted') = Len(accepted) + 1
        /\ \A u : Queued(u)' <=> Queued(u)
    BY <1>1, <2>1, Moved
  <2>3. /\ ~Killed /\ ~exited /\ Len(accepted') <= num_thrs
        /\ \A r \in Thread : rpc[r] = "start"
    BY <1>2, <2>1, <2>2, Numbers
  <2>4. QED
    BY <1>1, <1>2, <1>4, <2>1, <2>2, <2>3 DEF TimedInv
<1>8. CASE ReceiverAlarm
  <2>1. UNCHANGED <<spc, fd, files, connected, backlog, accepted, exited>> /\ Len(accepted) = num_thrs
    BY <1>8 DEF ReceiverAlarm, AllAccepted, TcpTimed, sender, network
  <2>2. rpc' \in [Thread -> {"start", "recv", "close", "done"}]
    BY <1>1, <1>8 DEF ReceiverAlarm, RGo
  <2>3. QED
    BY <1>3, <1>4, <2>1, <2>2 DEF TimedInv
<1>9. CASE Exit
  <2>1. UNCHANGED <<spc, fd, files, connected, backlog, accepted, rpc>> /\ \A r \in Thread : rpc[r] = "done"
    BY <1>9 DEF Exit, sender, network
  <2>2. Len(accepted) = num_thrs
    BY <1>2, <2>1, Numbers
  <2>3. QED
    BY <1>1, <1>3, <1>4, <2>1, <2>2 DEF TimedInv
<1>10. QED
  BY <1>5, <1>6, <1>7, <1>8, <1>9, TimedSender DEF NNext

-----------------------------------------------------------------------------
(* The datagrams that are on the way are those sent and not received.      *)
LEMMA UdpStep ==
  ASSUME UdpInv, UdpCount, CountInv, opts \in Setups, NNext
  PROVE  UdpInv'
<1>1. /\ unread \in [Thread -> Nat] /\ msgcount \in [Thread -> Nat] /\ sent \in Nat /\ ~rflag
      /\ rpc \in [Thread -> {"start", "recv", "close", "done"}] /\ opts.num_msg \in Nat
      /\ opts.num_msg > 0 /\ 0 \in Thread
  BY PartIsNat, Numbers DEF UdpInv, CountInv
<1>2. opts' = opts
  BY DEF NNext, SenderThread, Start, OpenSocket, Connect, Open, Count, SendDatagram, Decrement, Write,
     Close, CloseAgain, ReceiverThread, StartReceiver, Receive, CloseReceiver,
     Alarm, Accept, ReceiverAlarm, Exit
<1>3. ASSUME UNCHANGED <<rflag, unread, msgcount, rpc, lost, sent>> PROVE UdpInv'
  BY <1>2, <1>3 DEF UdpInv
<1>4. ASSUME NEW t \in Thread, SendDatagram(t) PROVE UdpInv'
  <2>1. sent' = sent + 1 /\ UNCHANGED <<rflag, msgcount, rpc>>
    BY <1>4 DEF SendDatagram, UdpCount, receiver
  <2>2. CASE lost' = TRUE /\ UNCHANGED unread
    BY <1>1, <2>1, <2>2 DEF UdpInv
  <2>3. CASE \E r \in Receiving :
               rpc[r] = "recv" /\ unread' = [unread EXCEPT ![r] = @ + 1] /\ UNCHANGED lost
    <3>1. rpc[0] = "recv" /\ unread' = [unread EXCEPT ![0] = unread[0] + 1] /\ UNCHANGED lost
      BY <2>3 DEF Receiving, UdpCount
    <3>2. PICK q \in Nat, m \in Nat, k \in Nat, s \in Nat :
            q = unread[0] /\ m = msgcount[0] /\ k = opts.num_msg /\ s = sent
      BY <1>1
    <3>3. unread' \in [Thread -> Nat] /\ unread'[0] = q + 1
      <4>1. q + 1 \in Nat
        BY <3>2
      <4>2. QED
        BY <1>1, <3>1, <3>2, <4>1
    <3>4. m >= 1 /\ (~lost => q + k - m = s)
      BY <3>1, <3>2 DEF UdpInv
    <3>5. ~lost => q + 1 + k - m = s + 1
      BY <3>2, <3>4
    <3>6. ~lost' => unread'[0] + opts'.num_msg - msgcount'[0] = sent'
      BY <1>2, <2>1, <3>1, <3>2, <3>3, <3>4, <3>5
    <3>7. QED
      BY <1>1, <2>1, <3>1, <3>2, <3>3, <3>4, <3>6 DEF UdpInv
  <2>4. QED
    BY <1>4, <2>2, <2>3 DEF SendDatagram
<1>5. ASSUME NEW t \in Thread, SenderThread(t) PROVE UdpInv'
  <2>1. ~OpenSocket(t) /\ ~Connect(t) /\ ~Write(t)
    BY DEF OpenSocket, Connect, Write, UdpCount, CountInv
  <2>2. CASE Start(t) \/ Open(t) \/ Count(t) \/ Decrement(t) \/ Close(t) \/ CloseAgain(t)
    <3>1. UNCHANGED <<rflag, unread, msgcount, rpc, lost, sent>>
      BY <2>2 DEF Start, Open, Count, Decrement, Close, CloseAgain, receiver, network, history
    <3>2. QED
      BY <1>3, <3>1
  <2>3. QED
    BY <1>4, <1>5, <2>1, <2>2 DEF SenderThread
<1>6. ASSUME NEW r \in Thread, ReceiverThread(r) PROVE UdpInv'
  <2>1. r = 0 /\ UNCHANGED <<rflag, lost, sent>>
    BY <1>6 DEF ReceiverThread, StartReceiver, Receive, CloseReceiver, UdpInv, history
  <2>2. CASE StartReceiver(r)
    <3>1. /\ rpc[0] = "start" /\ UNCHANGED unread
          /\ msgcount' = [msgcount EXCEPT ![0] = opts.num_msg] /\ rpc' = [rpc EXCEPT ![0] = "recv"]
      BY <1>1, <2>1, <2>2 DEF StartReceiver, RGo, ToReceive, UdpCount, network
    <3>2. /\ msgcount' \in [Thread -> Nat] /\ msgcount'[0] = opts.num_msg /\ rpc'[0] = "recv"
          /\ rpc' \in [Thread -> {"start", "recv", "close", "done"}]
          /\ \A x \in Thread : x # 0 => rpc'[x] = rpc[x]
      BY <1>1, <3>1
    <3>3. ~lost' => unread'[0] + opts'.num_msg - msgcount'[0] = sent'
      BY <1>1, <1>2, <2>1, <3>1, <3>2 DEF UdpInv
    <3>4. QED
      BY <1>1, <2>1, <3>1, <3>2, <3>3 DEF UdpInv
  <2>3. CASE Receive(r)
    <3>1. PICK q \in Nat, m \in Nat, k \in Nat, s \in Nat :
            q = unread[0] /\ m = msgcount[0] /\ k = opts.num_msg /\ s = sent
      BY <1>1
    <3>2. PICK p : p = IF m = 1 THEN "close" ELSE "recv"
      OBVIOUS
    <3>3. /\ rpc[0] = "recv" /\ q > 0 /\ unread' = [unread EXCEPT ![0] = q - 1]
          /\ msgcount' = [msgcount EXCEPT ![0] = m - 1] /\ rpc' = [rpc EXCEPT ![0] = p]
      BY <1>1, <2>1, <2>3, <3>1, <3>2 DEF Receive, RGo, Channel, LastTurn, UdpCount
    <3>4. m >= 1 /\ (~lost => q + k - m = s)
      BY <3>1, <3>3 DEF UdpInv
    <3>5. /\ q - 1 \in Nat /\ m - 1 \in Nat /\ p \in {"recv", "close"}
          /\ p = "recv" => m - 1 >= 1
          /\ ~lost => q - 1 + k - (m - 1) = s
      BY <3>1, <3>2, <3>3, <3>4
    <3>6. /\ unread' \in [Thread -> Nat] /\ unread'[0] = q - 1
          /\ msgcount' \in [Thread -> Nat] /\ msgcount'[0] = m - 1
          /\ rpc' \in [Thread -> {"start", "recv", "close", "done"}] /\ rpc'[0] = p
          /\ \A x \in Thread : x # 0 => rpc'[x] = rpc[x]
      BY <1>1, <3>3, <3>5
    <3>7. ~lost' => unread'[0] + opts'.num_msg - msgcount'[0] = sent'
      BY <1>2, <2>1, <3>1, <3>5, <3>6
    <3>8. QED
      BY <1>1, <2>1, <3>5, <3>6, <3>7 DEF UdpInv
  <2>4. CASE CloseReceiver(r)
    <3>1. /\ rpc[0] = "close" /\ UNCHANGED <<unread, msgcount>> /\ rpc' = [rpc EXCEPT ![0] = "done"]
      BY <2>1, <2>4 DEF CloseReceiver, RGo, network
    <3>2. /\ rpc'[0] = "done" /\ rpc' \in [Thread -> {"start", "recv", "close", "done"}]
          /\ \A x \in Thread : x # 0 => rpc'[x] = rpc[x]
      BY <1>1, <3>1
    <3>3. QED
      BY <1>1, <2>1, <3>1, <3>2 DEF UdpInv
  <2>5. QED
    BY <1>6, <2>2, <2>3, <2>4 DEF ReceiverThread
<1>7. CASE Exit
  <2>1. UNCHANGED <<rflag, unread, msgcount, rpc, lost, sent>>
    BY <1>7 DEF Exit, network, history
  <2>2. QED
    BY <1>3, <2>1
<1>8. ~Alarm /\ ~ReceiverAlarm /\ ~Accept
  BY DEF Alarm, ReceiverAlarm, Accept, UdpCount
<1>9. QED
  BY <1>5, <1>6, <1>7, <1>8 DEF NNext

LEMMA InitReceives == NInit => ReceiveInv
<1> SUFFICES ASSUME NInit PROVE ReceiveInv
  OBVIOUS
<1>1. /\ opts \in Setups /\ mpac_net_msgcount = opts.num_msg /\ ~rflag /\ ~exited
      /\ spc = [t \in Thread |-> "start"]
      /\ rpc = [t \in Thread |-> IF t \in Receiving THEN "start" ELSE "done"]
      /\ message_count = [t \in Thread |-> 0] /\ msgcount = [t \in Thread |-> 0]
      /\ fd = [t \in Thread |-> None] /\ files = [d \in Thread |-> None]
      /\ backlog = <<>> /\ accepted = <<>> /\ unread = [c \in Thread |-> 0]
      /\ sent = 0 /\ connected = {} /\ cut = {}
  BY DEF NInit
<1>2. ASSUME TcpCount PROVE TcpInv
  <2>1. rpc = [t \in Thread |-> "start"]
    BY <1>1, <1>2 DEF Receiving, TcpCount
  <2>2. Len(accepted) = 0 /\ Len(backlog) = 0 /\ accepted \in Seq(Thread) /\ backlog \in Seq(Thread)
    BY <1>1
  <2>3. /\ message_count \in [Thread -> Nat] /\ msgcount \in [Thread -> Nat] /\ unread \in [Thread -> Nat]
        /\ fd \in [Thread -> Thread \cup {None}] /\ files \in [Thread -> Thread \cup {None}]
        /\ spc \in [Thread -> {"start", "open", "connect", "send", "close", "close again", "done", "killed"}]
        /\ rpc \in [Thread -> {"start", "recv", "close", "done"}]
    BY <1>1, <2>1
  <2>4. TcpType
    BY <1>1, <2>2, <2>3, Numbers DEF TcpType
  <2>5. \A k : k \notin 1 .. 0
    OBVIOUS
  <2>6. Connections
    BY <1>1, <2>2, <2>5, Numbers DEF Connections
  <2>7. Descriptors /\ Receivers
    BY <1>1, <2>1 DEF Descriptors, Receivers
  <2>8. ~Killed
    BY <1>1 DEF Killed
  <2>9. Balance
    BY <2>2, <2>5, Numbers DEF Balance
  <2>10. Established
    BY <1>1, <2>2, <2>5 DEF Established, Queued
  <2>11. QED
    BY <2>10, <2>4, <2>6, <2>7, <2>8, <2>9 DEF TcpInv
<1>3. ASSUME UdpCount PROVE UdpInv
  <2>1. Receiving = {0} /\ 0 \in Thread
    BY <1>3, Numbers DEF Receiving, UdpCount
  <2>2. rpc[0] = "start" /\ \A t \in Thread : t # 0 => rpc[t] = "done"
    BY <1>1, <2>1
  <2>3. /\ msgcount \in [Thread -> Nat] /\ unread \in [Thread -> Nat]
        /\ rpc \in [Thread -> {"start", "recv", "close", "done"}] /\ unread[0] = 0
    BY <1>1, <2>1
  <2>4. QED
    BY <1>1, <2>2, <2>3 DEF UdpInv
<1>4. ASSUME TcpTimed PROVE TimedInv
  <2>1. rpc = [t \in Thread |-> "start"]
    BY <1>1, <1>4 DEF Receiving, TcpTimed
  <2>2. Len(accepted) = 0 /\ Len(backlog) = 0 /\ accepted \in Seq(Thread) /\ backlog \in Seq(Thread)
    BY <1>1
  <2>3. \A k : k \notin 1 .. 0
    OBVIOUS
  <2>4. \A c \in Thread : c \in connected <=> Queued(c)
    BY <1>1, <2>2, <2>3 DEF Queued
  <2>5. (\A t \in Thread : OwnSocket(t)) /\ ~Killed
    BY <1>1 DEF OwnSocket, Killed
  <2>6. /\ spc \in [Thread -> {"start", "open", "connect", "send", "close", "done", "killed"}]
        /\ fd \in [Thread -> Thread \cup {None}] /\ files \in [Thread -> Thread \cup {None}]
    BY <1>1
  <2>7. Len(accepted) <= num_thrs /\ \A r \in Thread : rpc[r] = "start"
    BY <2>1, <2>2, Numbers
  <2>8. rpc \in [Thread -> {"start", "recv", "close", "done"}] /\ ~exited
    BY <1>1, <2>1
  <2>9. QED
    BY <2>2, <2>4, <2>5, <2>6, <2>7, <2>8 DEF TimedInv
<1>5. QED
  BY <1>2, <1>3, <1>4 DEF ReceiveInv

(* Whatever is accepted is connected, so there is a connection for nobody  *)
(* more than the threads whose connections main has accepted.              *)
LEMMA ThreadNotAccepted ==
  ASSUME accepted \in Seq(Thread), Len(accepted) < num_thrs
  PROVE  \E t \in Thread : \A k \in 1 .. Len(accepted) : accepted[k] # t
<1> DEFINE Taken == {accepted[k] : k \in 1 .. Len(accepted)}
<1>1. Len(accepted) \in Nat /\ Taken \subseteq Thread
  BY ElementOfSeq
<1>2. IsFiniteSet(1 .. Len(accepted)) /\ Cardinality(1 .. Len(accepted)) = Len(accepted)
  <2>1. /\ IsFiniteSet(1 .. Len(accepted))
        /\ Cardinality(1 .. Len(accepted)) = IF 1 > Len(accepted) THEN 0 ELSE Len(accepted) - 1 + 1
    <3>1. 1 \in Int /\ Len(accepted) \in Int
      BY <1>1
    <3>2. QED
      BY <3>1, FS_Interval
  <2>2. QED
    BY <1>1, <2>1
<1>3. IsFiniteSet(Taken) /\ Cardinality(Taken) <= Len(accepted)
  <2>1. [k \in 1 .. Len(accepted) |-> accepted[k]] \in Surjection(1 .. Len(accepted), Taken)
    BY DEF Surjection
  <2>2. QED
    BY <1>2, <2>1, FS_Surjection
<1> HIDE DEF Taken
<1>4. Taken # Thread
  <2> SUFFICES ASSUME Taken = Thread PROVE FALSE
    OBVIOUS
  <2>1. num_thrs <= Len(accepted) /\ num_thrs \in Nat
    BY <1>3, ThreadFinite, NetAssumption
  <2>2. QED
    BY <1>1, <2>1
<1>5. PICK t \in Thread : t \notin Taken
  BY <1>1, <1>4
<1>6. QED
  BY <1>5 DEF Taken

(* A receiver that counts waits in vain only if a datagram was lost, if    *)
(* its own connection was cut, or if SIGPIPE has ended the sender, which   *)
(* takes a socket that was cut; and main waits in vain for a connection    *)
(* only if a socket was cut before it was connected, or after SIGPIPE.     *)
THEOREM StarvingIsMishap == NSpec => []StarvesOnlyAfterMishap
<1>1. SendInv /\ ReceiveInv /\ [NNext]_nvars => ReceiveInv'
  <2> SUFFICES ASSUME SendInv, ReceiveInv, [NNext]_nvars PROVE ReceiveInv'
    OBVIOUS
  <2>1. opts \in Setups
    BY DEF SendInv
  <2>2. CASE UNCHANGED nvars
    <3>1. UNCHANGED <<opts, mpac_net_msgcount, spc, message_count, fd, files, accepted, rflag, rpc,
                      msgcount, exited, backlog, unread, connected, sent, lost, cut>>
      BY <2>2 DEF nvars, sender, receiver, network, history
    <3>2. TcpCount' <=> TcpCount
      BY <3>1 DEF TcpCount, Tcp, Timed
    <3>3. UdpCount' <=> UdpCount
      BY <3>1 DEF UdpCount, Tcp, Timed
    <3>4. TcpInv => TcpInv'
      <4> SUFFICES ASSUME TcpInv PROVE TcpInv'
        OBVIOUS
      <4>1. TcpType'
        BY <3>1 DEF TcpInv, TcpType
      <4>2. Connections' /\ Descriptors' /\ Receivers'
        <5>1. Connections'
          BY <3>1, ZenonT(60) DEF TcpInv, Connections, Unopened
        <5>2. Descriptors'
          BY <3>1, ZenonT(60) DEF TcpInv, Descriptors, Part
        <5>3. Receivers'
          BY <3>1, ZenonT(60) DEF TcpInv, Receivers
        <5>4. QED
          BY <5>1, <5>2, <5>3
      <4>3. Killed' <=> Killed
        BY <3>1 DEF Killed
      <4>4. ~Killed => Balance'
        BY <3>1, BalanceStays DEF TcpInv, Due, Part, ToWrite
      <4>5. Established'
        BY <3>1, EstablishedStays DEF TcpInv
      <4>6. QED
        BY <3>1, <4>1, <4>2, <4>3, <4>4, <4>5 DEF TcpInv
    <3>5. UdpInv => UdpInv'
      BY <3>1 DEF UdpInv
    <3>6. TimedInv => TimedInv'
      BY <3>1 DEF TimedInv, OwnSocket, Queued, Killed
    <3>7. TcpTimed' <=> TcpTimed
      BY <3>1 DEF TcpTimed, Tcp, Timed
    <3>8. QED
      BY <3>2, <3>3, <3>4, <3>5, <3>6, <3>7 DEF ReceiveInv
  <2>3. CASE NNext
    <3>1. opts' = opts
      BY <2>3 DEF NNext, SenderThread, Start, OpenSocket, Connect, Open, Count, SendDatagram, Decrement, Write,
         Close, CloseAgain, ReceiverThread, StartReceiver, Receive, CloseReceiver,
         Alarm, Accept, ReceiverAlarm, Exit
    <3>2. TcpCount' <=> TcpCount
      BY <3>1 DEF TcpCount, Tcp, Timed
    <3>3. UdpCount' <=> UdpCount
      BY <3>1 DEF UdpCount, Tcp, Timed
    <3>4. TcpTimed' <=> TcpTimed
      BY <3>1 DEF TcpTimed, Tcp, Timed
    <3>5. QED
      BY <2>1, <2>3, <3>2, <3>3, <3>4, TcpStep, TimedStep, UdpStep DEF ReceiveInv, SendInv
  <2>4. QED
    BY <2>2, <2>3
<1>2. SendInv /\ ReceiveInv => (~AllAccepted /\ NoMoreConnections => Unmade # {} \/ (Killed /\ cut # {}))
  <2> SUFFICES ASSUME SendInv, ReceiveInv, Tcp, Len(accepted) # num_thrs, backlog = <<>>,
                      \A t \in Thread : spc[t] \notin {"start", "open", "connect"}
               PROVE  Unmade # {} \/ (Killed /\ cut # {})
    BY DEF AllAccepted, NoMoreConnections
  <2>1. CASE Timed
    <3>1. TimedInv
      BY <2>1 DEF ReceiveInv, TcpTimed
    <3>2. accepted \in Seq(Thread) /\ Len(accepted) \in Nat /\ Len(accepted) <= num_thrs /\ ~Killed
      BY <3>1 DEF TimedInv
    <3>3. PICK t \in Thread : \A k \in 1 .. Len(accepted) : accepted[k] # t
      BY <3>2, ThreadNotAccepted, Numbers
    <3>4. ~Queued(t)
      BY <3>3 DEF Queued
    <3>5. t \notin connected /\ OwnSocket(t) /\ spc[t] \in {"send", "close", "done"}
      BY <3>1, <3>2, <3>4 DEF TimedInv, Killed
    <3>6. QED
      BY <3>5 DEF OwnSocket
  <2>2. CASE ~Timed /\ Killed
    BY <2>2 DEF ReceiveInv, TcpCount, TcpInv
  <2>3. CASE ~Timed /\ ~Killed
    <3>1. TcpInv
      BY <2>3 DEF ReceiveInv, TcpCount
    <3>2. accepted \in Seq(Thread) /\ Len(accepted) < num_thrs
      <4>1. accepted \in Seq(Thread) /\ Len(accepted) <= num_thrs
        BY <3>1 DEF TcpInv, TcpType
      <4>2. Len(accepted) \in Nat /\ num_thrs \in Nat
        BY <4>1, NetAssumption
      <4>3. QED
        BY <4>1, <4>2
    <3>3. PICK t \in Thread : \A k \in 1 .. Len(accepted) : accepted[k] # t
      BY <3>2, ThreadNotAccepted
    <3>4. ~Queued(t)
      BY <3>3 DEF Queued
    <3>5. t \notin connected
      BY <3>1, <3>4 DEF TcpInv, Established
    <3>6. spc[t] \in {"send", "close", "close again", "done"}
      BY <2>3, <3>1 DEF TcpInv, TcpType, Killed
    <3>7. t \in connected \cup cut
      BY <3>1, <3>6 DEF TcpInv, Descriptors
    <3>8. QED
      BY <3>5, <3>7 DEF Unmade
  <2>4. QED
    BY <2>1, <2>2, <2>3
<1>3. SendInv /\ ReceiveInv /\ SentInBounds => StarvesOnlyAfterMishap
  <2> SUFFICES ASSUME SendInv, ReceiveInv, SentInBounds, NEW r \in Thread, ~Timed,
                      rpc[r] = "recv", unread[Channel(r)] = 0,
                      IF Tcp THEN Ended(Channel(r)) ELSE SendersDone
               PROVE  IF Tcp THEN accepted[r + 1] \in cut \/ (Killed /\ cut # {}) ELSE lost
    BY <1>2 DEF StarvesOnlyAfterMishap
  <2>1. opts \in Setups
    BY DEF SendInv
  <2>2. CASE Tcp
    <3>1. TcpInv
      BY <2>2 DEF ReceiveInv, TcpCount
    <3>2. PICK c : c = accepted[r + 1] /\ c = Channel(r)
      BY <2>2 DEF Channel
    <3>3. SUFFICES ASSUME ~Killed, c \notin cut PROVE FALSE
      BY <2>2, <3>1, <3>2 DEF TcpInv
    <3>4. TcpType /\ Connections /\ Descriptors /\ Receivers /\ Balance
      BY <3>1, <3>3 DEF TcpInv
    <3>5. r < Len(accepted) /\ msgcount[r] >= 1
      <4>1. Len(accepted) = num_thrs /\ msgcount[r] >= 1
        BY <3>4 DEF Receivers
      <4>2. QED
        BY <4>1, Numbers
    <3>6. c \in Thread
      BY <3>2, <3>4, <3>5, QueuesType
    <3>7. ToWrite(c) >= 1
      <4>1. unread[c] + ToWrite(c) >= msgcount[r]
        BY <3>2, <3>3, <3>4, <3>5 DEF Balance, Balanced, Due
      <4>2. msgcount[r] \in Nat /\ message_count[c] \in Nat
        BY <3>4, <3>6 DEF TcpType
      <4>3. ToWrite(c) \in Nat
        BY <4>2 DEF ToWrite
      <4>4. QED
        BY <3>2, <3>5, <4>1, <4>2, <4>3
    <3>8. spc[c] \in {"connect", "send"}
      BY <3>7 DEF ToWrite
    <3>9. fd[c] \in Thread /\ files[fd[c]] = c
      BY <3>3, <3>4, <3>6, <3>8 DEF Descriptors
    <3>10. QED
      BY <2>2, <3>2, <3>9 DEF Ended
  <2>3. CASE ~Tcp
    <3>1. UdpInv /\ CountInv
      BY <2>3 DEF ReceiveInv, SendInv, UdpCount
    <3>2. r = 0 /\ Channel(r) = 0 /\ 0 \in Thread
      BY <2>3, <3>1, Numbers DEF UdpInv, Channel
    <3>3. unread[0] = 0 /\ rpc[0] = "recv" /\ msgcount[0] >= 1 /\ msgcount[0] \in Nat
      BY <3>1, <3>2 DEF UdpInv
    <3>4. sent >= opts.num_msg /\ sent \in Nat
      BY <2>3, <3>1 DEF SentInBounds, CountInv
    <3>5. ~lost => 0 + opts.num_msg - msgcount[0] = sent
      BY <3>1, <3>3 DEF UdpInv
    <3>6. lost
      BY <2>1, <3>3, <3>4, <3>5, PartIsNat
    <3>7. QED
      BY <2>3, <3>6
  <2>4. QED
    BY <2>2, <2>3
<1>4. QED
  BY <1>1, <1>3, InitCounts, StepCounts, InitReceives, SentIsBounded, PTL DEF NSpec

-----------------------------------------------------------------------------
(* Reading a file.  What has been copied is what stands before the offset, *)
(* and the length is that of the file if an int can hold it, as long as    *)
(* the file has not grown.                                                 *)
Reading == {"length", "openfile", "read", "returned", "refused"}

FileType ==
  /\ file \in Seq(TextChar) /\ off \in 0 .. Len(file)
  /\ len \in Int /\ grown \in Nat

ReadInv ==
  /\ FileType
  /\ copied = IF fpc \in Reading THEN SubSeq(file, 1, off) ELSE <<>>
  /\ fpc \notin Reading \/ fpc = "length" => len = 0 /\ grown = 0
  /\ fpc = "length" => off = 0
  /\ fpc \in {"openfile", "refused"} => off = 0
  /\ fpc \in {"openfile", "read", "returned"} /\ grown = 0 /\ Len(file) < IntHalf
       => len = Len(file)
  /\ fpc = "returned" /\ ~failed => off = Len(file) \/ off > len

LEMMA RestOfDivision ==
  ASSUME NEW m \in Nat \ {0}, NEW a \in Nat
  PROVE  a % m \in Int /\ a % m <= a /\ (a < m => a % m = a)
<1>1. /\ a \div m \in Nat /\ a % m \in 0 .. m - 1
      /\ a = (a \div m) * m + (a % m)
  OBVIOUS
<1>2. PICK q \in Nat, r \in 0 .. m - 1 : r = a % m /\ a = q * m + r
  BY <1>1
<1>3. PICK p \in Nat : p = q * m
  OBVIOUS
<1>4. p = 0 \/ p >= m
  <2>1. q = 0 \/ q >= 1
    OBVIOUS
  <2>2. q = 0 => p = 0
    BY <1>3
  <2>3. q >= 1 => p >= m
    BY <1>3
  <2>4. QED
    BY <2>1, <2>2, <2>3
<1>5. QED
  BY <1>2, <1>3, <1>4

(* A number that is put into an int may become smaller, and stays what it  *)
(* is where there is room.                                                 *)
LEMMA AsIntIsInt ==
  ASSUME NEW x \in Nat
  PROVE  AsInt(x) \in Int /\ AsInt(x) <= x /\ (x < IntHalf => AsInt(x) = x)
<1>1. PICK m \in Nat \ {0}, a \in Nat : m = 2 * IntHalf /\ a = x + IntHalf
  BY IntAssumption
<1>2. a % m \in Int /\ a % m <= a /\ (a < m => a % m = a)
  BY RestOfDivision
<1>3. AsInt(x) = (a % m) - IntHalf
  BY <1>1 DEF AsInt
<1>4. a \in Int /\ IntHalf \in Int /\ x = a - IntHalf /\ (x < IntHalf => a < m)
  BY <1>1, IntAssumption
<1>5. PICK r \in Int : r = a % m /\ r <= a /\ (a < m => r = a)
  BY <1>2
<1>6. QED
  BY <1>3, <1>4, <1>5

(* How a job begins.                                                       *)
LEMMA InitFile ==
  ASSUME VInit
  PROVE  /\ file \in Seq(TextChar) /\ off = 0 /\ len = 0 /\ grown = 0 /\ copied = <<>>
         /\ fpc \in {"open", "length", "off"} /\ failed = FALSE
         /\ fpc = "open" <=> job.kind \in {"init", "pin"}
         /\ file = <<>> \/ (job \in Jobs /\ file = job.arg)
<1>1. job \in Jobs /\ (job.kind \in {"init", "pin", "read"} => job.arg \in Seq(TextChar))
  <2>1. job \in Jobs
    BY DEF VInit
  <2>2. job \in [kind : {"init", "pin", "read"}, arg : Seq(TextChar)]
                \cup [kind : {"measure"}, arg : Seq(Calls)]
                \cup [kind : {"stats"}, arg : Seq(Int)]
    BY <2>1, JobsAssumption
  <2>3. QED
    BY <2>1, <2>2
<1>2. CASE job.kind \in {"init", "pin"}
  <2>1. FInit("open", job.arg)
    BY <1>2 DEF VInit
  <2>2. QED
    BY <1>1, <1>2, <2>1 DEF FInit
<1>3. CASE job.kind = "read"
  <2>1. FInit("length", job.arg)
    BY <1>3 DEF VInit
  <2>2. QED
    BY <1>1, <1>3, <2>1 DEF FInit
<1>4. CASE job.kind \notin {"init", "pin", "read"}
  <2>1. FInit("off", <<>>)
    BY <1>4 DEF VInit
  <2>2. QED
    BY <1>1, <1>4, <2>1 DEF FInit
<1>5. QED
  BY <1>2, <1>3, <1>4

LEMMA PrefixGrows ==
  ASSUME NEW f \in Seq(TextChar), NEW a \in 0 .. Len(f), NEW b \in 1 .. Len(f), a + b <= Len(f)
  PROVE  SubSeq(f, 1, a) \o SubSeq(f, a + 1, a + b) = SubSeq(f, 1, a + b)
BY ConcatAdjacentSubSeq

LEMMA PrefixOfLonger ==
  ASSUME NEW f \in Seq(TextChar), NEW a \in 0 .. Len(f)
  PROVE  /\ Append(f, "x") \in Seq(TextChar) /\ Len(Append(f, "x")) = Len(f) + 1
         /\ SubSeq(Append(f, "x"), 1, a) = SubSeq(f, 1, a)
<1>1. "x" \in TextChar
  BY DEF TextChar, Char
<1>2. /\ Append(f, "x") \in Seq(TextChar) /\ Len(Append(f, "x")) = Len(f) + 1
      /\ \A k \in 1 .. Len(f) : Append(f, "x")[k] = f[k]
  BY <1>1, AppendProperties
<1>3. SubSeq(Append(f, "x"), 1, a) = [k \in 1 .. a |-> Append(f, "x")[k]]
  BY <1>2
<1>4. SubSeq(f, 1, a) = [k \in 1 .. a |-> f[k]]
  OBVIOUS
<1>5. QED
  BY <1>2, <1>3, <1>4

LEMMA CopiedLength ==
  ASSUME ReadInv
  PROVE  /\ Len(copied) = IF fpc \in Reading THEN off ELSE 0
         /\ copied = SubSeq(file, 1, Len(copied))
         /\ off = Len(file) /\ fpc \in Reading => copied = file
<1>1. file \in Seq(TextChar) /\ off \in 0 .. Len(file)
  BY DEF ReadInv, FileType
<1>2. CASE fpc \in Reading
  <2>1. copied = SubSeq(file, 1, off) /\ Len(SubSeq(file, 1, off)) = off
    BY <1>1, <1>2, SubSeqProperties DEF ReadInv
  <2>2. SubSeq(file, 1, Len(file)) = file
    BY <1>1, SubSeqFull
  <2>3. QED
    BY <1>2, <2>1, <2>2
<1>3. CASE fpc \notin Reading
  <2>1. copied = <<>> /\ Len(<<>>) = 0 /\ SubSeq(file, 1, 0) = <<>>
    BY <1>1, <1>3, SubSeqEmpty DEF ReadInv
  <2>2. QED
    BY <1>3, <2>1
<1>4. QED
  BY <1>2, <1>3

LEMMA InitRead == VInit => ReadInv
<1> SUFFICES ASSUME VInit PROVE ReadInv
  OBVIOUS
<1>1. /\ file \in Seq(TextChar) /\ off = 0 /\ len = 0 /\ grown = 0 /\ copied = <<>>
      /\ fpc \in {"open", "length", "off"}
  BY InitFile
<1>2. SubSeq(file, 1, 0) = <<>>
  BY <1>1, SubSeqEmpty
<1>3. Len(file) \in Nat
  BY <1>1
<1>4. QED
  BY <1>1, <1>2, <1>3 DEF ReadInv, FileType, Reading

(* Counting, measuring and computing copy nothing.                         *)
LEMMA CountingCopiesNothing ==
  ASSUME ReadInv, fpc \notin Reading, fpc' \notin Reading,
         UNCHANGED <<file, copied, len, grown>>, off' \in 0 .. Len(file)
  PROVE  ReadInv'
BY DEF ReadInv, FileType, Reading

LEMMA ReadKeeps ==
  ASSUME ReadInv, FNext \/ Grow
  PROVE  ReadInv'
<1>1. /\ file \in Seq(TextChar) /\ off \in 0 .. Len(file) /\ Len(file) \in Nat
      /\ len \in Int /\ grown \in Nat
  BY DEF ReadInv, FileType
<1>2. CASE OpenCpuinfo \/ ReadByte \/ Interrupted \/ BufferFull \/ ReadFails \/ FileEnds \/ CountLine \/ Pin
  <2>1. fpc \notin Reading /\ UNCHANGED <<file, copied, len, grown>>
    BY <1>2 DEF OpenCpuinfo, ReadByte, Interrupted, BufferFull, ReadFails, FileEnds, CountLine, Pin,
       readvars, Reading
  <2>2. fpc' \notin Reading
    BY <1>2 DEF OpenCpuinfo, ReadByte, Interrupted, BufferFull, ReadFails, FileEnds, CountLine, Pin,
       LineReturned, Reading
  <2>3. off' = off \/ (off' = off + 1 /\ off < Len(file))
    BY <1>2 DEF OpenCpuinfo, ReadByte, Interrupted, BufferFull, ReadFails, FileEnds, CountLine, Pin,
       readvars
  <2>4. off' \in 0 .. Len(file)
    BY <1>1, <2>3
  <2>5. QED
    BY <2>1, <2>2, <2>4, CountingCopiesNothing
<1>3. CASE Length
  <2>1. /\ fpc = "length" /\ len' \in {AsInt(Len(file)), MPAC_FAILURE}
        /\ fpc' = IF len' <= 0 THEN "refused" ELSE "openfile"
        /\ UNCHANGED <<file, off, copied, grown, failed>>
    BY <1>3 DEF Length, readvars
  <2>2. len' \in Int /\ (fpc' = "openfile" /\ Len(file) < IntHalf => len' = Len(file))
    BY <1>1, <2>1, AsIntIsInt DEF MPAC_FAILURE
  <2>3. fpc' \in {"refused", "openfile"} /\ off = 0
    BY <2>1 DEF ReadInv
  <2>4. QED
    BY <1>1, <2>1, <2>2, <2>3 DEF ReadInv, FileType, Reading
<1>4. CASE OpenFile
  <2>1. /\ fpc = "openfile" /\ fpc' \in {"refused", "read"}
        /\ UNCHANGED <<file, off, copied, grown, failed, len>>
    BY <1>4 DEF OpenFile, readvars
  <2>2. QED
    BY <1>1, <2>1 DEF ReadInv, FileType, Reading
<1>5. CASE ReadBlock
  <2>1. PICK b \in 1 .. BufSz :
          /\ off + b <= Len(file)
          /\ copied' = copied \o SubSeq(file, off + 1, off + b)
          /\ off' = off + b
    BY <1>5 DEF ReadBlock
  <2>2. /\ fpc = "read" /\ fpc' = IF GoesOn(Len(copied')) THEN "read" ELSE "returned"
        /\ UNCHANGED <<file, len, grown, failed>>
    BY <1>5 DEF ReadBlock
  <2>3. b \in Nat /\ b \in 1 .. Len(file)
    BY <1>1, <2>1, BufferAssumption
  <2>4. copied = SubSeq(file, 1, off)
    BY <2>2 DEF ReadInv, Reading
  <2>5. copied' = SubSeq(file, 1, off')
    BY <1>1, <2>1, <2>3, <2>4, PrefixGrows
  <2>6. off' \in 0 .. Len(file) /\ Len(copied') = off'
    <3>1. off' \in 0 .. Len(file)
      BY <1>1, <2>1, <2>3
    <3>2. \A o \in 0 .. Len(file) : Len(SubSeq(file, 1, o)) = o
      BY <1>1, SubSeqProperties
    <3>3. QED
      BY <2>5, <3>1, <3>2
  <2>7. fpc' = "returned" => off' > len
    <3>1. off' \in Nat /\ AsInt(off') \in Int /\ AsInt(off') <= off'
      BY <1>1, <2>6, AsIntIsInt
    <3>2. fpc' = "returned" => ~(AsInt(off') <= len)
      BY <2>2, <2>6 DEF GoesOn
    <3>3. QED
      BY <1>1, <3>1, <3>2
  <2>8. fpc' \in {"read", "returned"}
    BY <2>2
  <2>9. QED
    BY <1>1, <2>2, <2>5, <2>6, <2>7, <2>8 DEF ReadInv, FileType, Reading
<1>6. CASE ReadStops
  <2>1. /\ fpc = "read" /\ fpc' = "returned" /\ UNCHANGED <<file, off, copied, len, grown>>
        /\ off = Len(file) \/ failed' = TRUE
    BY <1>6 DEF ReadStops, readvars
  <2>2. QED
    BY <1>1, <2>1 DEF ReadInv, FileType, Reading
<1>7. CASE Grow
  <2>1. /\ fpc \in {"openfile", "read"} /\ grown' = grown + 1 /\ file' = Append(file, "x")
        /\ UNCHANGED <<fpc, off, copied, len, failed>>
    BY <1>7 DEF Grow
  <2>2. /\ file' \in Seq(TextChar) /\ Len(file') = Len(file) + 1
        /\ SubSeq(file', 1, off) = SubSeq(file, 1, off)
    BY <1>1, <2>1, PrefixOfLonger
  <2>3. off \in 0 .. Len(file')
    BY <1>1, <2>2
  <2>4. copied = SubSeq(file', 1, off)
    BY <2>1, <2>2 DEF ReadInv, Reading
  <2>5. FileType'
    BY <1>1, <2>1, <2>2, <2>3 DEF FileType
  <2>6. fpc' \in Reading /\ fpc' \notin {"length", "returned"} /\ grown' # 0
    BY <1>1, <2>1 DEF Reading
  <2>7. QED
    BY <2>1, <2>4, <2>5, <2>6 DEF ReadInv
<1>8. QED
  BY <1>2, <1>3, <1>4, <1>5, <1>6, <1>7 DEF FNext

(* A file that has been read is in memory as a whole, unless a read failed *)
(* or the loop was beyond its length, and of a file whose size an int can  *)
(* hold more than that length is copied only if the file has grown.        *)
THEOREM FileIsCopied == VSpec => []ReadsWholeFile
<1>1. ReadInv /\ [VNext]_vars => ReadInv'
  <2> SUFFICES ASSUME ReadInv, [VNext]_vars PROVE ReadInv'
    OBVIOUS
  <2>1. CASE UNCHANGED fvars
    <3>1. UNCHANGED <<file, off, len, grown, fpc, copied, failed>>
      BY <2>1 DEF fvars, readvars
    <3>2. QED
      BY <3>1 DEF ReadInv, FileType
  <2>2. CASE FNext \/ Grow
    BY <2>2, ReadKeeps
  <2>3. CASE InitReturns
    <3>1. fpc = "counted" /\ fpc' = "off" /\ UNCHANGED <<file, off, copied, len, grown>>
      BY <2>3 DEF InitReturns, readvars
    <3>2. fpc \notin Reading /\ fpc' \notin Reading /\ off' \in 0 .. Len(file)
      BY <3>1 DEF ReadInv, FileType, Reading
    <3>3. QED
      BY <3>1, <3>2, CountingCopiesNothing
  <2>4. QED
    BY <2>1, <2>2, <2>3 DEF VNext, UsesFile, FileGrows, Measures, Computes, Stop, vars
<1>2. ReadInv => ReadsWholeFile
  <2> SUFFICES ASSUME ReadInv PROVE ReadsWholeFile
    OBVIOUS
  <2>1. /\ file \in Seq(TextChar) /\ off \in 0 .. Len(file) /\ Len(file) \in Nat
        /\ len \in Int /\ grown \in Nat
    BY DEF ReadInv, FileType
  <2>2. /\ Len(copied) = IF fpc \in Reading THEN off ELSE 0
        /\ copied = SubSeq(file, 1, Len(copied))
        /\ off = Len(file) /\ fpc \in Reading => copied = file
    BY CopiedLength
  <2>3. fpc = "returned" /\ ~failed => copied = file \/ Len(copied) > len
    BY <2>2 DEF ReadInv, Reading
  <2>4. ASSUME copied # <<>>, Len(copied) > len, Len(file) < IntHalf PROVE grown > 0
    <3>1. fpc \in {"openfile", "read", "returned"}
      <4>1. fpc \in Reading
        BY <2>4 DEF ReadInv
      <4>2. off = 0 => copied = <<>>
        BY <2>1, <4>1, SubSeqEmpty DEF ReadInv
      <4>3. QED
        BY <2>4, <4>1, <4>2 DEF ReadInv, Reading
    <3>2. grown = 0 => len = Len(file)
      BY <2>4, <3>1 DEF ReadInv
    <3>3. QED
      BY <2>1, <2>2, <2>4, <3>1, <3>2
  <2>5. QED
    BY <2>2, <2>3, <2>4 DEF ReadsWholeFile
<1>3. QED
  BY <1>1, <1>2, InitRead, PTL DEF VSpec

-----------------------------------------------------------------------------
(* Counting the processors.  The lines that have been counted are those    *)
(* that end at or before the place where the line under way begins; what   *)
(* has been read of it stands in the buffer.                               *)
Counting == {"open", "readln", "line", "counted", "pinned", "unpinned", "trapped"}

ProcessorEnds(k) == {e \in LineEnds : e <= k /\ IsProcessor(LineAt(e))}

LinesType ==
  /\ file \in Seq(TextChar) /\ off \in 0 .. Len(file)
  /\ buffer \in [Cells -> Char] /\ beyond \in Seq(Char)
  /\ nread \in 0 .. BuffSize - 1 /\ nread <= off /\ count \in Nat
  /\ fpc \in Counting => Len(file) <= MaxCount
  /\ fpc = "open" => off = 0 /\ nread = 0 /\ count = 0
  /\ fpc = "line" => nread = 0

LineBegun(s) ==
  /\ s \in 0 .. off /\ (s = 0 \/ s \in LineEnds)
  /\ \A k \in s + 1 .. off : file[k] # "nl" /\ buffer[k - s - 1] = file[k]
  /\ count = Cardinality(ProcessorEnds(s))

(* The buffer holds the line that has just been read, and its end.         *)
LineRead ==
  /\ off \in LineEnds /\ Len(LineAt(off)) < BuffSize
  /\ LineAt(off) \in Seq(TextChar)
  /\ \A k \in 1 .. Len(LineAt(off)) : buffer[k - 1] = LineAt(off)[k]
  /\ buffer[Len(LineAt(off))] = "nul"
  /\ count = Cardinality(ProcessorEnds(off - 1))

LinesInv ==
  /\ LinesType
  /\ ~failed /\ EveryLineFits /\ EndsInLineEnd =>
       /\ fpc = "readln" => LineBegun(off - nread)
       /\ fpc = "line" => LineRead
       /\ fpc \in {"counted", "pinned", "unpinned", "trapped"} =>
            /\ count = Processors /\ fpc # "unpinned"
            /\ fpc = "trapped" => Processors = 0
LEMMA LeastOf ==
  ASSUME NEW T \in SUBSET Nat, T # {}
  PROVE  \E x \in T : \A y \in T : x <= y
<1>1. PICK x \in T : \A y \in T : <<y, x>> \notin OpToRel(<, Nat)
  BY NatLessThanWellFounded, WFMin
<1>2. \A y \in T : ~(y < x)
  BY <1>1 DEF OpToRel
<1>3. QED
  BY <1>2

(* The line that ends at e begins after the end of the line before.        *)
LEMMA LineBetweenEnds ==
  ASSUME file \in Seq(TextChar), NEW e \in LineEnds, NEW s \in 0 .. e - 1,
         s = 0 \/ s \in LineEnds, \A k \in s + 1 .. e - 1 : file[k] # "nl"
  PROVE  /\ LineAt(e) = SubSeq(file, s + 1, e)
         /\ LineAt(e) \in Seq(TextChar) /\ Len(LineAt(e)) = e - s
         /\ \A k \in 1 .. e - s : LineAt(e)[k] = file[s + k]
<1>1. LineEnds \subseteq 1 .. Len(file) /\ e \in 1 .. Len(file) /\ Len(file) \in Nat
  BY DEF LineEnds
<1> DEFINE before == {k \in LineEnds : k < e}
<1>2. \A k \in before : k \in Nat /\ k <= s
  <2> TAKE k \in before
  <2>1. k \in 1 .. Len(file) /\ k < e /\ file[k] = "nl"
    BY <1>1 DEF LineEnds
  <2>2. ~(k \in s + 1 .. e - 1)
    BY <2>1
  <2>3. QED
    BY <1>1, <2>1, <2>2
<1>3. (IF before = {} THEN 0 ELSE CHOOSE k \in before : \A j \in before : j <= k) = s
  <2>1. CASE before = {}
    <3>1. s \notin LineEnds
      BY <1>1, <2>1
    <3>2. QED
      BY <2>1, <3>1
  <2>2. CASE before # {}
    <3>1. s \in before
      <4>1. PICK k \in before : TRUE
        BY <2>2
      <4>2. k \in 1 .. Len(file) /\ k <= s
        BY <1>1, <1>2
      <4>3. s # 0
        BY <4>2
      <4>4. QED
        BY <1>1, <4>3
    <3>2. \A k \in before : (\A j \in before : j <= k) => k = s
      BY <1>1, <1>2, <3>1
    <3>3. \A j \in before : j <= s
      BY <1>2
    <3> HIDE DEF before
    <3>4. QED
      BY <2>2, <3>1, <3>2, <3>3
  <2>3. QED
    BY <2>1, <2>2
<1>4. LineAt(e) = SubSeq(file, 1 + s, e)
  <2>1. LineAt(e)
          = SubSeq(file, 1 + (IF before = {} THEN 0 ELSE CHOOSE k \in before : \A j \in before : j <= k), e)
    BY DEF LineAt
  <2> HIDE DEF before
  <2>2. QED
    BY <1>3, <2>1, Zenon
<1>5. 1 + s = s + 1
  BY <1>1
<1>6. /\ SubSeq(file, s + 1, e) \in Seq(TextChar) /\ Len(SubSeq(file, s + 1, e)) = e - s
      /\ \A k \in 1 .. e - s : SubSeq(file, s + 1, e)[k] = file[s + k]
  <2>1. \A k \in s + 1 .. e : file[k] \in TextChar
    BY <1>1, ElementOfSeq
  <2>2. /\ SubSeq(file, s + 1, e) \in Seq(TextChar)
        /\ Len(SubSeq(file, s + 1, e)) = IF s + 1 <= e THEN e - (s + 1) + 1 ELSE 0
        /\ \A k \in 1 .. e - (s + 1) + 1 : SubSeq(file, s + 1, e)[k] = file[s + 1 + k - 1]
    BY <1>1, <2>1, SubSeqProperties
  <2>3. s + 1 <= e /\ e - (s + 1) + 1 = e - s /\ \A k \in Nat : s + 1 + k - 1 = s + k
    BY <1>1
  <2>4. QED
    BY <1>1, <2>2, <2>3
<1>7. QED
  BY <1>4, <1>5, <1>6

(* A line that fits ends before the buffer is full.                        *)
LEMMA LineFits ==
  ASSUME file \in Seq(TextChar), EveryLineFits, EndsInLineEnd, NEW o \in 0 .. Len(file),
         NEW s \in 0 .. o, s = 0 \/ s \in LineEnds, \A k \in s + 1 .. o : file[k] # "nl", s < o
  PROVE  o - s < BuffSize - 1 /\ o < Len(file)
<1>1. Len(file) \in Nat /\ o \in 1 .. Len(file) /\ LineEnds \subseteq 1 .. Len(file) /\ o \in s + 1 .. o
  BY DEF LineEnds
<1>2. file[Len(file)] = "nl"
  <2>1. file # <<>>
    BY <1>1
  <2>2. QED
    BY <2>1 DEF EndsInLineEnd, Last
<1>3. o < Len(file)
  BY <1>1, <1>2
<1>4. PICK e \in {k \in LineEnds : k > o} : \A y \in {k \in LineEnds : k > o} : e <= y
  <2>1. Len(file) \in {k \in LineEnds : k > o} /\ {k \in LineEnds : k > o} \in SUBSET Nat
    BY <1>1, <1>2, <1>3 DEF LineEnds
  <2>2. QED
    BY <2>1, LeastOf
<1>5. e \in LineEnds /\ e > o /\ e \in 1 .. Len(file) /\ s \in 0 .. e - 1
  BY <1>1, <1>4
<1>6. \A k \in s + 1 .. e - 1 : file[k] # "nl"
  <2> SUFFICES ASSUME NEW k \in s + 1 .. e - 1, file[k] = "nl" PROVE FALSE
    OBVIOUS
  <2>1. k > o /\ k < e /\ k \in 1 .. Len(file)
    <3>1. ~(k \in s + 1 .. o)
      OBVIOUS
    <3>2. QED
      BY <1>1, <1>5, <3>1
  <2>2. k \in LineEnds
    BY <2>1 DEF LineEnds
  <2>3. QED
    BY <1>1, <1>4, <1>5, <2>1, <2>2
<1>7. Len(LineAt(e)) = e - s
  BY <1>5, <1>6, LineBetweenEnds
<1>8. e - s < BuffSize
  BY <1>5, <1>7 DEF EveryLineFits
<1>9. QED
  BY <1>1, <1>3, <1>5, <1>8, BufferAssumption

LEMMA EndsFinite ==
  ASSUME file \in Seq(TextChar), NEW k
  PROVE  /\ IsFiniteSet(ProcessorEnds(k)) /\ Cardinality(ProcessorEnds(k)) \in Nat
         /\ Cardinality(ProcessorEnds(k)) <= Len(file)
<1>1. ProcessorEnds(k) \subseteq 1 .. Len(file) /\ Len(file) \in Nat
  BY DEF ProcessorEnds, LineEnds
<1>2. IsFiniteSet(1 .. Len(file)) /\ Cardinality(1 .. Len(file)) = Len(file)
  <2>1. /\ IsFiniteSet(1 .. Len(file))
        /\ Cardinality(1 .. Len(file)) = IF 1 > Len(file) THEN 0 ELSE Len(file) - 1 + 1
    <3>1. 1 \in Int /\ Len(file) \in Int
      BY <1>1
    <3>2. QED
      BY <3>1, FS_Interval
  <2>2. QED
    BY <1>1, <2>1
<1>3. QED
  BY <1>1, <1>2, FS_Subset, FS_CardinalityType

LEMMA ProcessorsAreEnds ==
  ASSUME file \in Seq(TextChar)
  PROVE  Processors = Cardinality(ProcessorEnds(Len(file)))
<1>1. \A e \in LineEnds : e <= Len(file)
  BY DEF LineEnds
<1>2. ProcessorEnds(Len(file)) = {e \in LineEnds : Contains(LineAt(e), "p") /\ ~Contains(LineAt(e), "m")}
  BY <1>1 DEF ProcessorEnds, IsProcessor
<1>3. QED
  BY <1>2 DEF Processors

(* A line counts once, if it names a processor.                            *)
LEMMA LineCounts ==
  ASSUME file \in Seq(TextChar), NEW e \in LineEnds
  PROVE  /\ Cardinality(ProcessorEnds(e)) = Cardinality(ProcessorEnds(e - 1))
                                              + (IF IsProcessor(LineAt(e)) THEN 1 ELSE 0)
         /\ IsProcessor(LineAt(e)) => Cardinality(ProcessorEnds(e - 1)) < Len(file)
<1>1. e \in 1 .. Len(file) /\ LineEnds \subseteq 1 .. Len(file)
  BY DEF LineEnds
<1>2. \A k \in LineEnds : k <= e <=> k <= e - 1 \/ k = e
  BY <1>1
<1>3. e \notin ProcessorEnds(e - 1)
  BY <1>1 DEF ProcessorEnds
<1>4. CASE IsProcessor(LineAt(e))
  <2>1. ProcessorEnds(e) = ProcessorEnds(e - 1) \cup {e}
    BY <1>2, <1>4 DEF ProcessorEnds
  <2>2. Cardinality(ProcessorEnds(e)) = Cardinality(ProcessorEnds(e - 1)) + 1
    BY <1>3, <2>1, EndsFinite, FS_AddElement
  <2>3. QED
    BY <1>4, <2>2, EndsFinite
<1>5. CASE ~IsProcessor(LineAt(e))
  <2>1. ProcessorEnds(e) = ProcessorEnds(e - 1)
    BY <1>2, <1>5 DEF ProcessorEnds
  <2>2. QED
    BY <1>5, <2>1, EndsFinite
<1>6. QED
  BY <1>4, <1>5

(* Between two ends nothing is counted.                                    *)
LEMMA NothingEndsBetween ==
  ASSUME file \in Seq(TextChar), NEW s \in Nat, NEW o \in Nat, s <= o, o <= Len(file),
         \A k \in s + 1 .. o : file[k] # "nl"
  PROVE  ProcessorEnds(o) = ProcessorEnds(s)
<1>1. \A k \in LineEnds : k \in Nat /\ (k <= o <=> k <= s)
  BY DEF LineEnds
<1>2. QED
  BY <1>1 DEF ProcessorEnds

LEMMA BeginsWith ==
  ASSUME NEW S, NEW a \in Seq(S), NEW b \in Seq(S)
  PROVE  /\ a \o b \in Seq(S) /\ Len(a \o b) >= Len(a)
         /\ \A k \in 1 .. Len(a) : (a \o b)[k] = a[k]
<1>1. /\ a \o b \in Seq(S) /\ Len(a \o b) = Len(a) + Len(b)
      /\ \A k \in 1 .. Len(a) + Len(b) : (a \o b)[k] = IF k <= Len(a) THEN a[k] ELSE b[k - Len(a)]
  BY ConcatProperties, Zenon
<1>2. Len(a) \in Nat /\ Len(b) \in Nat
  OBVIOUS
<1>3. QED
  BY <1>1, <1>2

(* What strstr sees of a line that is terminated is the line.              *)
LEMMA TextOfLine ==
  ASSUME buffer \in [Cells -> Char], beyond \in Seq(Char), NEW t \in Seq(TextChar),
         Len(t) < BuffSize, \A k \in 1 .. Len(t) : buffer[k - 1] = t[k], buffer[Len(t)] = "nul"
  PROVE  Text = t
<1> DEFINE cells == [k \in 1 .. BuffSize |-> buffer[k - 1]]
           rest == beyond \o <<"nul">>
           all == cells \o beyond \o <<"nul">>
<1>1. BuffSize \in Nat /\ Len(t) \in Nat /\ "nul" \in Char /\ TextChar \subseteq Char
  BY BufferAssumption DEF Char, TextChar
<1>2. cells \in Seq(Char) /\ Len(cells) = BuffSize /\ \A k \in 1 .. BuffSize : cells[k] = buffer[k - 1]
  <2>1. \A k \in 1 .. BuffSize : buffer[k - 1] \in Char
    BY <1>1 DEF Cells
  <2>2. QED
    BY <1>1, <2>1
<1> HIDE DEF cells
<1>3. <<"nul">> \in Seq(Char)
  BY <1>1
<1>4. all \in Seq(Char) /\ Len(all) >= BuffSize /\ \A k \in 1 .. BuffSize : all[k] = cells[k]
  <2> DEFINE front == cells \o beyond
             end == <<"nul">>
  <2>1. front \in Seq(Char) /\ Len(front) >= BuffSize /\ \A k \in 1 .. BuffSize : front[k] = cells[k]
    BY <1>2, BeginsWith
  <2>2. end \in Seq(Char)
    BY <1>3
  <2> HIDE DEF front, end
  <2>3. front \o end \in Seq(Char) /\ Len(front \o end) >= Len(front)
    BY <2>1, <2>2, BeginsWith
  <2>4. \A k \in 1 .. Len(front) : (front \o end)[k] = front[k]
    BY <2>1, <2>2, BeginsWith
  <2>5. Len(front) \in Nat /\ Len(front \o end) \in Nat
    BY <2>1, <2>3
  <2>6. /\ front \o end \in Seq(Char) /\ Len(front \o end) >= BuffSize
        /\ \A k \in 1 .. BuffSize : (front \o end)[k] = cells[k]
    BY <1>1, <2>1, <2>3, <2>4, <2>5
  <2>7. QED
    BY <2>6 DEF front, end
<1> HIDE DEF all
<1>5. all[Len(t) + 1] = "nul" /\ Len(t) + 1 \in 1 .. Len(all)
  BY <1>1, <1>2, <1>4
<1>6. \A k \in 1 .. Len(t) : all[k] = t[k] /\ all[k] # "nul"
  <2>1. \A k \in 1 .. Len(t) : t[k] \in TextChar
    BY ElementOfSeq
  <2>2. \A k \in 1 .. Len(t) : k \in 1 .. BuffSize /\ buffer[k - 1] = t[k]
    BY <1>1
  <2>3. \A k \in 1 .. Len(t) : all[k] = t[k]
    BY <1>2, <1>4, <2>2
  <2>4. \A k \in 1 .. Len(t) : t[k] # "nul"
    BY <2>1 DEF TextChar
  <2>5. QED
    BY <2>3, <2>4
<1>7. SelectInSeq(all, LAMBDA ch : ch = "nul") = Len(t) + 1
  <2> DEFINE nuls == {k \in 1 .. Len(all) : all[k] = "nul"}
  <2>1. Len(t) + 1 \in nuls
    BY <1>5
  <2>2. \A k \in nuls : Len(t) + 1 <= k
    BY <1>1, <1>4, <1>6
  <2>3. \A k \in nuls : k \in Nat
    BY <1>4
  <2> HIDE DEF nuls
  <2>4. Min(nuls) = Len(t) + 1
    BY <1>1, <2>1, <2>2, <2>3 DEF Min
  <2>5. SelectInSeq(all, LAMBDA ch : ch = "nul") = IF nuls # {} THEN Min(nuls) ELSE 0
    BY DEF SelectInSeq, nuls
  <2>6. QED
    BY <2>1, <2>4, <2>5
<1>8. Text = SubSeq(all, 1, SelectInSeq(all, LAMBDA ch : ch = "nul") - 1)
  BY DEF Text, all, cells
<1>9. Text = SubSeq(all, 1, Len(t))
  BY <1>1, <1>7, <1>8
<1>10. SubSeq(all, 1, Len(t)) = t
  <2>1. /\ SubSeq(all, 1, Len(t)) \in Seq(Char) /\ Len(SubSeq(all, 1, Len(t))) = Len(t)
        /\ \A k \in 1 .. Len(t) : SubSeq(all, 1, Len(t))[k] = all[k]
    BY <1>1, <1>4, <1>5
  <2>2. t \in Seq(Char)
    BY <1>1, SeqMonotonic
  <2>3. QED
    BY <1>6, <2>1, <2>2, SeqEqual
<1>11. QED
  BY <1>9, <1>10

(* While the file stays as it is, so do its lines.                         *)
LEMMA SameLines ==
  ASSUME UNCHANGED file
  PROVE  /\ LineEnds' = LineEnds /\ \A k : LineAt(k)' = LineAt(k)
         /\ \A k : ProcessorEnds(k)' = ProcessorEnds(k)
         /\ EveryLineFits' <=> EveryLineFits
         /\ EndsInLineEnd' <=> EndsInLineEnd
         /\ Processors' = Processors
<1>1. LineEnds' = LineEnds /\ \A k : LineAt(k)' = LineAt(k)
  BY DEF LineEnds, LineAt
<1>2. QED
  BY <1>1 DEF ProcessorEnds, EveryLineFits, EndsInLineEnd, Processors

LEMMA LinesStay ==
  ASSUME LinesInv, UNCHANGED <<fpc, failed, file, off, buffer, beyond, nread, count>>
  PROVE  LinesInv'
<1>1. LinesType'
  BY DEF LinesInv, LinesType
<1>2. PICK s : s = off - nread
  OBVIOUS
<1>3. LineEnds' = LineEnds /\ ProcessorEnds(s)' = ProcessorEnds(s)
  BY SameLines
<1>4. LineBegun(s) => LineBegun(s)'
  BY <1>3 DEF LineBegun
<1>5. LineBegun(off - nread) => LineBegun(off - nread)'
  BY <1>2, <1>4
<1>6. LineRead => LineRead'
  <2>1. LineAt(off)' = LineAt(off) /\ ProcessorEnds(off - 1)' = ProcessorEnds(off - 1)
    BY DEF ProcessorEnds, LineAt, LineEnds
  <2>2. QED
    BY <1>3, <2>1 DEF LineRead
<1>7. QED
  BY <1>1, <1>5, <1>6, SameLines DEF LinesInv

LEMMA InitLines == VInit => LinesInv
<1> SUFFICES ASSUME VInit PROVE LinesInv
  OBVIOUS
<1>1. /\ file \in Seq(TextChar) /\ off = 0 /\ fpc \in {"open", "length", "off"}
      /\ fpc = "open" <=> job.kind \in {"init", "pin"}
      /\ file = <<>> \/ (job \in Jobs /\ file = job.arg)
  BY InitFile
<1>2. Len(file) \in Nat /\ BuffSize - 1 \in Nat
  BY <1>1, BufferAssumption
<1>3. nread = 0 /\ count = 0
  BY DEF VInit, FInit
<1>4. buffer \in [Cells -> Char] /\ beyond \in Seq(Char)
  <2>1. ASSUME NEW content, FInit("open", content)
        PROVE  buffer \in [Cells -> Char] /\ beyond \in Seq(Char)
    <3>1. PICK m \in Memory : buffer = [c \in Cells |-> m.stack] /\ beyond = m.behind
      BY <2>1 DEF FInit
    <3>2. m \in [stack : Char, behind : Seq(Char)]
      BY EnvironmentAssumption
    <3>3. QED
      BY <3>1, <3>2
  <2>2. ASSUME NEW begin, NEW content, begin # "open", FInit(begin, content)
        PROVE  buffer \in [Cells -> Char] /\ beyond \in Seq(Char)
    <3>1. buffer = [c \in Cells |-> "nul"] /\ beyond = <<>>
      BY <2>2 DEF FInit
    <3>2. "nul" \in Char
      BY DEF Char
    <3>3. QED
      BY <3>1, <3>2
  <2>3. FInit("open", job.arg) \/ FInit("length", job.arg) \/ FInit("off", <<>>)
    BY DEF VInit
  <2>4. QED
    BY <2>1, <2>2, <2>3
<1>5. fpc \in Counting => Len(file) <= MaxCount
  <2> SUFFICES ASSUME fpc = "open" PROVE Len(file) <= MaxCount
    BY <1>1 DEF Counting
  <2>1. CASE file = <<>>
    BY <2>1, EnvironmentAssumption
  <2>2. CASE file # <<>>
    BY <1>1, <2>2, CountAssumption
  <2>3. QED
    BY <2>1, <2>2
<1>6. QED
  BY <1>1, <1>2, <1>3, <1>4, <1>5 DEF LinesInv, LinesType

(* A byte is stored behind the bytes of its line, the last with a NUL.     *)
LEMMA ByteStored ==
  ASSUME LinesInv, ReadByte
  PROVE  LinesInv'
<1>1. /\ file \in Seq(TextChar) /\ Len(file) \in Nat /\ off \in 0 .. Len(file) /\ off < Len(file)
      /\ buffer \in [Cells -> Char] /\ beyond \in Seq(Char) /\ count \in Nat
      /\ nread \in 0 .. BuffSize - 1 /\ nread <= off /\ nread < BuffSize - 1 /\ BuffSize \in Nat
      /\ fpc = "readln" /\ Len(file) <= MaxCount
  BY BufferAssumption DEF LinesInv, LinesType, ReadByte, Counting
<1>0. PICK ch : ch = file[off + 1]
  OBVIOUS
<1>9. PICK s \in Nat : s = off - nread /\ s <= off
  BY <1>1
<1>2. off' = off + 1 /\ buffer' = Stored(ch) /\ UNCHANGED <<failed, file, beyond, count>>
  BY <1>0 DEF ReadByte
<1>3. IF ch = "nl" THEN fpc' = "line" /\ nread' = 0 ELSE nread' = nread + 1 /\ fpc' = "readln"
  BY <1>0, <1>1, <1>2 DEF ReadByte, LineReturned
<1>4. ch \in TextChar /\ ch \in Char /\ "nul" \in Char /\ nread \in Cells /\ nread + 1 \in Cells
  BY <1>0, <1>1, ElementOfSeq DEF TextChar, Char, Cells
<1>5. /\ buffer' \in [Cells -> Char] /\ buffer'[nread] = ch
      /\ \A c \in Cells : c < nread => buffer'[c] = buffer[c]
      /\ ch = "nl" => buffer'[nread + 1] = "nul"
  <2>1. nread # nread + 1 /\ \A c \in Cells : c < nread => c # nread /\ c # nread + 1
    BY <1>1 DEF Cells
  <2>2. buffer' = [buffer EXCEPT ![nread] = ch, ![nread + 1] = IF ch = "nl" THEN "nul" ELSE buffer[nread + 1]]
    <3>1. [buffer EXCEPT ![nread] = ch][nread + 1] = buffer[nread + 1]
      BY <1>1, <1>4, <2>1
    <3>2. QED
      BY <1>2, <2>1, <3>1 DEF Stored
  <2>3. buffer[nread + 1] \in Char
    BY <1>1, <1>4
  <2>4. QED
    BY <1>1, <1>4, <2>1, <2>2, <2>3
<1>6. LinesType'
  <2>1. off' \in 0 .. Len(file') /\ nread' \in 0 .. BuffSize - 1 /\ nread' <= off'
    BY <1>1, <1>2, <1>3
  <2>2. fpc' \in {"line", "readln"} /\ (fpc' = "line" => nread' = 0)
    BY <1>3
  <2>3. QED
    BY <1>1, <1>2, <1>5, <2>1, <2>2 DEF LinesType
<1>7. ASSUME ~failed, EveryLineFits, EndsInLineEnd
      PROVE  /\ fpc' = "readln" => LineBegun(off - nread)'
             /\ fpc' = "line" => LineRead'
  <2>1. /\ s \in 0 .. off /\ (s = 0 \/ s \in LineEnds)
        /\ \A k \in s + 1 .. off : file[k] # "nl" /\ buffer[k - s - 1] = file[k]
        /\ count = Cardinality(ProcessorEnds(s))
    BY <1>1, <1>9, <1>7 DEF LinesInv, LineBegun
  <2>2. \A k \in s + 1 .. off : buffer'[k - s - 1] = file[k]
    <3> TAKE k \in s + 1 .. off
    <3>1. k - s - 1 \in Cells /\ k - s - 1 < nread
      BY <1>1, <1>9 DEF Cells
    <3>2. QED
      BY <1>5, <2>1, <3>1
  <2>3. buffer'[off + 1 - s - 1] = file[off + 1]
    <3>1. off + 1 - s - 1 = nread
      BY <1>1, <1>9
    <3>2. QED
      BY <1>0, <1>5, <3>1
  <2>4. \A k \in s + 1 .. off + 1 : buffer'[k - s - 1] = file[k]
    <3> TAKE k \in s + 1 .. off + 1
    <3>1. k \in s + 1 .. off \/ k = off + 1
      BY <1>1, <1>9
    <3>2. CASE k \in s + 1 .. off
      BY <2>2, <3>2
    <3>3. CASE k = off + 1
      BY <1>1, <2>3, <3>3
    <3>4. QED
      BY <3>1, <3>2, <3>3
  <2>5. CASE ch # "nl"
    <3>1. off' - nread' = s /\ fpc' = "readln" /\ off' = off + 1
      BY <1>1, <1>9, <1>2, <1>3, <2>5
    <3>2. \A k \in s + 1 .. off + 1 : file[k] # "nl"
      <4>1. \A k \in s + 1 .. off + 1 : k \in s + 1 .. off \/ k = off + 1
        BY <1>1, <1>9
      <4>2. QED
        BY <1>0, <2>1, <2>5, <4>1
    <3>3. s \in 0 .. off + 1
      BY <1>1, <1>9
    <3>4. LineEnds' = LineEnds /\ ProcessorEnds(s)' = ProcessorEnds(s)
      BY <1>2 DEF ProcessorEnds, LineEnds, LineAt
    <3>5. LineBegun(s)'
      BY <1>2, <2>1, <2>4, <3>1, <3>2, <3>3, <3>4 DEF LineBegun
    <3>6. QED
      BY <3>1, <3>5
  <2>6. CASE ch = "nl"
    <3>0. PICK e \in Nat : e = off + 1 /\ e - 1 = off
      BY <1>1
    <3>1. e \in 1 .. Len(file)
      BY <1>1, <3>0
    <3>2. e \in LineEnds
      <4>1. e \in DOMAIN file
        BY <1>1, <3>1
      <4>2. file[e] = "nl"
        BY <1>0, <2>6, <3>0
      <4>3. QED
        BY <4>1, <4>2 DEF LineEnds
    <3>3. e \in LineEnds /\ s \in 0 .. e - 1 /\ \A k \in s + 1 .. e - 1 : file[k] # "nl"
      BY <2>1, <3>2, <3>0
    <3>4. /\ LineAt(e) \in Seq(TextChar) /\ Len(LineAt(e)) = e - s
          /\ \A k \in 1 .. e - s : LineAt(e)[k] = file[s + k]
      BY <1>1, <2>1, <3>3, LineBetweenEnds
    <3>5. e - s = nread + 1 /\ e = off + 1 /\ off = e - 1 /\ s \in Nat
      BY <1>1, <1>9, <3>0
    <3>6. Len(LineAt(e)) < BuffSize
      BY <1>7, <3>3 DEF EveryLineFits
    <3>7. \A k \in 1 .. e - s : buffer'[k - 1] = LineAt(e)[k]
      <4> TAKE k \in 1 .. e - s
      <4>1. s + k \in s + 1 .. off + 1 /\ s + k - s - 1 = k - 1
        <5>1. k \in Nat /\ k >= 1 /\ k <= e - s
          BY <1>1, <3>5
        <5>2. s \in Nat /\ off \in Nat /\ k <= off + 1 - s
          BY <1>1, <3>0, <3>5, <5>1
        <5>3. QED
          BY <5>1, <5>2
      <4>2. buffer'[s + k - s - 1] = file[s + k]
        BY <2>4, <4>1
      <4>3. LineAt(e)[k] = file[s + k]
        BY <3>4
      <4>4. QED
        BY <4>1, <4>2, <4>3
    <3>8. buffer'[e - s] = "nul"
      BY <1>5, <2>6, <3>5
    <3>9. count = Cardinality(ProcessorEnds(e - 1))
      <4>1. s \in Nat /\ off \in Nat /\ s <= off /\ off <= Len(file) /\ e - 1 = off
        BY <1>1, <1>9, <3>5
      <4>2. ProcessorEnds(off) = ProcessorEnds(s)
        BY <1>1, <2>1, <4>1, NothingEndsBetween
      <4>3. QED
        BY <2>1, <4>1, <4>2
    <3>10. LineEnds' = LineEnds /\ \A k : LineAt(k)' = LineAt(k)
      BY <1>2, SameLines
    <3>11. off' = e /\ count' = count /\ fpc' = "line"
      BY <1>2, <1>3, <2>6, <3>0
    <3>12. ProcessorEnds(off - 1)' = ProcessorEnds(e - 1)
      BY <1>2, <3>11 DEF ProcessorEnds, LineEnds, LineAt
    <3>13. LineRead'
      BY <3>3, <3>4, <3>6, <3>7, <3>8, <3>9, <3>10, <3>11, <3>12 DEF LineRead
    <3>14. QED
      BY <3>11, <3>13
  <2>7. QED
    BY <2>5, <2>6
<1>8. QED
  BY <1>2, <1>3, <1>6, <1>7, SameLines DEF LinesInv

(* Bytes that were read of a line that fits leave room in the buffer, and  *)
(* the line goes on in the file.                                           *)
LEMMA PartFits ==
  ASSUME LinesInv, fpc = "readln", ~failed, EveryLineFits, EndsInLineEnd, nread # 0
  PROVE  nread < BuffSize - 1 /\ off < Len(file)
<1>1. /\ file \in Seq(TextChar) /\ off \in 0 .. Len(file) /\ Len(file) \in Nat
      /\ nread \in 0 .. BuffSize - 1 /\ nread <= off /\ BuffSize \in Nat
  BY BufferAssumption DEF LinesInv, LinesType
<1>2. PICK s \in Nat : s = off - nread /\ s < off
  BY <1>1
<1>3. LineBegun(s)
  BY <1>2 DEF LinesInv
<1>4. s \in 0 .. off /\ (s = 0 \/ s \in LineEnds) /\ \A k \in s + 1 .. off : file[k] # "nl"
  BY <1>3 DEF LineBegun
<1>5. off - s < BuffSize - 1 /\ off < Len(file)
  BY <1>1, <1>2, <1>4, LineFits
<1>6. QED
  BY <1>1, <1>2, <1>5

(* At the end of the file every line has been counted.                     *)
LEMMA EndCounted ==
  ASSUME LinesInv, FileEnds
  PROVE  LinesInv'
<1>1. /\ file \in Seq(TextChar) /\ off \in 0 .. Len(file) /\ Len(file) \in Nat /\ count \in Nat
      /\ nread \in 0 .. BuffSize - 1 /\ BuffSize \in Nat /\ Len(file) <= MaxCount /\ fpc = "readln"
  BY BufferAssumption DEF LinesInv, LinesType, FileEnds, Counting
<1>2. /\ UNCHANGED <<failed, file, off, buffer, beyond, count>> /\ off = Len(file)
      /\ IF nread = 0 THEN fpc' = "counted" /\ nread' = 0 ELSE fpc' = "line" /\ nread' = 0
  BY DEF FileEnds, LineReturned, AtEnd
<1>3. LinesType'
  BY <1>1, <1>2 DEF LinesInv, LinesType
<1>4. ASSUME ~failed, EveryLineFits, EndsInLineEnd
      PROVE  fpc' = "counted" /\ count = Processors
  <2>1. nread = 0
    BY <1>1, <1>2, <1>4, PartFits
  <2>2. LineBegun(off - nread) /\ off - nread = Len(file)
    BY <1>1, <1>2, <1>4, <2>1 DEF LinesInv
  <2>3. LineBegun(Len(file))
    BY <2>2
  <2>4. QED
    BY <1>1, <1>2, <2>1, <2>3, ProcessorsAreEnds DEF LineBegun
<1>5. QED
  BY <1>2, <1>3, <1>4, SameLines DEF LinesInv

(* The line in the buffer is counted if it names a processor, no more.     *)
LEMMA LineCounted ==
  ASSUME LinesInv, CountLine
  PROVE  LinesInv'
<1>1. /\ file \in Seq(TextChar) /\ off \in 0 .. Len(file) /\ Len(file) \in Nat /\ count \in Nat
      /\ nread = 0 /\ BuffSize \in Nat /\ BuffSize - 1 >= 0 /\ Len(file) <= MaxCount
      /\ fpc = "line" /\ buffer \in [Cells -> Char] /\ beyond \in Seq(Char) /\ MaxCount \in Nat
  BY BufferAssumption, EnvironmentAssumption DEF LinesInv, LinesType, CountLine, Counting
<1>2. /\ UNCHANGED <<failed, file, off, buffer, beyond, nread>> /\ fpc' = "readln"
      /\ count' = IF IsProcessor(Text) /\ count < MaxCount THEN count + 1 ELSE count
  BY DEF CountLine
<1>3. LinesType'
  <2>1. count' \in Nat
    BY <1>1, <1>2
  <2>2. QED
    BY <1>1, <1>2, <2>1 DEF LinesInv, LinesType
<1>4. ASSUME ~failed, EveryLineFits, EndsInLineEnd
      PROVE  LineBegun(off - nread)'
  <2>1. /\ off \in LineEnds /\ LineAt(off) \in Seq(TextChar) /\ Len(LineAt(off)) < BuffSize
        /\ \A k \in 1 .. Len(LineAt(off)) : buffer[k - 1] = LineAt(off)[k]
        /\ buffer[Len(LineAt(off))] = "nul"
        /\ count = Cardinality(ProcessorEnds(off - 1))
    BY <1>1, <1>4 DEF LinesInv, LineRead
  <2>2. Text = LineAt(off)
    BY <1>1, <2>1, TextOfLine
  <2>3. /\ Cardinality(ProcessorEnds(off)) = count + (IF IsProcessor(LineAt(off)) THEN 1 ELSE 0)
        /\ IsProcessor(LineAt(off)) => count < Len(file)
    BY <1>1, <2>1, LineCounts
  <2>4. count' = Cardinality(ProcessorEnds(off))
    BY <1>1, <1>2, <2>2, <2>3
  <2>5. PICK s \in Nat : s = off - nread /\ s = off
    BY <1>1
  <2>6. off' - nread' = s /\ off' = s /\ s \in LineEnds'
    BY <1>2, <2>1, <2>5, SameLines
  <2>7. count' = Cardinality(ProcessorEnds(s))'
    BY <1>2, <2>4, <2>5, SameLines
  <2>8. LineBegun(s)'
    <3>1. s \in 0 .. s /\ ~ \E k \in s + 1 .. s : TRUE
      OBVIOUS
    <3>2. QED
      BY <2>6, <2>7, <3>1 DEF LineBegun
  <2>9. QED
    BY <2>6, <2>8
<1>5. QED
  BY <1>2, <1>3, <1>4, SameLines DEF LinesInv

LEMMA LinesKeep ==
  ASSUME LinesInv, FNext \/ Grow
  PROVE  LinesInv'
<1>1. /\ file \in Seq(TextChar) /\ off \in 0 .. Len(file) /\ Len(file) \in Nat /\ count \in Nat
      /\ nread \in 0 .. BuffSize - 1 /\ nread <= off /\ BuffSize \in Nat /\ BuffSize > 1
      /\ buffer \in [Cells -> Char] /\ beyond \in Seq(Char)
  BY BufferAssumption DEF LinesInv, LinesType
<1>2. CASE OpenCpuinfo
  <2>1. /\ fpc = "open" /\ fpc' = "readln" /\ UNCHANGED <<failed, file, off, buffer, beyond, nread, count>>
        /\ off = 0 /\ nread = 0 /\ count = 0 /\ Len(file) <= MaxCount
    BY <1>2 DEF OpenCpuinfo, readvars, LinesInv, LinesType, Counting
  <2>2. LinesType'
    BY <1>1, <2>1 DEF LinesType
  <2>3. LineBegun(0)'
    <3>1. ProcessorEnds(0) = {} /\ 0 + 1 .. 0 = {}
      <4>1. \A e \in LineEnds : e \in Nat /\ ~(e <= 0)
        BY <1>1 DEF LineEnds
      <4>2. QED
        BY <4>1 DEF ProcessorEnds
    <3>2. Cardinality(ProcessorEnds(0)) = 0
      BY <3>1, FS_EmptySet
    <3>3. Cardinality(ProcessorEnds(0))' = 0
      BY <2>1, <3>2, SameLines
    <3>4. QED
      BY <2>1, <3>1, <3>3 DEF LineBegun
  <2>4. off' - nread' = 0
    BY <2>1
  <2>5. LineBegun(off - nread)'
    BY <2>3, <2>4
  <2>6. QED
    BY <2>1, <2>2, <2>5 DEF LinesInv
<1>3. CASE ReadByte
  BY <1>3, ByteStored
<1>4. CASE Interrupted
  <2>1. UNCHANGED <<fpc, failed, file, off, buffer, beyond, nread, count>>
    BY <1>4 DEF Interrupted, readvars
  <2>2. QED
    BY <2>1, LinesStay
<1>5. CASE BufferFull
  <2>1. /\ fpc = "readln" /\ nread = BuffSize - 1 /\ nread' = 0 /\ fpc' = "line"
        /\ UNCHANGED <<failed, file, off, buffer, beyond, count>> /\ Len(file) <= MaxCount
    BY <1>5 DEF BufferFull, LineReturned, LinesInv, LinesType, Counting
  <2>2. LinesType'
    BY <1>1, <2>1 DEF LinesType
  <2>3. ~(~failed /\ EveryLineFits /\ EndsInLineEnd)
    BY <1>1, <2>1, PartFits
  <2>4. QED
    BY <2>1, <2>2, <2>3, SameLines DEF LinesInv
<1>6. CASE ReadFails
  <2>1. /\ fpc = "readln" /\ nread' = 0 /\ fpc' = "line" /\ failed' = TRUE
        /\ UNCHANGED <<file, off, buffer, beyond, count>> /\ Len(file) <= MaxCount
    BY <1>6 DEF ReadFails, LineReturned, LinesInv, LinesType, Counting
  <2>2. LinesType'
    BY <1>1, <2>1 DEF LinesType
  <2>3. QED
    BY <2>1, <2>2 DEF LinesInv
<1>7. CASE FileEnds
  BY <1>7, EndCounted
<1>8. CASE CountLine
  BY <1>8, LineCounted
<1>9. CASE Pin
  <2>1. /\ fpc = "counted" /\ UNCHANGED <<failed, file, off, buffer, beyond, nread, count>>
        /\ Len(file) <= MaxCount
    BY <1>9 DEF Pin, readvars, LinesInv, LinesType, Counting
  <2>2. PICK cpu \in Cpus :
          fpc' = IF count = 0 THEN "trapped"
                 ELSE IF cpu % count < Processors THEN "pinned" ELSE "unpinned"
    BY <1>9 DEF Pin
  <2>3. fpc' \in {"trapped", "pinned", "unpinned"}
    BY <2>2
  <2>4. LinesType'
    BY <1>1, <2>1, <2>3 DEF LinesType
  <2>5. ASSUME ~failed, EveryLineFits, EndsInLineEnd
        PROVE  count = Processors /\ fpc' # "unpinned" /\ (fpc' = "trapped" => Processors = 0)
    <3>1. count = Processors
      BY <2>1, <2>5 DEF LinesInv
    <3>2. count # 0 => cpu % count < count
      BY <1>1, EnvironmentAssumption
    <3>3. QED
      BY <1>1, <2>2, <3>1, <3>2
  <2>6. QED
    BY <2>1, <2>3, <2>4, <2>5, SameLines DEF LinesInv
<1>10. CASE Length \/ OpenFile \/ ReadBlock \/ ReadStops \/ Grow
  <2>1. fpc \in Reading /\ fpc' \in Reading /\ UNCHANGED <<buffer, beyond, nread, count>>
    BY <1>10 DEF Length, OpenFile, ReadBlock, ReadStops, Grow, readvars, Reading
  <2>2. fpc' \notin Counting
    BY <2>1 DEF Reading, Counting
  <2>3. file' \in Seq(TextChar) /\ off' \in 0 .. Len(file') /\ off <= off'
    <3>1. CASE Length \/ OpenFile \/ ReadStops
      <4>1. UNCHANGED <<file, off>>
        BY <3>1 DEF Length, OpenFile, ReadStops, readvars
      <4>2. QED
        BY <1>1, <4>1
    <3>2. CASE ReadBlock
      <4>1. PICK b \in 1 .. BufSz : off + b <= Len(file) /\ off' = off + b /\ file' = file
        BY <3>2 DEF ReadBlock
      <4>2. b \in Nat
        BY BufferAssumption
      <4>3. QED
        BY <1>1, <4>1, <4>2
    <3>3. CASE Grow
      <4>1. file' = Append(file, "x") /\ off' = off
        BY <3>3 DEF Grow
      <4>2. file' \in Seq(TextChar) /\ Len(file') = Len(file) + 1
        BY <1>1, <4>1, PrefixOfLonger
      <4>3. QED
        BY <1>1, <4>1, <4>2
    <3>4. QED
      BY <1>10, <3>1, <3>2, <3>3
  <2>4. LinesType'
    <3>1. nread' <= off'
      BY <1>1, <2>1, <2>3
    <3>2. fpc' # "open" /\ fpc' # "line"
      BY <2>2 DEF Counting
    <3>3. QED
      BY <1>1, <2>1, <2>2, <2>3, <3>1, <3>2 DEF LinesType
  <2>5. QED
    BY <2>2, <2>4 DEF LinesInv, Counting
<1>11. QED
  BY <1>2, <1>3, <1>4, <1>5, <1>6, <1>7, <1>8, <1>9, <1>10 DEF FNext

(* Whatever the file holds, the processors that are counted are the lines  *)
(* that name one, and a thread is pinned to a processor that there is.     *)
THEOREM ProcessorsAreCounted == VSpec => []CountsProcessors
<1>1. LinesInv /\ [VNext]_vars => LinesInv'
  <2> SUFFICES ASSUME LinesInv, [VNext]_vars PROVE LinesInv'
    OBVIOUS
  <2>1. CASE UNCHANGED fvars
    <3>1. UNCHANGED <<fpc, failed, file, off, buffer, beyond, nread, count>>
      BY <2>1 DEF fvars, readvars
    <3>2. QED
      BY <3>1, LinesStay
  <2>2. CASE FNext \/ Grow
    BY <2>2, LinesKeep
  <2>3. CASE InitReturns
    <3>1. fpc' = "off" /\ UNCHANGED <<failed, file, off, buffer, beyond, nread, count>>
      BY <2>3 DEF InitReturns, readvars
    <3>2. QED
      BY <3>1 DEF LinesInv, LinesType, Counting
  <2>4. QED
    BY <2>1, <2>2, <2>3 DEF VNext, UsesFile, FileGrows, Measures, Computes, Stop, vars
<1>2. LinesInv => CountsProcessors
  BY DEF LinesInv, CountsProcessors
<1>3. QED
  BY <1>1, <1>2, InitLines, PTL DEF VSpec

-----------------------------------------------------------------------------
(* The clock.  A stamp is a number of ticks.                               *)
Ticks(s) == s.sec * Second + s.frac

LEMMA DivisionOfTicks ==
  ASSUME NEW t \in Nat
  PROVE  /\ t \div Second \in Nat /\ t % Second \in 0 .. Second - 1
         /\ t = (t \div Second) * Second + (t % Second)
BY ClockAssumption

LEMMA StampTicks ==
  ASSUME NEW t \in Nat
  PROVE  /\ Stamp(t) \in [sec : Nat, frac : 0 .. Second - 1]
         /\ Ticks(Stamp(t)) = t
BY DivisionOfTicks DEF Stamp, Ticks

(* With or without a borrowed second the difference is that of the ticks.  *)
LEMMA SinceIsDifference ==
  ASSUME NEW s \in [sec : Nat, frac : 0 .. Second - 1], NEW t \in [sec : Nat, frac : 0 .. Second - 1]
  PROVE  Since(s, t) = Ticks(t) - Ticks(s)
<1>0. Second \in Nat
  BY ClockAssumption
<1>1. PICK a \in Nat, b \in Nat, x \in Int, y \in Int :
        s.sec = a /\ t.sec = b /\ s.frac = x /\ t.frac = y
  BY <1>0
<1>2. (b - 1 - a) * Second + (y + Second - x) = (b - a) * Second + (y - x)
  <2>1. (b - 1 - a) * Second = (b - a) * Second - Second /\ (b - a) * Second \in Int
    BY <1>0, <1>1
  <2>2. QED
    BY <1>0, <1>1, <2>1
<1>3. Since(s, t) = (b - a) * Second + (y - x)
  <2>1. CASE y < x
    <3>1. t.frac < s.frac
      BY <1>1, <2>1
    <3>2. Since(s, t) = (t.sec - 1 - s.sec) * Second + (t.frac + Second - s.frac)
      <4> DEFINE u == [sec |-> t.sec - 1, frac |-> t.frac + Second]
      <4>1. Since(s, t) = (u.sec - s.sec) * Second + (u.frac - s.frac)
        BY <3>1 DEF Since
      <4>2. u.sec = t.sec - 1 /\ u.frac = t.frac + Second
        OBVIOUS
      <4> HIDE DEF u
      <4>3. PICK p \in Int, q \in Int : p = t.sec - 1 /\ q = t.frac + Second
        BY <1>0, <1>1
      <4>4. QED
        BY <1>0, <1>1, <4>1, <4>2, <4>3
    <3>3. QED
      BY <1>1, <1>2, <3>2
  <2>2. CASE ~(y < x)
    BY <1>1, <2>2 DEF Since
  <2>3. QED
    BY <2>1, <2>2
<1>4. (b - a) * Second = b * Second - a * Second
  BY <1>0, <1>1
<1>5. QED
  BY <1>0, <1>1, <1>3, <1>4 DEF Ticks

LEMMA WholeOfDifference ==
  ASSUME NEW s \in [sec : Nat, frac : 0 .. Second - 1], NEW t \in [sec : Nat, frac : 0 .. Second - 1],
         Ticks(s) <= Ticks(t)
  PROVE  /\ WholeSeconds(s, t) \in Nat
         /\ \E rest \in 0 .. Second - 1 : Ticks(t) - Ticks(s) = WholeSeconds(s, t) * Second + rest
<1>0. Second \in Nat
  BY ClockAssumption
<1>1. PICK a \in Nat, b \in Nat, x \in Nat, y \in Nat :
        s.sec = a /\ t.sec = b /\ s.frac = x /\ t.frac = y
  BY <1>0
<1>2. (b - a) * Second = b * Second - a * Second /\ a * Second \in Nat /\ b * Second \in Nat
  BY <1>0, <1>1
<1>3. PICK d \in Nat : d = (b - a) * Second + (y - x) /\ d = Ticks(t) - Ticks(s)
  BY <1>0, <1>1, <1>2 DEF Ticks
<1>4. WholeSeconds(s, t) = d \div Second
  BY <1>1, <1>3 DEF WholeSeconds, Quot
<1>5. QED
  BY <1>3, <1>4, DivisionOfTicks

(* A call under way measures from the last stamp; the differences that the *)
(* resolution is the mean of lose less than a second each.                 *)
ClockType ==
  /\ now \in Nat /\ start \in [sec : Nat, frac : 0 .. Second - 1]
  /\ elapsed \in Nat /\ over \in Nat /\ done \in Nat /\ total \in Nat
  /\ result \in [Calls -> Int]

Summed(found, both, ticks) ==
  /\ both * Second <= ticks
  /\ ticks <= both * Second + found * (Second - 1)

UnderWay ==
  mpc # "call" =>
    /\ last = "none"
    /\ IF mpc = "diffs"
       THEN /\ done < Diffs /\ Ticks(start) <= now
            /\ Summed(done, total, elapsed - (now - Ticks(start)))
       ELSE Ticks(start) = now /\ elapsed = 0

ClockInv == ClockType /\ UnderWay /\ MeasuresElapsed
LEMMA OneMoreDifference ==
  ASSUME NEW found \in Nat, NEW both \in Nat, NEW ticks \in Int, Summed(found, both, ticks),
         NEW whole \in Nat, NEW rest \in 0 .. Second - 1
  PROVE  Summed(found + 1, both + whole, ticks + whole * Second + rest)
<1>1. Second \in Nat \ {0}
  BY ClockAssumption
<1>2. /\ (both + whole) * Second = both * Second + whole * Second
      /\ (found + 1) * (Second - 1) = found * (Second - 1) + (Second - 1)
      /\ both * Second \in Int /\ whole * Second \in Int /\ found * (Second - 1) \in Int
  BY <1>1
<1>3. QED
  BY <1>1, <1>2 DEF Summed

LEMMA InitClock == \A calls : MInit(calls) => ClockInv
<1> SUFFICES ASSUME NEW calls, MInit(calls) PROVE ClockInv
  OBVIOUS
<1>1. now \in Nat /\ start = Stamp(0) /\ mpc = "call" /\ last = "none"
  BY ClockAssumption DEF MInit
<1>2. ClockType
  BY <1>1, StampTicks, ClockAssumption DEF ClockType, MInit
<1>3. QED
  BY <1>1, <1>2 DEF ClockInv, UnderWay, MeasuresElapsed

(* A call begins.                                                          *)
LEMMA BeginKeeps ==
  ASSUME ClockInv, NEW p, p # "call", p # "diffs", Begin(p), UNCHANGED result,
         over' \in Nat, done' \in Nat, total' \in Nat
  PROVE  ClockInv'
<1>1. now' \in Nat
  BY DivisionOfTicks DEF ClockInv, ClockType, Begin
<1>2. start' \in [sec : Nat, frac : 0 .. Second - 1] /\ Ticks(start') = now'
  BY <1>1, StampTicks DEF Begin
<1>3. Ticks(start)' = now' /\ mpc' = p /\ last' = "none" /\ elapsed' = 0
  BY <1>2 DEF Begin, Ticks
<1>4. ClockType'
  BY <1>1, <1>2, <1>3 DEF ClockType, ClockInv
<1>5. UnderWay'
  BY <1>3 DEF UnderWay
<1>6. MeasuresElapsed'
  BY <1>3 DEF MeasuresElapsed
<1>7. QED
  BY <1>4, <1>5, <1>6 DEF ClockInv

LEMMA DiffsBegin ==
  ASSUME ClockInv, Begin("diffs"), UNCHANGED <<result, over>>, done' = 0, total' = 0
  PROVE  ClockInv'
<1>1. now' \in Nat
  BY DivisionOfTicks DEF ClockInv, ClockType, Begin
<1>2. start' \in [sec : Nat, frac : 0 .. Second - 1] /\ Ticks(start') = now'
  BY <1>1, StampTicks DEF Begin
<1>3. Ticks(start)' = now' /\ mpc' = "diffs" /\ last' = "none" /\ elapsed' = 0
  BY <1>2 DEF Begin, Ticks
<1>4. ClockType'
  BY <1>1, <1>2, <1>3 DEF ClockType, ClockInv
<1>5. elapsed' - (now' - Ticks(start)') = 0
  <2>1. PICK t \in Nat : t = now'
    BY <1>1
  <2>2. Ticks(start)' = t
    BY <1>3, <2>1
  <2>3. 0 - (t - t) = 0
    OBVIOUS
  <2>4. QED
    BY <1>3, <2>1, <2>2, <2>3
<1>6. Summed(0, 0, 0)
  BY ClockAssumption DEF Summed
<1>7. UnderWay'
  BY <1>1, <1>3, <1>5, <1>6, ClockAssumption DEF UnderWay
<1>8. MeasuresElapsed'
  BY <1>3 DEF MeasuresElapsed
<1>9. QED
  BY <1>4, <1>7, <1>8 DEF ClockInv

(* A call returns r after d ticks.                                         *)
LEMMA ReturnKeeps ==
  ASSUME ClockInv, NEW c \in Calls, NEW r \in Int, Return(c, r),
         now' \in Nat, elapsed' \in Nat, over' \in Nat, done' \in Nat, total' \in Nat,
         UNCHANGED start, MeasuresElapsed'
  PROVE  ClockInv'
BY DEF ClockInv, ClockType, UnderWay, Return

LEMMA LapReturns ==
  ASSUME ClockInv, mpc \notin {"call", "diffs"}, NEW d \in 0 .. MaxLap, Lap(d), NEW c \in Calls,
         NEW r, Return(c, r), UNCHANGED <<start, done, total>>, over' \in Nat,
         \/ c \in {"overhead_gtd", "overhead_rtc"} /\ r = Since(start, Stamp(now + d))
         \/ c = "wctime" /\ r = Stamp(now + d).sec - start.sec
         \/ c = "frt_gtd" /\ r = Quot((Stamp(now + d).frac - start.frac) * 1, Second)
         \/ c = "frt_rtc" /\ r = Quot((Stamp(now + d).frac - start.frac) * 1000, Second)
         \/ c = "loop_overhead" /\ r = 2 * over - Since(start, Stamp(now + d))
  PROVE  ClockInv'
<1>1. /\ now \in Nat /\ start \in [sec : Nat, frac : 0 .. Second - 1] /\ Ticks(start) = now
      /\ elapsed = 0 /\ over \in Nat /\ d \in Nat /\ Second \in Nat \ {0}
      /\ result \in [Calls -> Int] /\ done \in Nat /\ total \in Nat
  BY ClockAssumption DEF ClockInv, ClockType, UnderWay
<1>2. now' = now + d /\ elapsed' = d /\ now + d \in Nat /\ last' = c
  BY <1>1 DEF Lap, Return
<1>3. PICK e \in [sec : Nat, frac : 0 .. Second - 1] : e = Stamp(now + d) /\ Ticks(e) = now + d
  BY <1>2, StampTicks
<1>4. Since(start, e) = d
  BY <1>1, <1>2, <1>3, SinceIsDifference
<1>5. PICK a \in Nat, b \in Nat, x \in 0 .. Second - 1, y \in 0 .. Second - 1 :
        start.sec = a /\ e.sec = b /\ start.frac = x /\ e.frac = y
  BY <1>1
<1>7. r \in Int
  <2>1. (y - x) * 1 \in Int /\ (y - x) * 1000 \in Int
    BY <1>1, <1>5
  <2>2. ASSUME NEW z \in Int PROVE Quot(z, Second) \in Int
    BY <1>1, <2>2 DEF Quot
  <2>3. QED
    BY <1>1, <1>3, <1>4, <1>5, <2>1, <2>2
<1>8. result'[c] = r
  BY <1>1, <1>7 DEF Return
<1>9. c \in {"overhead_gtd", "overhead_rtc"} => r = d
  BY <1>3, <1>4
<1>10. MeasuresElapsed'
  <2>1. c \notin {"resolution_gtd", "resolution_rtc"}
    OBVIOUS
  <2>2. QED
    BY <1>2, <1>8, <1>9, <2>1 DEF MeasuresElapsed
<1>11. QED
  BY <1>1, <1>2, <1>7, <1>10, ReturnKeeps

LEMMA SearchKeeps ==
  ASSUME ClockInv, NEW c \in {"clock_gtd", "clock_rtc"}, Search(c)
  PROVE  ClockInv'
<1>1. /\ now \in Nat /\ start \in [sec : Nat, frac : 0 .. Second - 1] /\ done \in Nat
      /\ elapsed \in Nat /\ over \in Nat /\ total \in Nat /\ result \in [Calls -> Int]
      /\ MaxLap \in Nat /\ Loops \in Nat \ {0}
  BY ClockAssumption DEF ClockInv, ClockType
<1>2. CASE At(c, "call") /\ Begin("overhead") /\ done' = 0 /\ UNCHANGED <<todo, over, total, result>>
  BY <1>1, <1>2, BeginKeeps
<1>3. CASE At(c, "overhead") /\ mpc' = "search"
  <2>1. PICK d \in 0 .. MaxLap : now' = now + d /\ over' = Since(start, Stamp(now + d))
    BY <1>3 DEF Search, At
  <2>2. /\ start' = Stamp(now') /\ elapsed' = 0 /\ UNCHANGED <<todo, done, total, result, last>>
        /\ mpc = "overhead"
    BY <1>3 DEF Search, At
  <2>3. Ticks(start) = now /\ last = "none"
    BY <2>2 DEF ClockInv, UnderWay
  <2>4. now + d \in Nat
    BY <1>1
  <2>5. /\ Stamp(now + d) \in [sec : Nat, frac : 0 .. Second - 1] /\ Ticks(Stamp(now + d)) = now + d
    BY <2>4, StampTicks
  <2>6. over' \in Nat
    BY <1>1, <2>1, <2>3, <2>4, <2>5, SinceIsDifference
  <2>7. Ticks(start)' = now'
    BY <2>1, <2>2, <2>5 DEF Ticks
  <2>8. QED
    BY <1>1, <1>3, <2>1, <2>2, <2>3, <2>4, <2>5, <2>6, <2>7 DEF ClockInv, ClockType, UnderWay, MeasuresElapsed
<1>4. CASE At(c, "search")
  <2>1. PICK d \in done .. MaxLap :
          /\ now' = now + d
          /\ IF TooShort(d)
             THEN start' = Stamp(now') /\ elapsed' = 0 /\ done' = done + 1
                  /\ UNCHANGED <<todo, mpc, result, last>>
             ELSE Return(c, d) /\ elapsed' = d /\ done' = 0 /\ UNCHANGED start
    BY <1>4 DEF Search, At
  <2>2. /\ UNCHANGED <<over, total>> /\ mpc = "search" /\ last = "none"
        /\ d \in Nat /\ now + d \in Nat
    BY <1>1, <1>4 DEF Search, At, ClockInv, UnderWay
  <2>3. CASE TooShort(d)
    <3>1. start' \in [sec : Nat, frac : 0 .. Second - 1] /\ Ticks(start)' = now'
      BY <2>1, <2>2, <2>3, StampTicks DEF Ticks
    <3>2. QED
      BY <1>1, <2>1, <2>2, <2>3, <3>1 DEF ClockInv, ClockType, UnderWay, MeasuresElapsed
  <2>4. CASE ~TooShort(d)
    <3>2. result'[c] = d /\ last' = c /\ c \in Calls
      BY <1>1, <2>1, <2>4 DEF Return, Calls
    <3>3. MeasuresElapsed'
      BY <2>2, <3>2 DEF MeasuresElapsed
    <3>4. QED
      BY <1>1, <2>1, <2>2, <2>4, <3>2, <3>3, ReturnKeeps
  <2>5. QED
    BY <2>3, <2>4
<1>5. QED
  BY <1>2, <1>3, <1>4 DEF Search

LEMMA ResolutionKeeps ==
  ASSUME ClockInv, NEW c \in {"resolution_gtd", "resolution_rtc"}, Resolution(c)
  PROVE  ClockInv'
<1>1. /\ now \in Nat /\ start \in [sec : Nat, frac : 0 .. Second - 1] /\ done \in Nat
      /\ elapsed \in Nat /\ over \in Nat /\ total \in Nat /\ result \in [Calls -> Int]
      /\ MaxLap \in Nat /\ Diffs \in Nat \ {0} /\ Second \in Nat \ {0}
  BY ClockAssumption DEF ClockInv, ClockType
<1>2. CASE At(c, "call") /\ Begin("diffs") /\ done' = 0 /\ total' = 0 /\ UNCHANGED <<todo, over, result>>
  BY <1>1, <1>2, DiffsBegin
<1>3. CASE At(c, "diffs")
  <2>1. PICK d \in 1 .. MaxLap :
          /\ Lap(d)
          /\ IF WholeSeconds(start, Stamp(now + d)) > 0
             THEN /\ done' = done + 1 /\ total' = total + WholeSeconds(start, Stamp(now + d))
                  /\ start' = Stamp(now + d)
                  /\ IF done' < Diffs THEN UNCHANGED <<todo, mpc, result, last>>
                                      ELSE Return(c, total')
             ELSE UNCHANGED <<todo, mpc, done, total, start, result, last>>
    BY <1>3 DEF Resolution, At
  <2>2. /\ mpc = "diffs" /\ last = "none" /\ done < Diffs /\ Ticks(start) <= now
        /\ over' = over /\ Summed(done, total, elapsed - (now - Ticks(start)))
    BY <1>3 DEF Resolution, At, ClockInv, UnderWay
  <2>3. PICK t \in Int : t = Ticks(start)
    BY <1>1 DEF Ticks
  <2>4. now' = now + d /\ elapsed' = elapsed + d /\ now + d \in Nat /\ elapsed + d \in Nat /\ d \in Nat
    BY <1>1, <2>1 DEF Lap
  <2>5. PICK e \in [sec : Nat, frac : 0 .. Second - 1] : e = Stamp(now + d) /\ Ticks(e) = now + d
    BY <2>4, StampTicks
  <2>6. t <= now + d
    BY <1>1, <2>2, <2>3, <2>4
  <2>7. PICK whole \in Nat, rest \in 0 .. Second - 1 :
          whole = WholeSeconds(start, e) /\ now + d - t = whole * Second + rest
    <3>1. Ticks(start) <= Ticks(e) /\ Ticks(e) - Ticks(start) = now + d - t
      BY <1>1, <2>3, <2>4, <2>5, <2>6
    <3>2. /\ WholeSeconds(start, e) \in Nat
          /\ \E rest \in 0 .. Second - 1 :
               Ticks(e) - Ticks(start) = WholeSeconds(start, e) * Second + rest
      BY <1>1, <3>1, WholeOfDifference
    <3>3. QED
      BY <3>1, <3>2
  <2>8. CASE whole > 0
    <3>1. done' = done + 1 /\ total' = total + whole /\ start' = e
      BY <2>1, <2>5, <2>7, <2>8
    <3>2. Ticks(start)' = now' /\ Ticks(e) = now + d
      BY <2>4, <2>5, <3>1 DEF Ticks
    <3>3. Summed(done + 1, total + whole, elapsed - (now - t) + whole * Second + rest)
      <4>1. elapsed - (now - t) \in Int
        BY <1>1
      <4>2. QED
        BY <1>1, <2>2, <2>3, <4>1, OneMoreDifference
    <3>4. elapsed - (now - t) + whole * Second + rest = elapsed + d
      <4>1. whole * Second \in Int
        BY <1>1
      <4>2. QED
        BY <1>1, <2>4, <2>7, <4>1
    <3>5. Summed(done + 1, total + whole, elapsed + d)
      BY <3>3, <3>4
    <3>6. CASE done' < Diffs
      <4>1. UNCHANGED <<todo, mpc, result, last>>
        BY <2>1, <2>5, <2>7, <2>8, <3>6
      <4>2. elapsed' - (now' - Ticks(start)') = elapsed + d
        BY <1>1, <2>4, <3>2
      <4>3. UnderWay'
        BY <2>2, <2>4, <3>1, <3>2, <3>5, <3>6, <4>1, <4>2 DEF UnderWay
      <4>4. ClockType'
        BY <1>1, <2>2, <2>4, <3>1, <4>1 DEF ClockType
      <4>5. QED
        BY <2>2, <4>1, <4>3, <4>4 DEF ClockInv, MeasuresElapsed
    <3>7. CASE ~(done' < Diffs)
      <4>1. Return(c, total + whole)
        BY <2>1, <2>5, <2>7, <2>8, <3>1, <3>7
      <4>2. done + 1 = Diffs
        BY <1>1, <2>2, <3>1, <3>7
      <4>3. result'[c] = total + whole /\ last' = c /\ mpc' = "call" /\ c \in Calls
        BY <1>1, <4>1 DEF Return, Calls
      <4>4. /\ (total + whole) * Second <= elapsed + d
            /\ elapsed + d < (total + whole + Diffs) * Second
        <5>1. PICK r \in Nat : r = total + whole
          BY <1>1
        <5>2. /\ (r + Diffs) * Second = r * Second + Diffs * Second
              /\ Diffs * (Second - 1) = Diffs * Second - Diffs
              /\ r * Second \in Int /\ Diffs * Second \in Int
          BY <1>1
        <5>3. r * Second <= elapsed + d /\ elapsed + d <= r * Second + Diffs * (Second - 1)
          BY <3>5, <4>2, <5>1 DEF Summed
        <5>4. QED
          BY <1>1, <2>4, <5>1, <5>2, <5>3
      <4>5. MeasuresElapsed'
        BY <2>4, <4>3, <4>4 DEF MeasuresElapsed
      <4>6. ClockType'
        <5>1. PICK r \in Nat : r = total + whole /\ done + 1 \in Nat
          BY <1>1
        <5>2. result' = [result EXCEPT ![c] = r]
          BY <4>1, <5>1 DEF Return
        <5>3. result' \in [Calls -> Int]
          <6>1. result \in [Calls -> Int] /\ r \in Int
            BY <1>1
          <6>2. QED
            BY <5>2, <6>1
        <5>4. QED
          BY <1>1, <2>2, <2>4, <3>1, <5>1, <5>3 DEF ClockType
      <4>7. QED
        BY <4>3, <4>5, <4>6 DEF ClockInv, UnderWay
    <3>8. QED
      BY <3>6, <3>7
  <2>9. CASE ~(whole > 0)
    <3>1. UNCHANGED <<todo, mpc, done, total, start, result, last>>
      BY <2>1, <2>5, <2>7, <2>9
    <3>2. Ticks(start)' = t
      BY <2>3, <3>1 DEF Ticks
    <3>3. elapsed' - (now' - Ticks(start)') = elapsed - (now - t)
      BY <1>1, <2>3, <2>4, <3>2
    <3>4. UnderWay'
      BY <1>1, <2>2, <2>3, <2>4, <2>6, <3>1, <3>2, <3>3 DEF UnderWay
    <3>5. QED
      BY <1>1, <2>2, <2>4, <3>1, <3>4 DEF ClockInv, ClockType, MeasuresElapsed
  <2>10. QED
    BY <2>8, <2>9
<1>4. QED
  BY <1>2, <1>3 DEF Resolution

LEMMA ClockStep == ClockInv /\ MNext => ClockInv'
<1> SUFFICES ASSUME ClockInv, MNext PROVE ClockInv'
  OBVIOUS
<1>1. /\ now \in Nat /\ start \in [sec : Nat, frac : 0 .. Second - 1] /\ done \in Nat
      /\ elapsed \in Nat /\ over \in Nat /\ total \in Nat /\ result \in [Calls -> Int]
      /\ MaxLap \in Nat
  BY ClockAssumption DEF ClockInv, ClockType
<1>2. ASSUME NEW c \in {"overhead_gtd", "overhead_rtc"}, Overhead(c) PROVE ClockInv'
  <2>1. CASE At(c, "call")
    BY <1>1, <1>2, <2>1, BeginKeeps DEF Overhead, At
  <2>2. CASE At(c, "loop")
    BY <1>1, <1>2, <2>2, LapReturns, SMTT(30) DEF Overhead, At, Calls
  <2>3. QED
    BY <1>2, <2>1, <2>2 DEF Overhead
<1>3. CASE swrtc
  <2>1. UNCHANGED <<now, start, over, done, total>> /\ elapsed' = 0 /\ Return("swrtc", 1)
    BY <1>3 DEF swrtc
  <2>2. MeasuresElapsed'
    BY <2>1 DEF MeasuresElapsed, Return
  <2>3. QED
    BY <1>1, <2>1, <2>2, ReturnKeeps DEF Calls
<1>4. CASE loop_overhead
  <2>1. CASE At("loop_overhead", "call")
    BY <1>1, <1>4, <2>1, BeginKeeps DEF loop_overhead, At
  <2>2. CASE At("loop_overhead", "one")
    <3>1. PICK d \in 0 .. MaxLap : now' = now + d + Second /\ over' = d
      BY <1>4, <2>2 DEF loop_overhead, At
    <3>2. /\ start' = Stamp(now') /\ elapsed' = 0 /\ mpc' = "two" /\ last = "none"
          /\ UNCHANGED <<todo, done, total, result, last>> /\ now' \in Nat
      BY <1>1, <1>4, <2>2, <3>1, ClockAssumption DEF loop_overhead, At, ClockInv, UnderWay
    <3>3. start' \in [sec : Nat, frac : 0 .. Second - 1] /\ Ticks(start)' = now'
      BY <3>2, StampTicks DEF Ticks
    <3>4. QED
      BY <1>1, <3>1, <3>2, <3>3 DEF ClockInv, ClockType, UnderWay, MeasuresElapsed
  <2>3. CASE At("loop_overhead", "two")
    BY <1>1, <1>4, <2>3, LapReturns DEF loop_overhead, At, Calls
  <2>4. QED
    BY <1>4, <2>1, <2>2, <2>3 DEF loop_overhead
<1>5. CASE frt_gtd
  <2>1. CASE At("frt_gtd", "call")
    BY <1>1, <1>5, <2>1, BeginKeeps DEF frt_gtd, Frt, At
  <2>2. CASE At("frt_gtd", "loop")
    BY <1>1, <1>5, <2>2, LapReturns DEF frt_gtd, Frt, At, Calls
  <2>3. QED
    BY <1>5, <2>1, <2>2 DEF frt_gtd, Frt
<1>6. CASE frt_rtc
  <2>1. CASE At("frt_rtc", "call")
    BY <1>1, <1>6, <2>1, BeginKeeps DEF frt_rtc, Frt, At
  <2>2. CASE At("frt_rtc", "loop")
    BY <1>1, <1>6, <2>2, LapReturns DEF frt_rtc, Frt, At, Calls
  <2>3. QED
    BY <1>6, <2>1, <2>2 DEF frt_rtc, Frt
<1>7. CASE wctime
  <2>1. CASE At("wctime", "call")
    BY <1>1, <1>7, <2>1, BeginKeeps DEF wctime, At
  <2>2. CASE At("wctime", "run")
    <3>1. PICK d \in 0 .. MaxLap : Lap(d) /\ Return("wctime", Stamp(now + d).sec - start.sec)
      BY <1>7, <2>2 DEF wctime, At
    <3>2. mpc = "run" /\ UNCHANGED <<start, over, done, total>>
      BY <1>7, <2>2 DEF wctime, At
    <3>3. QED
      BY <1>1, <3>1, <3>2, LapReturns DEF Calls
  <2>3. QED
    BY <1>7, <2>1, <2>2 DEF wctime
<1>8. QED
  BY <1>2, <1>3, <1>4, <1>5, <1>6, <1>7, SearchKeeps, ResolutionKeeps
     DEF MNext, overhead_gtd, overhead_rtc, clock_gtd, clock_rtc, resolution_gtd, resolution_rtc

(* Wherever seconds end and however fine the clock is, the overheads of    *)
(* the two clocks are exactly what the clock counted, and the mean         *)
(* differences of the two resolutions are whole seconds that miss less     *)
(* than a second of each.                                                  *)
THEOREM CallsMeasure == VSpec => []MeasuresElapsed
<1>1. VInit => ClockInv
  BY InitClock DEF VInit
<1>2. ClockInv /\ [VNext]_vars => ClockInv'
  <2> SUFFICES ASSUME ClockInv, [VNext]_vars PROVE ClockInv'
    OBVIOUS
  <2>1. CASE UNCHANGED mvars
    BY <2>1 DEF mvars, ClockInv, ClockType, UnderWay, Ticks, MeasuresElapsed
  <2>2. CASE MNext
    BY <2>2, ClockStep
  <2>3. QED
    BY <2>1, <2>2 DEF VNext, UsesFile, FileGrows, Measures, InitReturns, Computes, Stop, vars
<1>3. QED
  BY <1>1, <1>2, PTL DEF VSpec, ClockInv

-----------------------------------------------------------------------------
(* The functions of Statistics.  The array is always a rearrangement of    *)
(* the sample, and a rearrangement has the same sum, the same squares and  *)
(* the same number of elements of every kind; a loop knows about the       *)
(* elements before at what its function is to know about all of them.      *)
(* The sums of the first elements of s:                                    *)
SumsOf(f, s, m) ==
  f \in [0 .. m -> Int] /\ f[0] = 0 /\ \A k \in 1 .. m : f[k] = f[k - 1] + s[k]

LEMMA SumsExist ==
  ASSUME NEW s \in Seq(Int), NEW m \in 0 .. Len(s)
  PROVE  \E f : SumsOf(f, s, m)
<1> DEFINE T == {k \in 0 .. Len(s) : ~\E f : SumsOf(f, s, k)}
<1>1. SUFFICES ASSUME T # {} PROVE FALSE
  OBVIOUS
<1>2. T \in SUBSET Nat
  OBVIOUS
<1>3. PICK x \in T : \A y \in T : x <= y
  BY <1>1, <1>2, LeastOf
<1>4. CASE x = 0
  <2>1. SumsOf([k \in 0 .. 0 |-> 0], s, 0)
    BY DEF SumsOf
  <2>2. QED
    BY <1>3, <1>4, <2>1
<1>5. CASE x # 0
  <2>1. x \in 1 .. Len(s) /\ x - 1 \in 0 .. Len(s) /\ Len(s) \in Nat
    BY <1>5
  <2>2. PICK f : SumsOf(f, s, x - 1)
    <3>1. x - 1 \notin T
      <4> HIDE DEF T
      <4>1. x \in Nat /\ ~(x <= x - 1)
        BY <2>1
      <4>2. QED
        BY <1>3, <4>1
    <3>2. QED
      BY <2>1, <3>1
  <2> DEFINE g == [k \in 0 .. x |-> IF k = x THEN f[x - 1] + s[x] ELSE f[k]]
  <2>3. f \in [0 .. x - 1 -> Int] /\ s[x] \in Int
    BY <2>1, <2>2, ElementOfSeq DEF SumsOf
  <2>4. g \in [0 .. x -> Int]
    BY <2>1, <2>3
  <2>5. g[0] = 0
    BY <2>1, <2>2 DEF SumsOf
  <2>6. ASSUME NEW k \in 1 .. x PROVE g[k] = g[k - 1] + s[k]
    <3>1. CASE k = x
      <4>1. g[k] = f[x - 1] + s[x] /\ g[k - 1] = f[x - 1]
        BY <2>1, <3>1
      <4>2. QED
        BY <3>1, <4>1
    <3>2. CASE k # x
      <4>1. k \in 1 .. x - 1 /\ g[k] = f[k] /\ g[k - 1] = f[k - 1]
        BY <2>1, <3>2
      <4>2. QED
        BY <2>2, <4>1 DEF SumsOf
    <3>3. QED
      BY <3>1, <3>2
  <2>7. SumsOf(g, s, x)
    BY <2>4, <2>5, <2>6 DEF SumsOf
  <2>8. QED
    BY <2>7
<1>6. QED
  BY <1>4, <1>5

LEMMA SumIsLast ==
  ASSUME NEW s \in Seq(Int)
  PROVE  \E f : SumsOf(f, s, Len(s)) /\ Sum(s) = f[Len(s)]
<1> DEFINE Rec(f) == f = [k \in 0 .. Len(s) |-> IF k = 0 THEN 0 ELSE f[k - 1] + s[k]]
           upto == CHOOSE f : Rec(f)
<1>1. PICK f : SumsOf(f, s, Len(s))
  BY SumsExist
<1>2. Rec(f)
  BY <1>1 DEF SumsOf
<1>3. Rec(upto)
  BY <1>2
<1>4. Sum(s) = upto[Len(s)]
  BY DEF Sum
<1>5. upto = [k \in 0 .. Len(s) |-> IF k = 0 THEN 0 ELSE upto[k - 1] + s[k]]
  BY <1>3
<1> HIDE DEF upto, Rec
<1>6. SumsOf(upto, s, Len(s))
  <2> DEFINE T == {k \in 0 .. Len(s) : upto[k] # f[k]}
  <2>1. CASE T # {}
    <3>1. T \in SUBSET Nat
      OBVIOUS
    <3> HIDE DEF T
    <3>2. PICK x \in T : \A y \in T : x <= y
      BY <2>1, <3>1, LeastOf
    <3>3. x \in 0 .. Len(s) /\ upto[x] # f[x]
      BY <3>2 DEF T
    <3>4. x # 0
      BY <1>1, <1>5, <3>3 DEF SumsOf
    <3>5. x \in 1 .. Len(s) /\ x - 1 \in 0 .. Len(s) /\ ~(x <= x - 1)
      BY <3>3, <3>4
    <3>6. x - 1 \notin T
      BY <3>2, <3>5
    <3>7. upto[x - 1] = f[x - 1]
      BY <3>5, <3>6 DEF T
    <3>8. upto[x] = upto[x - 1] + s[x] /\ f[x] = f[x - 1] + s[x]
      BY <1>1, <1>5, <3>3, <3>4, <3>5 DEF SumsOf
    <3>9. QED
      BY <3>3, <3>7, <3>8
  <2>2. CASE T = {}
    <3>1. \A k \in 0 .. Len(s) : upto[k] = f[k]
      BY <2>2
    <3>2. upto = f
      <4>1. f = [k \in 0 .. Len(s) |-> f[k]]
        BY <1>1 DEF SumsOf
      <4>2. upto = [k \in 0 .. Len(s) |-> upto[k]]
        BY <1>5
      <4>3. QED
        BY <3>1, <4>1, <4>2
    <3>3. QED
      BY <1>1, <3>2
  <2>3. QED
    BY <2>1, <2>2
<1>7. QED
  BY <1>4, <1>6

(* s and t differ in the q-th element at most; f and g hold their sums.    *)
OneDiffers(q, m, s, f, t, g) ==
  /\ s \in [1 .. m -> Int] /\ t \in [1 .. m -> Int] /\ q \in 1 .. m
  /\ SumsOf(f, s, m) /\ SumsOf(g, t, m)
  /\ \A k \in 1 .. m : k # q => t[k] = s[k]

LEMMA SumsDiffer ==
  ASSUME NEW m \in Nat, NEW s, NEW t, NEW f, NEW g, NEW q, OneDiffers(q, m, s, f, t, g)
  PROVE  g[m] = f[m] - s[q] + t[q]
<1> USE DEF OneDiffers
<1> DEFINE Change(k) == IF k >= q THEN t[q] - s[q] ELSE 0
           T == {k \in 0 .. m : g[k] # f[k] + Change(k)}
<1>1. T \in SUBSET Nat
  OBVIOUS
<1>2. s[q] \in Int /\ t[q] \in Int
  OBVIOUS
<1>3. CASE T # {}
  <2> HIDE DEF T
  <2>1. PICK x \in T : \A y \in T : x <= y
    BY <1>1, <1>3, LeastOf
  <2>2. x \in 0 .. m /\ g[x] # f[x] + Change(x)
    BY <2>1 DEF T
  <2>3. x # 0
    BY <2>2 DEF SumsOf
  <2>4. x \in 1 .. m /\ x - 1 \in 0 .. m /\ ~(x <= x - 1)
    BY <2>2, <2>3
  <2>5. x - 1 \notin T
    BY <2>1, <2>4
  <2>6. g[x - 1] = f[x - 1] + Change(x - 1)
    BY <2>4, <2>5 DEF T
  <2>7. g[x] = g[x - 1] + t[x] /\ f[x] = f[x - 1] + s[x]
    BY <2>4 DEF SumsOf
  <2>8. /\ f[x - 1] \in Int /\ g[x - 1] \in Int /\ f[x] \in Int /\ g[x] \in Int
        /\ s[x] \in Int /\ t[x] \in Int
    BY <2>4 DEF SumsOf
  <2>9. CASE x = q
    BY <1>2, <2>2, <2>4, <2>6, <2>7, <2>8, <2>9
  <2>10. CASE x # q
    <3>1. t[x] = s[x] /\ (x >= q <=> x - 1 >= q)
      BY <2>4, <2>10
    <3>2. Change(x) = Change(x - 1) /\ Change(x) \in Int
      BY <1>2, <3>1
    <3>3. /\ g[x] = g[x - 1] + t[x] /\ f[x] = f[x - 1] + s[x]
          /\ g[x - 1] = f[x - 1] + Change(x - 1) /\ g[x] # f[x] + Change(x)
      BY <2>2, <2>6, <2>7, Zenon
    <3> HIDE DEF Change
    <3>4. g[x] = f[x] + Change(x)
      BY <2>8, <3>1, <3>2, <3>3, SMTT(30)
    <3>5. QED
      BY <3>3, <3>4, Zenon
  <2>11. QED
    BY <2>9, <2>10
<1>4. CASE T = {}
  <2>1. g[m] = f[m] + Change(m) /\ m >= q
    BY <1>4
  <2>2. f[m] \in Int
    BY DEF SumsOf
  <2>3. QED
    BY <1>2, <2>1, <2>2
<1>5. QED
  BY <1>3, <1>4

(* Permutes: p is a bijection of the first m indices.                      *)
Permutes(p, m) ==
  /\ p \in [1 .. m -> 1 .. m]
  /\ \A j, k \in 1 .. m : p[j] = p[k] => j = k
  /\ \A i \in 1 .. m : \E k \in 1 .. m : p[k] = i

(* What is left of a permutation of m indices if the image of m takes the  *)
(* place of m.                                                             *)
LEMMA PermutesFewer ==
  ASSUME NEW m \in Nat, m # 0, NEW p, Permutes(p, m), NEW r \in 1 .. m, p[r] = m
  PROVE  Permutes([k \in 1 .. m - 1 |-> IF k = r THEN p[m] ELSE p[k]], m - 1)
<1> DEFINE g == [k \in 1 .. m - 1 |-> IF k = r THEN p[m] ELSE p[k]]
<1>1. /\ \A k \in 1 .. m : p[k] \in 1 .. m
      /\ \A j, k \in 1 .. m : p[j] = p[k] => j = k
      /\ \A i \in 1 .. m : \E k \in 1 .. m : p[k] = i
  BY DEF Permutes
<1>2. m \in 1 .. m /\ (\A k \in 1 .. m - 1 : k \in 1 .. m /\ k # m)
      /\ \A k \in 1 .. m : k # m => k \in 1 .. m - 1
  OBVIOUS
<1>3. ASSUME NEW k \in 1 .. m - 1 PROVE g[k] \in 1 .. m - 1
  <2>1. CASE k = r
    <3>1. p[m] # m
      BY <1>1, <1>2, <2>1
    <3>2. QED
      BY <1>1, <1>2, <2>1, <3>1
  <2>2. CASE k # r
    <3>1. p[k] # m
      BY <1>1, <1>2, <2>2
    <3>2. QED
      BY <1>1, <1>2, <2>2, <3>1
  <2>3. QED
    BY <2>1, <2>2
<1>4. ASSUME NEW j \in 1 .. m - 1, NEW k \in 1 .. m - 1, g[j] = g[k] PROVE j = k
  <2>1. /\ g[j] = p[IF j = r THEN m ELSE j] /\ (IF j = r THEN m ELSE j) \in 1 .. m
        /\ g[k] = p[IF k = r THEN m ELSE k] /\ (IF k = r THEN m ELSE k) \in 1 .. m
    BY <1>2
  <2>2. (IF j = r THEN m ELSE j) = (IF k = r THEN m ELSE k)
    BY <1>1, <1>4, <2>1
  <2>3. QED
    BY <1>2, <2>2
<1>5. ASSUME NEW i \in 1 .. m - 1 PROVE \E k \in 1 .. m - 1 : g[k] = i
  <2>1. PICK k \in 1 .. m : p[k] = i
    BY <1>1, <1>2
  <2>2. CASE k = m
    <3>1. r # m
      BY <1>2, <2>1, <2>2
    <3>2. g[r] = i /\ r \in 1 .. m - 1
      BY <1>2, <2>1, <2>2, <3>1
    <3>3. QED
      BY <3>2
  <2>3. CASE k # m
    <3>1. k # r
      BY <1>2, <2>1
    <3>2. g[k] = i /\ k \in 1 .. m - 1
      BY <1>2, <2>1, <2>3, <3>1
    <3>3. QED
      BY <3>2
  <2>4. QED
    BY <2>2, <2>3
<1>6. QED
  BY <1>3, <1>4, <1>5 DEF Permutes

(* t is s permuted by p, and f and g hold their sums.                      *)
PermutedBy(p, m, s, f, t, g) ==
  /\ s \in [1 .. m -> Int] /\ t \in [1 .. m -> Int]
  /\ Permutes(p, m) /\ SumsOf(f, s, m) /\ SumsOf(g, t, m)
  /\ \A k \in 1 .. m : t[k] = s[p[k]]

SameSums(m) == \A p, s, f, t, g : PermutedBy(p, m, s, f, t, g) => f[m] = g[m]

LEMMA SumsShorter ==
  ASSUME NEW l \in Nat, NEW f, NEW s \in [1 .. l + 1 -> Int], SumsOf(f, s, l + 1)
  PROVE  /\ SumsOf([k \in 0 .. l |-> f[k]], [k \in 1 .. l |-> s[k]], l)
         /\ f[l + 1] = f[l] + s[l + 1] /\ f[l] \in Int
<1>1. /\ f \in [0 .. l + 1 -> Int] /\ f[0] = 0
      /\ \A k \in 1 .. l + 1 : f[k] = f[k - 1] + s[k]
  BY DEF SumsOf
<1>2. l + 1 \in 1 .. l + 1 /\ l \in 0 .. l + 1 /\ l + 1 - 1 = l
  OBVIOUS
<1>3. f[l + 1] = f[l] + s[l + 1] /\ f[l] \in Int
  BY <1>1, <1>2
<1> DEFINE d == [k \in 0 .. l |-> f[k]]
           u == [k \in 1 .. l |-> s[k]]
<1>4. d \in [0 .. l -> Int] /\ d[0] = 0
  BY <1>1
<1>5. ASSUME NEW k \in 1 .. l PROVE d[k] = d[k - 1] + u[k]
  <2>1. k \in 1 .. l + 1 /\ k \in 0 .. l /\ k - 1 \in 0 .. l
    OBVIOUS
  <2>2. QED
    BY <1>1, <2>1
<1>6. QED
  BY <1>3, <1>4, <1>5 DEF SumsOf

(* The induction step: s is shortened by its last element, t by its own    *)
(* last one, which takes the place of the last of s in it.                 *)
LEMMA PermutedOneMore ==
  ASSUME NEW l \in Nat, SameSums(l), NEW p, NEW s, NEW f, NEW t, NEW g,
         PermutedBy(p, l + 1, s, f, t, g)
  PROVE  f[l + 1] = g[l + 1]
<1> DEFINE m == l + 1
<1>1. \A p1, s1, f1, t1, g1 : PermutedBy(p1, l, s1, f1, t1, g1) => f1[l] = g1[l]
  BY DEF SameSums
<1>2. /\ s \in [1 .. m -> Int] /\ t \in [1 .. m -> Int] /\ m \in Nat /\ m # 0 /\ m - 1 = l
      /\ Permutes(p, m) /\ SumsOf(f, s, m) /\ SumsOf(g, t, m)
      /\ \A k \in 1 .. m : t[k] = s[p[k]]
  BY DEF PermutedBy
<1> DEFINE u == [k \in 1 .. l |-> s[k]]
           w == [k \in 1 .. l |-> t[k]]
           d == [k \in 0 .. l |-> f[k]]
           e == [k \in 0 .. l |-> g[k]]
<1>3. SumsOf(d, u, l) /\ f[m] = f[l] + s[m] /\ f[l] \in Int
  BY <1>2, SumsShorter
<1>4. SumsOf(e, w, l) /\ g[m] = g[l] + t[m] /\ g[l] \in Int
  BY <1>2, SumsShorter
<1>5. d[l] = f[l] /\ e[l] = g[l]
  OBVIOUS
<1> HIDE DEF m
<1>6. PICK r \in 1 .. m : p[r] = m
  BY <1>2 DEF Permutes
<1> DEFINE h == [k \in 1 .. l |-> IF k = r THEN p[m] ELSE p[k]]
           v == [k \in 1 .. l |-> IF k = r THEN t[m] ELSE t[k]]
<1>7. Permutes(h, l)
  BY <1>2, <1>6, PermutesFewer
<1>8. /\ m \in 1 .. m /\ \A k \in 1 .. l : k \in 1 .. m /\ k # m
      /\ \A k \in 1 .. m : k # m => k \in 1 .. l
  BY <1>2
<1>9. /\ u \in [1 .. l -> Int] /\ v \in [1 .. l -> Int] /\ w \in [1 .. l -> Int]
      /\ s[m] \in Int /\ t[m] \in Int
  BY <1>2, <1>8
<1>10. \A k \in 1 .. l : v[k] = u[h[k]]
  <2> TAKE k \in 1 .. l
  <2>1. h[k] \in 1 .. l
    BY <1>7 DEF Permutes
  <2>2. u[h[k]] = s[h[k]] /\ h[k] = (IF k = r THEN p[m] ELSE p[k])
    BY <2>1
  <2>3. t[m] = s[p[m]] /\ t[k] = s[p[k]]
    BY <1>2, <1>8
  <2>4. QED
    BY <2>2, <2>3
<1>11. t[r] = s[m]
  BY <1>2, <1>6
<1>12. CASE r = m
  <2>1. v = w
    BY <1>8, <1>12
  <2> HIDE DEF h, u, v, w, d, e
  <2>2. PermutedBy(h, l, u, d, v, e)
    BY <1>7, <1>3, <1>4, <1>9, <1>10, <2>1 DEF PermutedBy
  <2>3. d[l] = e[l]
    BY <1>1, <2>2
  <2>4. f[l] = g[l] /\ t[m] = s[m]
    BY <1>5, <1>11, <1>12, <2>3, Zenon
  <2>5. f[m] = g[m]
    BY <1>3, <1>4, <2>4, Zenon
  <2>6. QED
    BY <2>5 DEF m
<1>13. CASE r # m
  <2>1. r \in 1 .. l
    BY <1>8, <1>13
  <2>2. w[r] = t[r] /\ v[r] = t[m] /\ \A k \in 1 .. l : k # r => v[k] = w[k]
    BY <2>1
  <2> HIDE DEF h, u, v, w, d, e
  <2>3. v \in Seq(Int) /\ Len(v) = l /\ l \in 0 .. Len(v)
    BY <1>9
  <2>4. PICK c : SumsOf(c, v, l)
    BY <2>3, SumsExist
  <2>5. PermutedBy(h, l, u, d, v, c)
    BY <1>7, <1>3, <1>9, <1>10, <2>4 DEF PermutedBy
  <2>6. d[l] = c[l]
    BY <1>1, <2>5
  <2>7. c[l] = e[l] - w[r] + v[r]
    <3>1. OneDiffers(r, l, w, e, v, c)
      BY <1>4, <1>9, <2>1, <2>2, <2>4 DEF OneDiffers
    <3>2. QED
      BY <3>1, SumsDiffer
  <2>8. f[l] = g[l] - s[m] + t[m]
    BY <1>5, <1>11, <2>2, <2>6, <2>7, Zenon
  <2>9. f[m] = g[m]
    <3>1. f[m] = f[l] + s[m] /\ g[m] = g[l] + t[m]
      BY <1>3, <1>4, Zenon
    <3>2. f[l] \in Int /\ g[l] \in Int /\ s[m] \in Int /\ t[m] \in Int
      BY <1>3, <1>4, <1>9, Zenon
    <3>3. f[l] + s[m] = g[l] + t[m]
      BY <2>8, <3>2
    <3>4. QED
      BY <3>1, <3>3, Zenon
  <2>10. QED
    BY <2>9 DEF m
<1>14. QED
  BY <1>12, <1>13

LEMMA PermutedSums ==
  ASSUME NEW m \in Nat
  PROVE  SameSums(m)
<1> DEFINE T == {k \in Nat : ~SameSums(k)}
<1>1. T \in SUBSET Nat
  OBVIOUS
<1>2. CASE T # {}
  <2> HIDE DEF T
  <2>1. PICK x \in T : \A y \in T : x <= y
    BY <1>1, <1>2, LeastOf
  <2>2. x \in Nat /\ ~SameSums(x)
    BY <2>1 DEF T
  <2>3. x # 0
    BY <2>2 DEF SameSums, PermutedBy, SumsOf
  <2>4. PICK l \in Nat : x = l + 1 /\ ~(x <= l)
    <3>1. x - 1 \in Nat /\ x = (x - 1) + 1 /\ ~(x <= x - 1)
      BY <2>2, <2>3
    <3>2. QED
      BY <3>1
  <2>5. l \notin T
    BY <2>1, <2>4
  <2>6. SameSums(l)
    BY <2>4, <2>5 DEF T
  <2>7. \A p, s, f, t, g : PermutedBy(p, l + 1, s, f, t, g) => f[l + 1] = g[l + 1]
    BY <2>6, PermutedOneMore
  <2>8. SameSums(x)
    BY <2>4, <2>7 DEF SameSums
  <2>9. QED
    BY <2>2, <2>8
<1>3. QED
  BY <1>2

-----------------------------------------------------------------------------
(* What qsort gives back.                                                  *)
LEMMA BijectionPermutes ==
  ASSUME NEW m \in Nat, NEW p
  PROVE  p \in Bijection(1 .. m, 1 .. m) <=> Permutes(p, m)
BY DEF Bijection, Injection, Surjection, IsInjective, Permutes

LEMMA RearrangedBy ==
  ASSUME NEW s \in Seq(Int), NEW t
  PROVE  t \in Rearrangements(s)
           <=> \E p : Permutes(p, Len(s)) /\ t = [k \in 1 .. Len(s) |-> s[p[k]]]
<1>1. DOMAIN s = 1 .. Len(s) /\ Len(s) \in Nat
  OBVIOUS
<1>2. t \in Rearrangements(s)
        <=> \E p \in Bijection(1 .. Len(s), 1 .. Len(s)) : t = [k \in 1 .. Len(s) |-> s[p[k]]]
  BY <1>1 DEF Rearrangements
<1>3. \A p : p \in Bijection(1 .. Len(s), 1 .. Len(s)) <=> Permutes(p, Len(s))
  BY <1>1, BijectionPermutes
<1>4. QED
  BY <1>2, <1>3

LEMMA RearrangedIsSeq ==
  ASSUME NEW s \in Seq(Int), NEW p, Permutes(p, Len(s)),
         NEW t, t = [k \in 1 .. Len(s) |-> s[p[k]]]
  PROVE  t \in Seq(Int) /\ Len(t) = Len(s) /\ \A k \in 1 .. Len(s) : t[k] = s[p[k]]
<1>1. \A k \in 1 .. Len(s) : p[k] \in 1 .. Len(s)
  BY DEF Permutes
<1>2. Len(s) \in Nat /\ \A k \in 1 .. Len(s) : s[p[k]] \in Int
  BY <1>1
<1>3. t \in [1 .. Len(s) -> Int]
  BY <1>2
<1>4. QED
  BY <1>2, <1>3

LEMMA RearrangedTwice ==
  ASSUME NEW s \in Seq(Int), NEW t \in Rearrangements(s), NEW u \in Rearrangements(t)
  PROVE  u \in Rearrangements(s)
<1>1. PICK p : Permutes(p, Len(s)) /\ t = [k \in 1 .. Len(s) |-> s[p[k]]]
  BY RearrangedBy
<1>2. t \in Seq(Int) /\ Len(t) = Len(s) /\ \A k \in 1 .. Len(s) : t[k] = s[p[k]]
  BY <1>1, RearrangedIsSeq
<1>3. PICK q : Permutes(q, Len(s)) /\ u = [k \in 1 .. Len(s) |-> t[q[k]]]
  BY <1>2, RearrangedBy
<1> DEFINE m == Len(s)
           r == [k \in 1 .. m |-> p[q[k]]]
<1>4. Permutes(r, m)
  <2> HIDE DEF m
  <2>1. /\ \A k \in 1 .. m : p[k] \in 1 .. m /\ q[k] \in 1 .. m
        /\ \A j, k \in 1 .. m : p[j] = p[k] => j = k
        /\ \A j, k \in 1 .. m : q[j] = q[k] => j = k
        /\ \A i \in 1 .. m : \E k \in 1 .. m : p[k] = i
        /\ \A i \in 1 .. m : \E k \in 1 .. m : q[k] = i
    BY <1>1, <1>3 DEF Permutes, m
  <2>2. r \in [1 .. m -> 1 .. m]
    BY <2>1
  <2>3. \A j, k \in 1 .. m : r[j] = r[k] => j = k
    BY <2>1
  <2>4. \A i \in 1 .. m : \E k \in 1 .. m : r[k] = i
    <3> TAKE i \in 1 .. m
    <3>1. PICK j \in 1 .. m : p[j] = i
      BY <2>1
    <3>2. PICK k \in 1 .. m : q[k] = j
      BY <2>1
    <3>3. r[k] = i
      BY <3>1, <3>2
    <3>4. QED
      BY <3>3
  <2>5. QED
    BY <2>2, <2>3, <2>4 DEF Permutes
<1>5. u = [k \in 1 .. m |-> s[r[k]]]
  <2>1. \A k \in 1 .. m : q[k] \in 1 .. m
    BY <1>3 DEF Permutes
  <2>2. \A k \in 1 .. m : t[q[k]] = s[r[k]]
    BY <1>2, <2>1
  <2>3. QED
    BY <1>3, <2>2
<1>6. \E p0 : Permutes(p0, Len(s)) /\ u = [k \in 1 .. Len(s) |-> s[p0[k]]]
  <2> HIDE DEF r
  <2>1. QED
    BY <1>4, <1>5
<1>7. QED
  BY <1>6, RearrangedBy

LEMMA RearrangedSum ==
  ASSUME NEW s \in Seq(Int), NEW t \in Seq(Int), Len(t) = Len(s), NEW p, Permutes(p, Len(s)),
         \A k \in 1 .. Len(s) : t[k] = s[p[k]]
  PROVE  Sum(t) = Sum(s)
<1>1. PICK f : SumsOf(f, s, Len(s)) /\ Sum(s) = f[Len(s)]
  BY SumIsLast
<1>2. PICK g : SumsOf(g, t, Len(t)) /\ Sum(t) = g[Len(t)]
  BY SumIsLast
<1>3. Len(s) \in Nat /\ s \in [1 .. Len(s) -> Int] /\ t \in [1 .. Len(s) -> Int]
  OBVIOUS
<1>4. PermutedBy(p, Len(s), s, f, t, g)
  BY <1>1, <1>2, <1>3 DEF PermutedBy
<1>5. SameSums(Len(s))
  BY <1>3, PermutedSums
<1>6. f[Len(s)] = g[Len(s)]
  BY <1>4, <1>5 DEF SameSums
<1>7. QED
  BY <1>1, <1>2, <1>6

Squared(s) == [a \in DOMAIN s |-> s[a] * s[a]]

LEMMA SquaredIs ==
  ASSUME NEW d \in Seq(Int)
  PROVE  /\ Squared(d) \in Seq(Int) /\ Len(Squared(d)) = Len(d)
         /\ \A k \in 1 .. Len(d) : Squared(d)[k] = d[k] * d[k]
<1>1. Len(d) \in Nat /\ DOMAIN d = 1 .. Len(d) /\ \A k \in 1 .. Len(d) : d[k] \in Int
  OBVIOUS
<1>2. Squared(d) \in [1 .. Len(d) -> Int]
  BY <1>1 DEF Squared
<1>3. QED
  BY <1>1, <1>2 DEF Squared

LEMMA RearrangedSums ==
  ASSUME NEW s \in Seq(Int), NEW t \in Rearrangements(s)
  PROVE  Sum(t) = Sum(s) /\ Sum(Squared(t)) = Sum(Squared(s))
<1>1. PICK p : Permutes(p, Len(s)) /\ t = [k \in 1 .. Len(s) |-> s[p[k]]]
  BY RearrangedBy
<1>2. t \in Seq(Int) /\ Len(t) = Len(s) /\ \A k \in 1 .. Len(s) : t[k] = s[p[k]]
  BY <1>1, RearrangedIsSeq
<1>3. \A v \in Seq(Int) : /\ Squared(v) \in Seq(Int) /\ Len(Squared(v)) = Len(v)
                           /\ \A k \in 1 .. Len(v) : Squared(v)[k] = v[k] * v[k]
  BY SquaredIs
<1>4. \A k \in 1 .. Len(s) : p[k] \in 1 .. Len(s)
  BY <1>1 DEF Permutes
<1>5. \A k \in 1 .. Len(s) : Squared(t)[k] = Squared(s)[p[k]]
  <2> TAKE k \in 1 .. Len(s)
  <2>1. Squared(t)[k] = t[k] * t[k]
    BY <1>2, <1>3
  <2>2. Squared(s)[p[k]] = s[p[k]] * s[p[k]]
    BY <1>3, <1>4
  <2>3. QED
    BY <1>2, <2>1, <2>2
<1>6. Sum(t) = Sum(s)
  BY <1>1, <1>2, RearrangedSum
<1>7. Sum(Squared(t)) = Sum(Squared(s))
  <2>1. /\ Squared(s) \in Seq(Int) /\ Squared(t) \in Seq(Int)
        /\ Len(Squared(s)) = Len(s) /\ Len(Squared(t)) = Len(s)
    BY <1>2, <1>3
  <2>2. QED
    BY <1>1, <1>5, <2>1, RearrangedSum
<1>8. QED
  BY <1>6, <1>7

(* As many elements of a rearrangement are in V as before.                 *)
LEMMA RearrangedCount ==
  ASSUME NEW s \in Seq(Int), NEW t \in Rearrangements(s), NEW V
  PROVE  Cardinality({a \in DOMAIN t : t[a] \in V}) = Cardinality({a \in DOMAIN s : s[a] \in V})
<1>1. PICK p : Permutes(p, Len(s)) /\ t = [k \in 1 .. Len(s) |-> s[p[k]]]
  BY RearrangedBy
<1>2. t \in Seq(Int) /\ Len(t) = Len(s) /\ \A k \in 1 .. Len(s) : t[k] = s[p[k]]
  BY <1>1, RearrangedIsSeq
<1>3. DOMAIN s = 1 .. Len(s) /\ DOMAIN t = 1 .. Len(s) /\ Len(s) \in Nat
  BY <1>2
<1> DEFINE P == {a \in 1 .. Len(s) : t[a] \in V}
           Q == {a \in 1 .. Len(s) : s[a] \in V}
           g == [a \in P |-> p[a]]
<1>4. /\ \A k \in 1 .. Len(s) : p[k] \in 1 .. Len(s)
      /\ \A j, k \in 1 .. Len(s) : p[j] = p[k] => j = k
      /\ \A i \in 1 .. Len(s) : \E k \in 1 .. Len(s) : p[k] = i
  BY <1>1 DEF Permutes
<1>5. g \in [P -> Q] /\ (\A a \in P : g[a] = p[a])
  BY <1>2, <1>4
<1>6. \A b \in Q : \E a \in P : g[a] = b
  <2> TAKE b \in Q
  <2>1. PICK a \in 1 .. Len(s) : p[a] = b
    BY <1>4
  <2>2. a \in P /\ g[a] = b
    BY <1>2, <2>1
  <2>3. QED
    BY <2>2
<1>7. \A a \in P, b \in P : g[a] = g[b] => a = b
  BY <1>4
<1>8. IsFiniteSet(P)
  <2>1. IsFiniteSet(1 .. Len(s))
    BY <1>3, FS_Interval
  <2>2. QED
    BY <2>1, FS_Subset
<1> HIDE DEF P, Q, g
<1>9. g \in Bijection(P, Q)
  BY <1>5, <1>6, <1>7 DEF Bijection, Injection, Surjection, IsInjective
<1>10. Cardinality(P) = Cardinality(Q)
  BY <1>8, <1>9, FS_Bijection DEF ExistsBijection
<1>11. QED
  BY <1>3, <1>10 DEF P, Q

LEMMA RearrangedRange ==
  ASSUME NEW s \in Seq(Int), NEW t \in Rearrangements(s)
  PROVE  /\ t \in Seq(Int) /\ Len(t) = Len(s) /\ Range(t) = Range(s)
         /\ Range(s) = {t[k] : k \in 1 .. Len(s)}
<1>1. PICK p : Permutes(p, Len(s)) /\ t = [k \in 1 .. Len(s) |-> s[p[k]]]
  BY RearrangedBy
<1>2. t \in Seq(Int) /\ Len(t) = Len(s) /\ \A k \in 1 .. Len(s) : t[k] = s[p[k]]
  BY <1>1, RearrangedIsSeq
<1>3. DOMAIN s = 1 .. Len(s) /\ DOMAIN t = 1 .. Len(s)
  BY <1>2
<1>4. \A k \in 1 .. Len(s) : p[k] \in 1 .. Len(s)
  BY <1>1 DEF Permutes
<1>5. \A i \in 1 .. Len(s) : \E k \in 1 .. Len(s) : p[k] = i
  BY <1>1 DEF Permutes
<1>6. Range(t) = {t[k] : k \in 1 .. Len(s)} /\ Range(s) = {s[k] : k \in 1 .. Len(s)}
  BY <1>3 DEF Range
<1>7. ASSUME NEW x \in Range(t) PROVE x \in Range(s)
  <2>1. PICK k \in 1 .. Len(s) : x = t[k]
    BY <1>6
  <2>2. QED
    BY <1>2, <1>4, <1>6, <2>1
<1>8. ASSUME NEW x \in Range(s) PROVE x \in Range(t)
  <2>1. PICK i \in 1 .. Len(s) : x = s[i]
    BY <1>6
  <2>2. PICK k \in 1 .. Len(s) : p[k] = i
    BY <1>5
  <2>3. QED
    BY <1>2, <1>6, <2>1, <2>2
<1>9. Range(t) = Range(s)
  BY <1>7, <1>8
<1>10. QED
  BY <1>2, <1>6, <1>9

-----------------------------------------------------------------------------
(* How often x is among the first a elements of d.                         *)
HowMany(d, a, x) == Cardinality({b \in 1 .. a : d[b] = x})

LEMMA OneMoreCounted ==
  ASSUME NEW a \in Nat, NEW d, NEW x
  PROVE  /\ HowMany(d, a, x) \in Nat
         /\ HowMany(d, a + 1, x) = HowMany(d, a, x) + (IF d[a + 1] = x THEN 1 ELSE 0)
<1> DEFINE B(k) == {b \in 1 .. k : d[b] = x}
<1>1. IsFiniteSet(1 .. a)
  BY FS_Interval
<1>2. IsFiniteSet(B(a)) /\ Cardinality(B(a)) \in Nat
  BY <1>1, FS_Subset, FS_CardinalityType
<1>3. CASE d[a + 1] = x
  <2>1. B(a + 1) = B(a) \cup {a + 1} /\ a + 1 \notin B(a)
    BY <1>3
  <2> HIDE DEF B
  <2>2. Cardinality(B(a + 1)) = Cardinality(B(a)) + 1
    BY <1>2, <2>1, FS_AddElement
  <2>3. QED
    BY <1>2, <1>3, <2>2 DEF HowMany, B
<1>4. CASE d[a + 1] # x
  <2>1. B(a + 1) = B(a)
    BY <1>4
  <2>2. QED
    BY <1>2, <1>4, <2>1 DEF HowMany
<1>5. QED
  BY <1>3, <1>4

LEMMA NoneCounted ==
  ASSUME NEW a \in Nat, NEW d, NEW x, \A b \in 1 .. a : d[b] # x
  PROVE  HowMany(d, a, x) = 0
BY FS_EmptySet DEF HowMany

(* m is the mode of the first a elements of d and fr its frequency there,  *)
(* cur the last of them and cf the frequency of that.                      *)
ModeOf(d, a, cur, cf, m, fr) ==
  /\ cur = d[a] /\ cf = HowMany(d, a, cur) /\ fr = HowMany(d, a, m)
  /\ \E b \in 1 .. a : m = d[b]
  /\ \A b \in 1 .. a : HowMany(d, a, d[b]) <= fr
  /\ \A b \in 1 .. a : HowMany(d, a, d[b]) = fr => m <= d[b]

LEMMA ModeBegins ==
  ASSUME NEW d \in Seq(Int), Len(d) >= 1
  PROVE  ModeOf(d, 1, d[1], 1, d[1], 1)
<1>1. HowMany(d, 0, d[1]) = 0
  BY NoneCounted
<1>2. HowMany(d, 0 + 1, d[1]) = 1
  <2>1. HowMany(d, 0 + 1, d[1]) = HowMany(d, 0, d[1]) + (IF d[0 + 1] = d[1] THEN 1 ELSE 0)
    BY OneMoreCounted
  <2>2. QED
    BY <1>1, <2>1
<1>3. d[1] \in Int
  BY ElementOfSeq
<1>4. \A b \in 1 .. 1 : b = 1
  OBVIOUS
<1>5. QED
  BY <1>2, <1>3, <1>4 DEF ModeOf

LEMMA ModeGoesOn ==
  ASSUME NEW d \in Seq(Int), InOrder(d), NEW a \in Nat, a >= 1, a < Len(d),
         NEW cf, NEW m, NEW fr, ModeOf(d, a, d[a], cf, m, fr)
  PROVE  LET x == d[a + 1]
             c == IF x # d[a] THEN 1 ELSE cf + 1
         IN IF c > fr THEN ModeOf(d, a + 1, x, c, x, c) ELSE ModeOf(d, a + 1, x, c, m, fr)
<1> DEFINE x == d[a + 1]
           c == IF x # d[a] THEN 1 ELSE cf + 1
<1>1. /\ a \in 1 .. a /\ \A b \in 1 .. a + 1 : b \in 1 .. a \/ b = a + 1
      /\ \A b \in 1 .. a : b \in 1 .. a + 1
      /\ a + 1 \in 1 .. a + 1
  OBVIOUS
<1>2. \A b \in 1 .. a + 1 : d[b] \in Int
  BY ElementOfSeq
<1>3. DOMAIN d = 1 .. Len(d) /\ Len(d) \in Nat
  OBVIOUS
<1>4. \A b \in 1 .. a : d[b] <= d[a] /\ d[b] <= x
  <2> TAKE b \in 1 .. a
  <2>1. b \in DOMAIN d /\ a \in DOMAIN d /\ a + 1 \in DOMAIN d /\ b < a + 1
    BY <1>3
  <2>2. d[b] <= x
    BY <2>1 DEF InOrder
  <2>3. d[b] <= d[a]
    <3>1. CASE b = a
      BY <1>1, <1>2, <3>1
    <3>2. CASE b # a
      <4>1. b < a
        BY <3>2
      <4>2. QED
        BY <2>1, <4>1 DEF InOrder
    <3>3. QED
      BY <3>1, <3>2
  <2>4. QED
    BY <2>2, <2>3
<1>5. \A y : /\ HowMany(d, a, y) \in Nat
             /\ HowMany(d, a + 1, y) = HowMany(d, a, y) + (IF x = y THEN 1 ELSE 0)
  BY OneMoreCounted
<1>6. HowMany(d, a + 1, x) = c
  <2>1. CASE x # d[a]
    <3>1. \A b \in 1 .. a : d[b] # x
      <4> SUFFICES ASSUME NEW b \in 1 .. a, d[b] = x PROVE FALSE
        OBVIOUS
      <4>1. x <= d[a] /\ d[a] <= x /\ x \in Int /\ d[a] \in Int
        BY <1>1, <1>2, <1>4
      <4>2. QED
        BY <2>1, <4>1
    <3>2. HowMany(d, a, x) = 0
      BY <3>1, NoneCounted
    <3> HIDE DEF x
    <3>3. QED
      BY <1>5, <2>1, <3>2
  <2>2. CASE x = d[a]
    <3>1. HowMany(d, a, x) = cf
      BY <2>2 DEF ModeOf
    <3> HIDE DEF x
    <3>2. QED
      BY <1>5, <2>2, <3>1
  <2>3. QED
    BY <2>1, <2>2
<1>7. c \in Nat /\ fr \in Nat
  <2>1. HowMany(d, a + 1, x) \in Nat /\ HowMany(d, a, m) \in Nat
    BY OneMoreCounted
  <2>2. fr = HowMany(d, a, m)
    BY DEF ModeOf
  <2> HIDE DEF c, x
  <2>3. QED
    BY <1>6, <2>1, <2>2, Zenon
<1>8. \A b \in 1 .. a : HowMany(d, a, d[b]) <= fr
  BY DEF ModeOf
<1>9. \A b \in 1 .. a : d[b] # x => HowMany(d, a + 1, d[b]) = HowMany(d, a, d[b])
  BY <1>5
<1>10. fr = HowMany(d, a, m) /\ \E b \in 1 .. a : m = d[b]
  BY DEF ModeOf
<1>11. \A b \in 1 .. a : HowMany(d, a, d[b]) = fr => m <= d[b]
  BY DEF ModeOf
<1> HIDE DEF c
<1>12. CASE c > fr
  <2>1. \A b \in 1 .. a + 1 : d[b] # x => HowMany(d, a + 1, d[b]) < c
    <3> SUFFICES ASSUME NEW b \in 1 .. a + 1, d[b] # x PROVE HowMany(d, a + 1, d[b]) < c
      OBVIOUS
    <3>1. b \in 1 .. a
      BY <1>1
    <3>2. HowMany(d, a + 1, d[b]) = HowMany(d, a, d[b]) /\ HowMany(d, a, d[b]) <= fr
          /\ HowMany(d, a, d[b]) \in Nat
      BY <1>5, <1>8, <1>9, <3>1
    <3>3. QED
      BY <1>7, <1>12, <3>2
  <2>2. \A b \in 1 .. a + 1 : HowMany(d, a + 1, d[b]) \in Nat
    BY <1>5
  <2>3. ASSUME NEW b \in 1 .. a + 1
        PROVE  HowMany(d, a + 1, d[b]) <= c /\ (HowMany(d, a + 1, d[b]) = c => x <= d[b])
    <3>1. CASE d[b] = x
      <4>1. x \in Int
        BY <1>1, <1>2
      <4>2. HowMany(d, a + 1, d[b]) = c
        BY <1>6, <3>1, Zenon
      <4>3. c <= c /\ x <= x
        BY <1>7, <4>1
      <4>4. QED
        BY <3>1, <4>2, <4>3, Zenon
    <3>2. CASE d[b] # x
      <4>1. HowMany(d, a + 1, d[b]) < c /\ HowMany(d, a + 1, d[b]) \in Nat
        BY <2>1, <2>2, <3>2, Zenon
      <4>2. QED
        BY <1>7, <4>1
    <3>3. QED
      BY <3>1, <3>2
  <2>4. ModeOf(d, a + 1, x, c, x, c)
    BY <1>1, <1>6, <2>3 DEF ModeOf
  <2>5. QED
    BY <1>12, <2>4 DEF c
<1>13. CASE ~(c > fr)
  <2>1. m # x
    <3> SUFFICES ASSUME m = x PROVE FALSE
      OBVIOUS
    <3>1. HowMany(d, a + 1, x) = fr + 1
      BY <1>5, <1>10
    <3>2. QED
      BY <1>6, <1>7, <1>13, <3>1
  <2>2. HowMany(d, a + 1, m) = fr
    BY <1>9, <1>10, <2>1
  <2>3. m <= x
    BY <1>4, <1>10
  <2>4. ASSUME NEW b \in 1 .. a + 1
        PROVE  HowMany(d, a + 1, d[b]) <= fr /\ (HowMany(d, a + 1, d[b]) = fr => m <= d[b])
    <3>1. CASE d[b] = x
      BY <1>6, <1>7, <1>13, <2>3, <3>1
    <3>2. CASE d[b] # x
      <4>1. b \in 1 .. a
        BY <1>1, <3>2
      <4>2. QED
        BY <1>8, <1>9, <1>11, <3>2, <4>1
    <3>3. QED
      BY <3>1, <3>2
  <2>5. \E b \in 1 .. a + 1 : m = d[b]
    BY <1>1, <1>10
  <2>6. ModeOf(d, a + 1, x, c, m, fr)
    BY <1>6, <2>2, <2>4, <2>5 DEF ModeOf
  <2>7. QED
    BY <1>13, <2>6 DEF c
<1>14. QED
  BY <1>12, <1>13

-----------------------------------------------------------------------------
(* StatsOfSample, of a sample s, an array d, and a function f that has     *)
(* returned r where no loop l runs.                                        *)
Often(s, x) == Cardinality({a \in DOMAIN s : s[a] = x})
Lower(s, x) == Cardinality({a \in DOMAIN s : s[a] < x})
NotHigher(s, x) == Cardinality({a \in DOMAIN s : s[a] <= x})
Kth(s, j) == CHOOSE x \in Range(s) : Lower(s, x) < j /\ NotHigher(s, x) >= j

IsLeast(s, r) == r \in Range(s) /\ \A x \in Range(s) : r <= x
IsGreatest(s, r) == r \in Range(s) /\ \A x \in Range(s) : r >= x
IsMode(s, r) ==
  /\ r \in Range(s)
  /\ \A x \in Range(s) : Often(s, x) <= Often(s, r)
  /\ \A x \in Range(s) : Often(s, x) = Often(s, r) => r <= x
IsVar(s, r) == r = Len(s) * (Len(s) * Sum(Squared(s)) - Sum(s) * Sum(s))
IsMedian(s, r) == r = Kth(s, (Len(s) + 1) \div 2) + Kth(s, Len(s) \div 2 + 1)

RightAnswer(s, f, r) ==
  /\ f = "mean" => r = Sum(s)
  /\ f = "var" => IsVar(s, r)
  /\ f = "min" => IsLeast(s, r)
  /\ f = "max" => IsGreatest(s, r)
  /\ f = "median" => IsMedian(s, r)
  /\ f = "mode" => IsMode(s, r)

SameNumbers(s, d) == Len(d) = Len(s) /\ \A x \in Range(s) : Often(s, x) = Often(d, x)

OfSample(s, d, f, r, l) ==
  /\ SameNumbers(s, d)
  /\ f # "none" /\ Len(s) = 0 => r = Failure
  /\ Len(s) > 0 /\ l = "none" => RightAnswer(s, f, r)

LEMMA StatsOfSampleIs == StatsOfSample <=> OfSample(sample, data, function, returned, loop)
<1> DEFINE Given(f, P) == function = f /\ loop = "none" => P
<1>1. \A x : Often(sample, x) = Frequency(x)
             /\ Often(data, x) = Cardinality({a \in DOMAIN data : data[a] = x})
  BY DEF Often, Frequency
<1>2. \A j : Kth(sample, j) = KthLeast(j)
  BY DEF Kth, KthLeast, Lower, NotHigher
<1>3. SameNumbers(sample, data)
        <=> /\ Len(data) = Len(sample)
            /\ \A x \in Range(sample) :
                 Frequency(x) = Cardinality({a \in DOMAIN data : data[a] = x})
  BY <1>1 DEF SameNumbers
<1>4. Len(sample) > 0 /\ loop = "none" => RightAnswer(sample, function, returned)
      <=> (Len(sample) > 0 =>
             /\ Given("mean", returned = Sum(sample))
             /\ Given("min", IsLeast(sample, returned))
             /\ Given("max", IsGreatest(sample, returned))
             /\ Given("var", IsVar(sample, returned))
             /\ Given("median", IsMedian(sample, returned))
             /\ Given("mode", IsMode(sample, returned)))
  BY DEF RightAnswer
<1>5. IsVar(sample, returned)
        <=> returned = Len(sample) * (Len(sample) * Sum([a \in DOMAIN sample |-> sample[a] * sample[a]])
                                        - Sum(sample) * Sum(sample))
  BY DEF IsVar, Squared
<1>6. IsMedian(sample, returned)
        <=> returned = KthLeast((Len(sample) + 1) \div 2) + KthLeast(Len(sample) \div 2 + 1)
  BY <1>2 DEF IsMedian
<1>7. IsMode(sample, returned)
        <=> /\ returned \in Range(sample)
            /\ \A x \in Range(sample) : Frequency(x) <= Frequency(returned)
            /\ \A x \in Range(sample) : Frequency(x) = Frequency(returned) => returned <= x
  BY <1>1 DEF IsMode
<1>8. QED
  BY <1>3, <1>4, <1>5, <1>6, <1>7 DEF StatsOfSample, OfSample, IsLeast, IsGreatest

-----------------------------------------------------------------------------
(* What the functions return when their loops have come to their ends.     *)
LEMMA SameAsBefore ==
  ASSUME NEW s \in Seq(Int), NEW d \in Rearrangements(s)
  PROVE  SameNumbers(s, d)
<1>1. ASSUME NEW x PROVE Often(s, x) = Often(d, x)
  <2>1. Cardinality({a \in DOMAIN d : d[a] \in {x}}) = Cardinality({a \in DOMAIN s : s[a] \in {x}})
    BY RearrangedCount
  <2>2. /\ {a \in DOMAIN d : d[a] \in {x}} = {a \in DOMAIN d : d[a] = x}
        /\ {a \in DOMAIN s : s[a] \in {x}} = {a \in DOMAIN s : s[a] = x}
    OBVIOUS
  <2>3. QED
    BY <2>1, <2>2 DEF Often
<1>2. QED
  BY <1>1, RearrangedRange DEF SameNumbers

LEMMA LeastFound ==
  ASSUME NEW s \in Seq(Int), NEW d \in Rearrangements(s), NEW r,
         \E b \in 1 .. Len(d) : r = d[b], \A b \in 1 .. Len(d) : r <= d[b]
  PROVE  IsLeast(s, r)
BY RearrangedRange DEF IsLeast

LEMMA GreatestFound ==
  ASSUME NEW s \in Seq(Int), NEW d \in Rearrangements(s), NEW r,
         \E b \in 1 .. Len(d) : r = d[b], \A b \in 1 .. Len(d) : r >= d[b]
  PROVE  IsGreatest(s, r)
BY RearrangedRange DEF IsGreatest

LEMMA ModeFound ==
  ASSUME NEW s \in Seq(Int), NEW d \in Rearrangements(s), NEW cf, NEW m, NEW fr,
         ModeOf(d, Len(d), d[Len(d)], cf, m, fr)
  PROVE  IsMode(s, m)
<1>1. d \in Seq(Int) /\ Len(d) = Len(s) /\ Range(s) = {d[k] : k \in 1 .. Len(d)}
  BY RearrangedRange
<1>2. ASSUME NEW x \in Range(s) PROVE Often(s, x) = HowMany(d, Len(d), x)
  <2>1. DOMAIN d = 1 .. Len(d)
    BY <1>1
  <2>2. Often(s, x) = Often(d, x)
    BY SameAsBefore DEF SameNumbers
  <2>3. QED
    BY <2>1, <2>2 DEF Often, HowMany
<1>3. m \in Range(s)
  BY <1>1 DEF ModeOf
<1>4. ASSUME NEW x \in Range(s)
      PROVE  Often(s, x) <= Often(s, m) /\ (Often(s, x) = Often(s, m) => m <= x)
  <2>1. PICK b \in 1 .. Len(d) : x = d[b]
    BY <1>1
  <2>2. Often(s, x) = HowMany(d, Len(d), x) /\ Often(s, m) = fr
    BY <1>2, <1>3 DEF ModeOf
  <2>3. QED
    BY <2>1, <2>2 DEF ModeOf
<1>5. QED
  BY <1>3, <1>4 DEF IsMode

LEMMA LowerOrNot ==
  ASSUME NEW s \in Seq(Int), NEW d \in Rearrangements(s), NEW x \in Int
  PROVE  Lower(s, x) = Lower(d, x) /\ NotHigher(s, x) = NotHigher(d, x)
<1>1. d \in Seq(Int)
  BY RearrangedRange
<1>2. ASSUME NEW t \in Seq(Int)
      PROVE  /\ Lower(t, x) = Cardinality({a \in DOMAIN t : t[a] \in {y \in Int : y < x}})
             /\ NotHigher(t, x) = Cardinality({a \in DOMAIN t : t[a] \in {y \in Int : y <= x}})
  <2>1. \A a \in DOMAIN t : t[a] \in Int
    OBVIOUS
  <2>2. /\ {a \in DOMAIN t : t[a] \in {y \in Int : y < x}} = {a \in DOMAIN t : t[a] < x}
        /\ {a \in DOMAIN t : t[a] \in {y \in Int : y <= x}} = {a \in DOMAIN t : t[a] <= x}
    BY <2>1
  <2>3. QED
    BY <2>2 DEF Lower, NotHigher
<1> DEFINE V == {y \in Int : y < x}
           W == {y \in Int : y <= x}
<1>3. Lower(s, x) = Cardinality({a \in DOMAIN s : s[a] \in V})
      /\ NotHigher(s, x) = Cardinality({a \in DOMAIN s : s[a] \in W})
  BY <1>2
<1>4. Lower(d, x) = Cardinality({a \in DOMAIN d : d[a] \in V})
      /\ NotHigher(d, x) = Cardinality({a \in DOMAIN d : d[a] \in W})
  BY <1>1, <1>2
<1> HIDE DEF V, W
<1>5. QED
  BY <1>3, <1>4, RearrangedCount

(* The j-th least of a sample is the j-th of the array in order.           *)
LEMMA KthInOrder ==
  ASSUME NEW s \in Seq(Int), NEW d \in Rearrangements(s), InOrder(d), NEW j \in 1 .. Len(s)
  PROVE  Kth(s, j) = d[j] /\ d[j] \in Int
<1>1. /\ d \in Seq(Int) /\ Len(d) = Len(s) /\ Range(s) = {d[k] : k \in 1 .. Len(s)}
      /\ Len(s) \in Nat /\ DOMAIN d = 1 .. Len(s) /\ DOMAIN s = 1 .. Len(s)
  BY RearrangedRange
<1>2. d[j] \in Range(s) /\ \A x \in Range(s) : x \in Int
  BY <1>1
<1>3. \A x : /\ IsFiniteSet({a \in DOMAIN s : s[a] < x})
             /\ IsFiniteSet({a \in DOMAIN s : s[a] <= x})
  <2>1. IsFiniteSet(DOMAIN s)
    BY <1>1, FS_Interval
  <2>2. QED
    BY <2>1, FS_Subset
<1>4. Lower(s, d[j]) < j
  <2> DEFINE L == {a \in DOMAIN d : d[a] < d[j]}
  <2>1. L \subseteq 1 .. j - 1
    <3> SUFFICES ASSUME NEW a \in DOMAIN d, d[a] < d[j], a >= j PROVE FALSE
      BY <1>1
    <3>1. d[a] \in Int /\ d[j] \in Int
      BY <1>1
    <3>2. a # j
      BY <3>1
    <3>3. j < a /\ j \in DOMAIN d
      BY <1>1, <3>2
    <3>4. d[j] <= d[a]
      BY <3>3 DEF InOrder
    <3>5. QED
      BY <3>1, <3>4
  <2>2. IsFiniteSet(1 .. j - 1) /\ Cardinality(1 .. j - 1) = j - 1
    BY FS_Interval
  <2> HIDE DEF L
  <2>3. Cardinality(L) <= j - 1 /\ Cardinality(L) \in Nat
    BY <2>1, <2>2, FS_Subset, FS_CardinalityType
  <2>4. Lower(s, d[j]) = Cardinality(L)
    BY <1>2, LowerOrNot DEF Lower, L
  <2>5. QED
    BY <2>3, <2>4
<1>5. NotHigher(s, d[j]) >= j
  <2> DEFINE L == {a \in DOMAIN d : d[a] <= d[j]}
  <2>1. 1 .. j \subseteq L
    <3> SUFFICES ASSUME NEW a \in 1 .. j PROVE d[a] <= d[j]
      BY <1>1
    <3>1. a \in DOMAIN d /\ j \in DOMAIN d /\ d[a] \in Int
      BY <1>1
    <3>2. a = j \/ a < j
      OBVIOUS
    <3>3. QED
      BY <3>1, <3>2 DEF InOrder
  <2>2. Cardinality(1 .. j) = j
    BY FS_Interval
  <2>3. IsFiniteSet(L)
    <3>1. IsFiniteSet(DOMAIN d)
      BY <1>1, FS_Interval
    <3>2. QED
      BY <3>1, FS_Subset
  <2> HIDE DEF L
  <2>4. j <= Cardinality(L) /\ Cardinality(L) \in Nat
    BY <2>1, <2>2, <2>3, FS_Subset, FS_CardinalityType
  <2>5. NotHigher(s, d[j]) = Cardinality(L)
    BY <1>2, LowerOrNot DEF NotHigher, L
  <2>6. QED
    BY <2>4, <2>5
<1> DEFINE IsKth(x) == Lower(s, x) < j /\ NotHigher(s, x) >= j
<1>6. \A x, y \in Range(s) : x < y => ~(IsKth(x) /\ IsKth(y))
  <2> SUFFICES ASSUME NEW x \in Range(s), NEW y \in Range(s), x < y
               PROVE  NotHigher(s, x) <= Lower(s, y) /\ NotHigher(s, x) \in Nat /\ Lower(s, y) \in Nat
    OBVIOUS
  <2> DEFINE A == {a \in DOMAIN s : s[a] <= x}
             B == {a \in DOMAIN s : s[a] < y}
  <2>1. A \subseteq B
    <3> SUFFICES ASSUME NEW a \in DOMAIN s, s[a] <= x PROVE s[a] < y
      OBVIOUS
    <3>1. s[a] \in Int /\ x \in Int /\ y \in Int
      BY <1>2
    <3>2. QED
      BY <3>1
  <2>2. IsFiniteSet(A) /\ IsFiniteSet(B)
    BY <1>3
  <2> HIDE DEF A, B
  <2>3. Cardinality(A) <= Cardinality(B) /\ Cardinality(A) \in Nat /\ Cardinality(B) \in Nat
    BY <2>1, <2>2, FS_Subset, FS_CardinalityType
  <2>4. QED
    BY <2>3 DEF A, B, NotHigher, Lower
<1>7. IsKth(d[j])
  BY <1>4, <1>5
<1>8. Kth(s, j) = CHOOSE x \in Range(s) : IsKth(x)
  BY DEF Kth
<1> HIDE DEF IsKth
<1>9. \A x \in Range(s) : IsKth(x) => x = d[j]
  BY <1>2, <1>6, <1>7
<1>10. QED
  BY <1>2, <1>7, <1>8, <1>9

LEMMA MedianFound ==
  ASSUME NEW s \in Seq(Int), NEW d \in Rearrangements(s), InOrder(d), Len(s) >= 1
  PROVE  IsMedian(s, Median(d))
<1>1. Len(d) = Len(s) /\ Len(s) \in Nat
  BY RearrangedRange
<1> DEFINE k == Len(s)
           half == k \div 2
<1>2. half \in Nat /\ k \in Nat /\ k >= 1
  BY <1>1
<1>3. CASE k % 2 = 1
  <2>1. k = 2 * half + 1 /\ (k + 1) \div 2 = half + 1 /\ half + 1 \in 1 .. k
    BY <1>2, <1>3
  <2>2. Median(d) = 2 * d[half + 1]
    BY <1>1, <1>3 DEF Median
  <2>3. Kth(s, half + 1) = d[half + 1] /\ d[half + 1] \in Int
    BY <2>1, KthInOrder
  <2>4. Kth(s, (k + 1) \div 2) + Kth(s, k \div 2 + 1) = 2 * d[half + 1]
    BY <2>1, <2>3
  <2>5. QED
    BY <2>2, <2>4 DEF IsMedian
<1>4. CASE k % 2 # 1
  <2>1. k = 2 * half /\ (k + 1) \div 2 = half /\ half \in 1 .. k /\ half + 1 \in 1 .. k
        /\ half - 1 + 1 = half
    BY <1>2, <1>4
  <2>2. Median(d) = d[half] + d[half + 1]
    BY <1>1, <1>4, <2>1 DEF Median
  <2>3. Kth(s, half) = d[half] /\ Kth(s, half + 1) = d[half + 1]
    BY <2>1, KthInOrder
  <2>4. QED
    BY <2>1, <2>2, <2>3 DEF IsMedian
<1>5. QED
  BY <1>3, <1>4

-----------------------------------------------------------------------------
(* The sums of the first elements of d, and what var has summed up after a *)
(* of them, m being n times the mean.                                      *)
Sums(d) == CHOOSE f : SumsOf(f, d, Len(d)) /\ Sum(d) = f[Len(d)]

Distances(d, a, m) ==
  Len(d) * Len(d) * Sums(Squared(d))[a] - 2 * Len(d) * m * Sums(d)[a] + a * m * m

LEMMA SumsAre ==
  ASSUME NEW d \in Seq(Int)
  PROVE  /\ Sums(d)[0] = 0 /\ Sums(d)[Len(d)] = Sum(d)
         /\ \A a \in 0 .. Len(d) : Sums(d)[a] \in Int
         /\ \A a \in 0 .. Len(d) - 1 : Sums(d)[a + 1] = Sums(d)[a] + d[a + 1]
<1>1. SumsOf(Sums(d), d, Len(d)) /\ Sum(d) = Sums(d)[Len(d)]
  BY SumIsLast DEF Sums
<1>2. ASSUME NEW a \in 0 .. Len(d) - 1
      PROVE  Sums(d)[a + 1] = Sums(d)[a] + d[a + 1]
  <2>1. a + 1 \in 1 .. Len(d) /\ a + 1 - 1 = a
    OBVIOUS
  <2>2. \A k \in 1 .. Len(d) : Sums(d)[k] = Sums(d)[k - 1] + d[k]
    BY <1>1 DEF SumsOf
  <2>3. QED
    BY <2>1, <2>2
<1>3. QED
  BY <1>1, <1>2 DEF SumsOf

LEMMA OneMoreSquare ==
  ASSUME NEW k \in Int, NEW m \in Int, NEW x \in Int, NEW q \in Int, NEW t \in Int, NEW a \in Int
  PROVE  k * k * (q + x * x) - 2 * k * m * (t + x) + (a + 1) * m * m
           = (k * k * q - 2 * k * m * t + a * m * m) + (k * x - m) * (k * x - m)
OBVIOUS

LEMMA AllSquares ==
  ASSUME NEW k \in Int, NEW m \in Int, NEW q \in Int
  PROVE  k * k * q - 2 * k * m * m + k * m * m = k * (k * q - m * m)
OBVIOUS

LEMMA DistanceAdded ==
  ASSUME NEW d \in Seq(Int), NEW a \in 0 .. Len(d) - 1, NEW m \in Int
  PROVE  Distances(d, a + 1, m)
           = Distances(d, a, m) + (Len(d) * d[a + 1] - m) * (Len(d) * d[a + 1] - m)
<1> DEFINE k == Len(d)
           x == d[a + 1]
           q == Sums(Squared(d))[a]
           t == Sums(d)[a]
<1>1. a + 1 \in 1 .. Len(d) /\ a \in 0 .. Len(d) /\ k \in Int /\ a \in Int
  OBVIOUS
<1>2. x \in Int
  BY <1>1, ElementOfSeq
<1>3. t \in Int /\ Sums(d)[a + 1] = t + x
  BY <1>1, SumsAre
<1>4. q \in Int /\ Sums(Squared(d))[a + 1] = q + x * x
  <2>1. /\ Squared(d) \in Seq(Int) /\ Len(Squared(d)) = Len(d)
        /\ Squared(d)[a + 1] = x * x
    BY <1>1, SquaredIs
  <2>2. QED
    BY <1>1, <2>1, SumsAre
<1>5. /\ Distances(d, a + 1, m) = k * k * (q + x * x) - 2 * k * m * (t + x) + (a + 1) * m * m
      /\ Distances(d, a, m) = k * k * q - 2 * k * m * t + a * m * m
  BY <1>3, <1>4 DEF Distances
<1> HIDE DEF k, x, q, t
<1>6. k * k * (q + x * x) - 2 * k * m * (t + x) + (a + 1) * m * m
        = (k * k * q - 2 * k * m * t + a * m * m) + (k * x - m) * (k * x - m)
  BY <1>1, <1>2, <1>3, <1>4, OneMoreSquare
<1>7. Distances(d, a + 1, m) = Distances(d, a, m) + (k * x - m) * (k * x - m)
  BY <1>5, <1>6, Zenon
<1>8. QED
  BY <1>7 DEF k, x

LEMMA VarFound ==
  ASSUME NEW s \in Seq(Int), NEW d \in Rearrangements(s)
  PROVE  IsVar(s, Distances(d, Len(d), Sum(d)))
<1>1. d \in Seq(Int) /\ Len(d) = Len(s) /\ Len(s) \in Int /\ Len(d) \in 0 .. Len(d)
  BY RearrangedRange
<1>2. Squared(d) \in Seq(Int) /\ Len(Squared(d)) = Len(d)
  BY <1>1, SquaredIs
<1>3. Sums(d)[Len(d)] = Sum(d) /\ Sum(d) \in Int
  BY <1>1, SumsAre
<1>4. Sums(Squared(d))[Len(d)] = Sum(Squared(d)) /\ Sum(Squared(d)) \in Int
  BY <1>1, <1>2, SumsAre
<1>5. Sum(d) = Sum(s) /\ Sum(Squared(d)) = Sum(Squared(s))
  BY RearrangedSums
<1> DEFINE k == Len(s)
           m == Sum(s)
           q == Sum(Squared(s))
<1>6. Distances(d, Len(d), Sum(d)) = k * k * q - 2 * k * m * m + k * m * m
  BY <1>1, <1>3, <1>4, <1>5 DEF Distances
<1>7. k \in Int /\ m \in Int /\ q \in Int
  BY <1>1, <1>3, <1>4, <1>5
<1> HIDE DEF k, m, q
<1>8. Distances(d, Len(d), Sum(d)) = k * (k * q - m * m)
  BY <1>6, <1>7, AllSquares
<1>9. QED
  BY <1>8 DEF IsVar, k, m, q

-----------------------------------------------------------------------------
(* What a loop has found out of the elements before at.                    *)
MeanRuns == loop = "mean" => function \in {"mean", "var"} /\ at \in 0 .. n /\ sum = Sums(data)[at]

VarRuns ==
  loop = "var" =>
    function = "var" /\ at \in 0 .. n /\ mean = Sum(data) /\ sum = Distances(data, at, mean)

MinRuns ==
  loop = "min" =>
    /\ function = "min" /\ at \in 1 .. n
    /\ \E b \in 1 .. at : best = data[b]
    /\ \A b \in 1 .. at : best <= data[b]

MaxRuns ==
  loop = "max" =>
    /\ function = "max" /\ at \in 1 .. n
    /\ \E b \in 1 .. at : best = data[b]
    /\ \A b \in 1 .. at : best >= data[b]

ModeRuns ==
  loop = "mode" =>
    /\ function = "mode" /\ at \in 1 .. n /\ InOrder(data)
    /\ current = data[at] /\ ModeOf(data, at, current, cfreq, best, freq)

LoopsRun == MeanRuns /\ VarRuns /\ MinRuns /\ MaxRuns /\ ModeRuns

StatInv ==
  /\ sample \in Seq(Int) /\ data \in Rearrangements(sample)
  /\ function = "none" => loop = "none"
  /\ loop # "none" => n >= 1
  /\ OfSample(sample, data, function, returned, loop)
  /\ LoopsRun

(* The array may have been sorted, but a call is still under way.          *)
LEMMA LoopIsNoAnswer ==
  ASSUME NEW s \in Seq(Int), NEW d \in Rearrangements(s), NEW f, NEW r, NEW l,
         l # "none", Len(d) >= 1
  PROVE  OfSample(s, d, f, r, l)
<1>1. SameNumbers(s, d) /\ Len(d) = Len(s)
  BY SameAsBefore, RearrangedRange
<1>2. QED
  BY <1>1 DEF OfSample

LEMMA AnswerIsOfSample ==
  ASSUME NEW s \in Seq(Int), NEW d \in Rearrangements(s), NEW f, NEW r, NEW l,
         Len(d) >= 1, RightAnswer(s, f, r)
  PROVE  OfSample(s, d, f, r, l)
<1>1. SameNumbers(s, d) /\ Len(d) = Len(s)
  BY SameAsBefore, RearrangedRange
<1>2. QED
  BY <1>1 DEF OfSample

LEMMA FailureIsOfSample ==
  ASSUME NEW s \in Seq(Int), NEW d \in Rearrangements(s), NEW f, NEW l, Len(d) < 1
  PROVE  OfSample(s, d, f, Failure, l)
<1>1. SameNumbers(s, d) /\ Len(d) = Len(s) /\ Len(s) \in Nat
  BY SameAsBefore, RearrangedRange
<1>2. QED
  BY <1>1 DEF OfSample

(* A call that fails, one that starts a loop, and median, which has none.  *)
LEMMA FailKeeps ==
  ASSUME StatInv, NEW f, f # "none", Call(f), Fail
  PROVE  StatInv'
<1>1. /\ sample \in Seq(Int) /\ data \in Rearrangements(sample)
      /\ loop = "none" /\ Len(data) < 1
      /\ sample' = sample /\ data' = data /\ loop' = loop /\ function' = f /\ returned' = Failure
  BY DEF StatInv, Call, Fail, n
<1>2. OfSample(sample, data, f, Failure, loop)
  BY <1>1, FailureIsOfSample
<1>3. LoopsRun'
  BY <1>1 DEF LoopsRun, MeanRuns, VarRuns, MinRuns, MaxRuns, ModeRuns
<1>4. QED
  BY <1>1, <1>2, <1>3 DEF StatInv

LEMMA DataIsSeq ==
  ASSUME StatInv
  PROVE  /\ sample \in Seq(Int) /\ data \in Rearrangements(sample) /\ data \in Seq(Int)
         /\ n \in Nat /\ n = Len(data) /\ \A k \in 1 .. n : data[k] \in Int
<1>1. sample \in Seq(Int) /\ data \in Rearrangements(sample)
  BY DEF StatInv
<1>2. data \in Seq(Int)
  BY <1>1, RearrangedRange
<1>3. QED
  BY <1>1, <1>2, ElementOfSeq DEF n

LEMMA AddsKeeps ==
  ASSUME StatInv, NEW f \in {"mean", "var"}, Adds(f)
  PROVE  StatInv'
<1>1. Call(f) /\ f # "none"
  BY DEF Adds
<1>2. CASE Fail
  BY <1>1, <1>2, FailKeeps
<1>3. CASE Loop("mean", 0) /\ sum' = 0 /\ UNCHANGED <<data, returned, mean, best, runs>>
  <2>1. /\ n >= 1 /\ loop' = "mean" /\ at' = 0 /\ sum' = 0 /\ function' = f
        /\ data' = data /\ sample' = sample /\ n' = n
    BY <1>1, <1>3 DEF Loop, Call, n
  <2>2. OfSample(sample, data, f, returned', "mean")
    BY <2>1, DataIsSeq, LoopIsNoAnswer
  <2>3. LoopsRun'
    <3>1. 0 \in 0 .. n /\ Sums(data)[0] = 0
      BY DataIsSeq, SumsAre
    <3>2. QED
      BY <2>1, <3>1 DEF LoopsRun, MeanRuns, VarRuns, MinRuns, MaxRuns, ModeRuns
  <2>4. QED
    BY <2>1, <2>2, <2>3, DataIsSeq DEF StatInv
<1>4. QED
  BY <1>2, <1>3 DEF Adds

LEMMA SeeksKeeps ==
  ASSUME StatInv, NEW f \in {"min", "max"}, Seeks(f)
  PROVE  StatInv'
<1>1. Call(f) /\ f # "none"
  BY DEF Seeks
<1>2. CASE Fail
  BY <1>1, <1>2, FailKeeps
<1>3. CASE Loop(f, 1) /\ best' = data[1] /\ UNCHANGED <<data, returned, sums, runs>>
  <2>1. /\ n >= 1 /\ loop' = f /\ at' = 1 /\ best' = data[1] /\ function' = f
        /\ data' = data /\ sample' = sample /\ n' = n
    BY <1>1, <1>3 DEF Loop, Call, n
  <2>2. OfSample(sample, data, f, returned', f)
    BY <1>1, <2>1, DataIsSeq, LoopIsNoAnswer
  <2>3. LoopsRun'
    <3>1. 1 \in 1 .. n /\ data[1] \in Int /\ \A b \in 1 .. 1 : b = 1
      BY <2>1, DataIsSeq
    <3>2. QED
      BY <2>1, <3>1 DEF LoopsRun, MeanRuns, VarRuns, MinRuns, MaxRuns, ModeRuns
  <2>4. QED
    BY <1>1, <2>1, <2>2, <2>3, DataIsSeq DEF StatInv
<1>4. QED
  BY <1>2, <1>3 DEF Seeks

LEMMA SortedIs ==
  ASSUME StatInv, qsort
  PROVE  data' \in Rearrangements(sample) /\ InOrder(data') /\ Len(data') = n
<1>1. data' \in Rearrangements(data) /\ InOrder(data')
  BY DEF qsort
<1>2. data' \in Rearrangements(sample)
  BY <1>1, DataIsSeq, RearrangedTwice
<1>3. Len(data') = Len(data)
  BY <1>1, DataIsSeq, RearrangedRange
<1>4. QED
  BY <1>1, <1>2, <1>3 DEF n

LEMMA MedianKeeps ==
  ASSUME StatInv, mpac_stats_median
  PROVE  StatInv'
<1>1. Call("median")
  BY DEF mpac_stats_median
<1>2. CASE Fail
  BY <1>1, <1>2, FailKeeps
<1>3. CASE n >= 1 /\ qsort /\ returned' = Median(data') /\ UNCHANGED <<loop, locals>>
  <2>1. /\ loop = "none" /\ loop' = "none" /\ function' = "median" /\ sample' = sample
        /\ returned' = Median(data') /\ n >= 1
    BY <1>1, <1>3 DEF Call
  <2>2. data' \in Rearrangements(sample) /\ InOrder(data') /\ Len(data') = n
    BY <1>3, SortedIs
  <2>3. Len(sample) = n
    BY DataIsSeq, RearrangedRange
  <2>4. IsMedian(sample, Median(data'))
    BY <2>1, <2>2, <2>3, DataIsSeq, MedianFound
  <2>5. RightAnswer(sample, "median", returned')
    BY <2>1, <2>4 DEF RightAnswer
  <2>6. OfSample(sample, data', "median", returned', "none")
    BY <2>1, <2>2, <2>5, DataIsSeq, AnswerIsOfSample
  <2>7. LoopsRun'
    BY <2>1 DEF LoopsRun, MeanRuns, VarRuns, MinRuns, MaxRuns, ModeRuns
  <2>8. QED
    BY <2>1, <2>2, <2>6, <2>7, DataIsSeq DEF StatInv
<1>4. QED
  BY <1>2, <1>3 DEF mpac_stats_median

LEMMA ModeKeeps ==
  ASSUME StatInv, mpac_stats_mode
  PROVE  StatInv'
<1>1. Call("mode")
  BY DEF mpac_stats_mode
<1>2. CASE Fail
  BY <1>1, <1>2, FailKeeps
<1>3. CASE /\ Loop("mode", 1) /\ qsort
           /\ best' = data'[1] /\ current' = data'[1] /\ cfreq' = 1 /\ freq' = 1
           /\ UNCHANGED <<returned, sums>>
  <2>1. /\ loop' = "mode" /\ function' = "mode" /\ sample' = sample /\ n >= 1 /\ at' = 1
        /\ best' = data'[1] /\ current' = data'[1] /\ cfreq' = 1 /\ freq' = 1
    BY <1>1, <1>3 DEF Call, Loop
  <2>2. data' \in Rearrangements(sample) /\ InOrder(data') /\ Len(data') = n /\ n' = n
    BY <1>3, SortedIs DEF n
  <2>3. data' \in Seq(Int)
    BY <2>2, DataIsSeq, RearrangedRange
  <2>4. ModeOf(data', 1, data'[1], 1, data'[1], 1)
    BY <2>1, <2>2, <2>3, ModeBegins
  <2>5. 1 \in 1 .. n
    BY <2>1, DataIsSeq
  <2>6. OfSample(sample, data', "mode", returned', "mode")
    BY <2>1, <2>2, DataIsSeq, LoopIsNoAnswer
  <2>7. LoopsRun'
    BY <2>1, <2>2, <2>4, <2>5 DEF LoopsRun, MeanRuns, VarRuns, MinRuns, MaxRuns, ModeRuns
  <2>8. QED
    BY <2>1, <2>2, <2>6, <2>7, DataIsSeq DEF StatInv
<1>4. QED
  BY <1>2, <1>3 DEF mpac_stats_mode

(* A turn of a loop.                                                       *)
LEMMA TurnIs ==
  ASSUME StatInv, NEW l, l # "none", Turn(l)
  PROVE  /\ loop = l /\ loop' = l /\ at < n /\ at' = at + 1 /\ n >= 1 /\ next = data[at + 1]
         /\ data' = data /\ sample' = sample /\ n' = n
         /\ function' = function /\ function # "none" /\ returned' = returned
         /\ OfSample(sample, data, function, returned', l)
<1>1. /\ loop = l /\ loop' = l /\ at < n /\ at' = at + 1 /\ next = data[at + 1]
      /\ data' = data /\ sample' = sample /\ n' = n
      /\ function' = function /\ returned' = returned
  BY DEF Turn, n, next
<1>2. function # "none" /\ n >= 1
  BY <1>1 DEF StatInv
<1>3. OfSample(sample, data, function, returned', l)
  BY <1>2, DataIsSeq, LoopIsNoAnswer
<1>4. QED
  BY <1>1, <1>2, <1>3

LEMMA SumTurnKeeps ==
  ASSUME StatInv, AddNext \/ AddDistance
  PROVE  StatInv'
<1>1. CASE AddNext
  <2>1. Turn("mean") /\ sum' = sum + next
    BY <1>1 DEF AddNext
  <2>2. /\ loop = "mean" /\ loop' = "mean" /\ at < n /\ at' = at + 1 /\ n >= 1
        /\ next = data[at + 1]
        /\ data' = data /\ sample' = sample /\ n' = n /\ function' = function
        /\ function # "none" /\ returned' = returned
        /\ OfSample(sample, data, function, returned', "mean")
    BY <2>1, TurnIs
  <2>3. function \in {"mean", "var"} /\ at \in 0 .. n /\ sum = Sums(data)[at]
    BY <2>2 DEF StatInv, LoopsRun, MeanRuns
  <2>4. at \in 0 .. n - 1 /\ at + 1 \in 0 .. n
    BY <2>2, <2>3, DataIsSeq
  <2>5. sum' = Sums(data)[at + 1]
    BY <2>1, <2>2, <2>3, <2>4, DataIsSeq, SumsAre
  <2>6. LoopsRun'
    BY <2>2, <2>3, <2>4, <2>5 DEF LoopsRun, MeanRuns, VarRuns, MinRuns, MaxRuns, ModeRuns
  <2>7. QED
    BY <2>2, <2>6, DataIsSeq DEF StatInv
<1>2. CASE AddDistance
  <2>1. Turn("var") /\ sum' = sum + (n * next - mean) * (n * next - mean) /\ mean' = mean
    BY <1>2 DEF AddDistance
  <2>2. /\ loop = "var" /\ loop' = "var" /\ at < n /\ at' = at + 1 /\ n >= 1
        /\ next = data[at + 1]
        /\ data' = data /\ sample' = sample /\ n' = n /\ function' = function
        /\ function # "none" /\ returned' = returned
        /\ OfSample(sample, data, function, returned', "var")
    BY <2>1, TurnIs
  <2>3. /\ function = "var" /\ at \in 0 .. n /\ mean = Sum(data)
        /\ sum = Distances(data, at, mean)
    BY <2>2 DEF StatInv, LoopsRun, VarRuns
  <2>4. at \in 0 .. n - 1 /\ at + 1 \in 0 .. n
    BY <2>2, <2>3, DataIsSeq
  <2>5. mean \in Int
    <3>1. Sum(data) \in Int
      BY DataIsSeq, SumsAre
    <3>2. QED
      BY <2>3, <3>1
  <2>6. Distances(data, at + 1, mean)
          = Distances(data, at, mean) + (n * data[at + 1] - mean) * (n * data[at + 1] - mean)
    BY <2>4, <2>5, DataIsSeq, DistanceAdded
  <2>7. sum' = Distances(data, at + 1, mean)
    BY <2>1, <2>2, <2>3, <2>6, Zenon
  <2>8. LoopsRun'
    BY <2>1, <2>2, <2>3, <2>4, <2>7 DEF LoopsRun, MeanRuns, VarRuns, MinRuns, MaxRuns, ModeRuns
  <2>9. QED
    BY <2>2, <2>8, DataIsSeq DEF StatInv
<1>3. QED
  BY <1>1, <1>2

LEMMA PickKeeps ==
  ASSUME StatInv, Pick("min", next < best) \/ Pick("max", next > best)
  PROVE  StatInv'
<1> DEFINE Grown == /\ at + 1 \in 1 .. n /\ at + 1 \in 1 .. at + 1
                    /\ \A b \in 1 .. at + 1 : b \in 1 .. at \/ b = at + 1
                    /\ \A b \in 1 .. at : b \in 1 .. at + 1
                    /\ \A b \in 1 .. at + 1 : data[b] \in Int
<1>1. ASSUME at \in 1 .. n, at < n PROVE Grown
  BY <1>1, DataIsSeq
<1>2. CASE Pick("min", next < best)
  <2>1. Turn("min") /\ best' = (IF next < best THEN next ELSE best)
    BY <1>2 DEF Pick
  <2>2. /\ loop = "min" /\ loop' = "min" /\ at < n /\ at' = at + 1 /\ n >= 1
        /\ next = data[at + 1]
        /\ data' = data /\ sample' = sample /\ n' = n /\ function' = function
        /\ function # "none" /\ returned' = returned
        /\ OfSample(sample, data, function, returned', "min")
    BY <2>1, TurnIs
  <2>3. /\ function = "min" /\ at \in 1 .. n
        /\ \E b \in 1 .. at : best = data[b]
        /\ \A b \in 1 .. at : best <= data[b]
    BY <2>2 DEF StatInv, LoopsRun, MinRuns
  <2>4. Grown
    BY <1>1, <2>2, <2>3
  <2>5. \E b \in 1 .. at + 1 : best' = data[b]
    BY <2>1, <2>2, <2>3, <2>4
  <2>6. \A b \in 1 .. at + 1 : best' <= data[b]
    <3>1. best \in Int /\ data[at + 1] \in Int
      BY <2>3, <2>4
    <3>2. best' <= best /\ best' <= data[at + 1] /\ best' \in Int
      BY <2>1, <2>2, <3>1
    <3>3. QED
      BY <2>3, <2>4, <3>1, <3>2
  <2> HIDE DEF Grown
  <2>7. LoopsRun'
    <3>1. at + 1 \in 1 .. n
      BY <2>4 DEF Grown
    <3>2. QED
      BY <2>2, <2>3, <2>5, <2>6, <3>1 DEF LoopsRun, MeanRuns, VarRuns, MinRuns, MaxRuns, ModeRuns
  <2>8. QED
    BY <2>2, <2>7, DataIsSeq DEF StatInv
<1>3. CASE Pick("max", next > best)
  <2>1. Turn("max") /\ best' = (IF next > best THEN next ELSE best)
    BY <1>3 DEF Pick
  <2>2. /\ loop = "max" /\ loop' = "max" /\ at < n /\ at' = at + 1 /\ n >= 1
        /\ next = data[at + 1]
        /\ data' = data /\ sample' = sample /\ n' = n /\ function' = function
        /\ function # "none" /\ returned' = returned
        /\ OfSample(sample, data, function, returned', "max")
    BY <2>1, TurnIs
  <2>3. /\ function = "max" /\ at \in 1 .. n
        /\ \E b \in 1 .. at : best = data[b]
        /\ \A b \in 1 .. at : best >= data[b]
    BY <2>2 DEF StatInv, LoopsRun, MaxRuns
  <2>4. Grown
    BY <1>1, <2>2, <2>3
  <2>5. \E b \in 1 .. at + 1 : best' = data[b]
    BY <2>1, <2>2, <2>3, <2>4
  <2>6. \A b \in 1 .. at + 1 : best' >= data[b]
    <3>1. best \in Int /\ data[at + 1] \in Int
      BY <2>3, <2>4
    <3>2. best' >= best /\ best' >= data[at + 1] /\ best' \in Int
      BY <2>1, <2>2, <3>1
    <3>3. QED
      BY <2>3, <2>4, <3>1, <3>2
  <2> HIDE DEF Grown
  <2>7. LoopsRun'
    <3>1. at + 1 \in 1 .. n
      BY <2>4 DEF Grown
    <3>2. QED
      BY <2>2, <2>3, <2>5, <2>6, <3>1 DEF LoopsRun, MeanRuns, VarRuns, MinRuns, MaxRuns, ModeRuns
  <2>8. QED
    BY <2>2, <2>7, DataIsSeq DEF StatInv
<1>4. QED
  BY <1>2, <1>3

LEMMA CountKeeps ==
  ASSUME StatInv, CountNext
  PROVE  StatInv'
<1>1. /\ Turn("mode")
      /\ current' = next /\ cfreq' = (IF next # current THEN 1 ELSE cfreq + 1)
      /\ IF cfreq' > freq THEN best' = next /\ freq' = cfreq' ELSE best' = best /\ freq' = freq
  BY DEF CountNext, LongerRun
<1>2. /\ loop = "mode" /\ loop' = "mode" /\ at < n /\ at' = at + 1 /\ n >= 1
      /\ next = data[at + 1]
      /\ data' = data /\ sample' = sample /\ n' = n /\ function' = function
      /\ function # "none" /\ returned' = returned
      /\ OfSample(sample, data, function, returned', "mode")
  BY <1>1, TurnIs
<1>3. /\ function = "mode" /\ at \in 1 .. n /\ InOrder(data) /\ current = data[at]
      /\ ModeOf(data, at, data[at], cfreq, best, freq)
  BY <1>2 DEF StatInv, LoopsRun, ModeRuns
<1>4. at \in Nat /\ at >= 1 /\ at < Len(data) /\ at + 1 \in 1 .. n
  BY <1>2, <1>3, DataIsSeq
<1>5. LET x == data[at + 1]
          c == IF x # data[at] THEN 1 ELSE cfreq + 1
      IN IF c > freq THEN ModeOf(data, at + 1, x, c, x, c)
                     ELSE ModeOf(data, at + 1, x, c, best, freq)
  BY <1>3, <1>4, DataIsSeq, ModeGoesOn
<1>6. ModeOf(data, at + 1, current', cfreq', best', freq') /\ current' = data[at + 1]
  BY <1>1, <1>2, <1>3, <1>5
<1>7. LoopsRun'
  BY <1>2, <1>3, <1>4, <1>6 DEF LoopsRun, MeanRuns, VarRuns, MinRuns, MaxRuns, ModeRuns
<1>8. QED
  BY <1>2, <1>7, DataIsSeq DEF StatInv

(* The end of a loop: mean goes back to var, or the function returns.      *)
LEMMA EndKeeps ==
  ASSUME StatInv, MeanOfVar \/ ResultReturns
  PROVE  StatInv'
<1>1. CASE MeanOfVar
  <2>1. /\ loop = "mean" /\ at >= n /\ function = "var" /\ mean' = sum /\ sum' = 0
        /\ loop' = "var" /\ at' = 0 /\ n >= 1
        /\ data' = data /\ sample' = sample /\ n' = n /\ function' = function
    BY <1>1 DEF MeanOfVar, LoopEnds, Loop, n
  <2>2. at \in 0 .. n /\ sum = Sums(data)[at]
    BY <2>1 DEF StatInv, LoopsRun, MeanRuns
  <2>3. mean' = Sum(data)
    <3>1. at = n
      BY <2>1, <2>2, DataIsSeq
    <3>2. QED
      BY <2>1, <2>2, <3>1, DataIsSeq, SumsAre
  <2>4. 0 \in 0 .. n /\ Distances(data, 0, mean') = 0
    <3>1. Sums(data)[0] = 0 /\ Sum(data) \in Int
      BY DataIsSeq, SumsAre
    <3>2. Sums(Squared(data))[0] = 0
      BY DataIsSeq, SquaredIs, SumsAre
    <3>3. QED
      BY <2>3, <3>1, <3>2, DataIsSeq DEF Distances
  <2>5. OfSample(sample, data, function, returned', "var")
    BY <2>1, DataIsSeq, LoopIsNoAnswer
  <2>6. LoopsRun'
    BY <2>1, <2>3, <2>4 DEF LoopsRun, MeanRuns, VarRuns, MinRuns, MaxRuns, ModeRuns
  <2>7. QED
    BY <2>1, <2>5, <2>6, DataIsSeq DEF StatInv
<1>2. CASE ResultReturns
  <2>1. PICK l \in {"mean", "var", "min", "max", "mode"} : LoopEnds(l) /\ function = l
    BY <1>2 DEF ResultReturns
  <2>2. /\ loop = l /\ function = l /\ at >= n /\ loop' = "none" /\ n >= 1
        /\ returned' = (IF function \in {"mean", "var"} THEN sum ELSE best)
        /\ data' = data /\ sample' = sample /\ n' = n /\ function' = function
    BY <1>2, <2>1 DEF ResultReturns, LoopEnds, n, StatInv
  <2>3. Len(data) >= 1 /\ n = Len(data) /\ n \in Nat
    BY <2>2, DataIsSeq
  <2>4. ASSUME l = "mean" PROVE RightAnswer(sample, l, returned')
    <3>1. at \in 0 .. n /\ sum = Sums(data)[at]
      BY <2>2, <2>4 DEF StatInv, LoopsRun, MeanRuns
    <3>2. at = n
      BY <2>2, <2>3, <3>1
    <3>3. sum = Sum(data)
      BY <2>3, <3>1, <3>2, DataIsSeq, SumsAre
    <3>4. returned' = Sum(sample)
      BY <2>2, <2>4, <3>3, DataIsSeq, RearrangedSums
    <3>5. QED
      BY <2>4, <3>4 DEF RightAnswer
  <2>5. ASSUME l = "var" PROVE RightAnswer(sample, l, returned')
    <3>1. at \in 0 .. n /\ mean = Sum(data) /\ sum = Distances(data, at, mean)
      BY <2>2, <2>5 DEF StatInv, LoopsRun, VarRuns
    <3>2. at = Len(data)
      BY <2>2, <2>3, <3>1
    <3>3. IsVar(sample, returned')
      BY <2>2, <2>5, <3>1, <3>2, DataIsSeq, VarFound
    <3>4. QED
      BY <2>5, <3>3 DEF RightAnswer
  <2>6. ASSUME l = "min" PROVE RightAnswer(sample, l, returned')
    <3>1. /\ at \in 1 .. n
          /\ \E b \in 1 .. at : best = data[b]
          /\ \A b \in 1 .. at : best <= data[b]
      BY <2>2, <2>6 DEF StatInv, LoopsRun, MinRuns
    <3>2. at = Len(data)
      BY <2>2, <2>3, <3>1
    <3>3. IsLeast(sample, best)
      BY <3>1, <3>2, DataIsSeq, LeastFound
    <3>4. QED
      BY <2>2, <2>6, <3>3 DEF RightAnswer
  <2>7. ASSUME l = "max" PROVE RightAnswer(sample, l, returned')
    <3>1. /\ at \in 1 .. n
          /\ \E b \in 1 .. at : best = data[b]
          /\ \A b \in 1 .. at : best >= data[b]
      BY <2>2, <2>7 DEF StatInv, LoopsRun, MaxRuns
    <3>2. at = Len(data)
      BY <2>2, <2>3, <3>1
    <3>3. IsGreatest(sample, best)
      BY <3>1, <3>2, DataIsSeq, GreatestFound
    <3>4. QED
      BY <2>2, <2>7, <3>3 DEF RightAnswer
  <2>8. ASSUME l = "mode" PROVE RightAnswer(sample, l, returned')
    <3>1. at \in 1 .. n /\ ModeOf(data, at, data[at], cfreq, best, freq)
      BY <2>2, <2>8 DEF StatInv, LoopsRun, ModeRuns
    <3>2. at = Len(data)
      BY <2>2, <2>3, <3>1
    <3>3. IsMode(sample, best)
      BY <3>1, <3>2, DataIsSeq, ModeFound
    <3>4. QED
      BY <2>2, <2>8, <3>3 DEF RightAnswer
  <2>9. RightAnswer(sample, l, returned')
    BY <2>4, <2>5, <2>6, <2>7, <2>8
  <2>10. OfSample(sample, data, l, returned', "none")
    BY <2>3, <2>9, DataIsSeq, AnswerIsOfSample
  <2>11. LoopsRun'
    BY <2>2 DEF LoopsRun, MeanRuns, VarRuns, MinRuns, MaxRuns, ModeRuns
  <2>12. QED
    BY <2>2, <2>10, <2>11, DataIsSeq DEF StatInv
<1>3. QED
  BY <1>1, <1>2

LEMMA StatStep == StatInv /\ SNext => StatInv'
<1> SUFFICES ASSUME StatInv, SNext PROVE StatInv'
  OBVIOUS
<1>1. CASE mpac_stats_mean
  BY <1>1, AddsKeeps DEF mpac_stats_mean
<1>2. CASE mpac_stats_var
  BY <1>2, AddsKeeps DEF mpac_stats_var
<1>3. CASE mpac_stats_min
  BY <1>3, SeeksKeeps DEF mpac_stats_min
<1>4. CASE mpac_stats_max
  BY <1>4, SeeksKeeps DEF mpac_stats_max
<1>5. CASE mpac_stats_median \/ mpac_stats_mode
  BY <1>5, MedianKeeps, ModeKeeps
<1>6. CASE AddNext \/ AddDistance
  BY <1>6, SumTurnKeeps
<1>7. CASE Pick("min", next < best) \/ Pick("max", next > best)
  BY <1>7, PickKeeps
<1>8. CASE CountNext
  BY <1>8, CountKeeps
<1>9. CASE MeanOfVar \/ ResultReturns
  BY <1>9, EndKeeps
<1>10. QED
  BY <1>1, <1>2, <1>3, <1>4, <1>5, <1>6, <1>7, <1>8, <1>9 DEF SNext

LEMMA InitStat ==
  ASSUME NEW many, NEW numbers \in Seq(Int), SInit(many, numbers)
  PROVE  StatInv
<1>1. /\ sample = numbers /\ data = numbers /\ function = "none" /\ returned = 0 /\ loop = "none"
  BY DEF SInit
<1>2. numbers \in Rearrangements(numbers)
  <2> DEFINE p == [k \in 1 .. Len(numbers) |-> k]
  <2>1. Permutes(p, Len(numbers))
    BY DEF Permutes
  <2>2. numbers = [k \in 1 .. Len(numbers) |-> numbers[p[k]]]
    OBVIOUS
  <2>3. \E q : Permutes(q, Len(numbers)) /\ numbers = [k \in 1 .. Len(numbers) |-> numbers[q[k]]]
    <3> HIDE DEF p
    <3>1. QED
      BY <2>1, <2>2
  <2>4. QED
    BY <2>3, RearrangedBy
<1>3. OfSample(numbers, numbers, "none", 0, "none")
  BY <1>2, SameAsBefore DEF OfSample, RightAnswer
<1>4. LoopsRun
  BY <1>1 DEF LoopsRun, MeanRuns, VarRuns, MinRuns, MaxRuns, ModeRuns
<1>5. QED
  BY <1>1, <1>2, <1>3, <1>4 DEF StatInv

(* However many functions are called in whatever order, each returns what  *)
(* its name says of the numbers the array held at first, although median   *)
(* and mode have rearranged it.                                            *)
THEOREM StatsAreOfSample == VSpec => []StatsOfSample
<1>1. VInit => StatInv
  <2> SUFFICES ASSUME VInit PROVE StatInv
    OBVIOUS
  <2>1. CASE job.kind = "stats"
    <3>1. job.arg \in Seq(Int)
      BY <2>1, JobsAssumption DEF VInit
    <3>2. SInit(0, job.arg)
      BY <2>1 DEF VInit
    <3>3. QED
      BY <3>1, <3>2, InitStat
  <2>2. CASE job.kind # "stats"
    <3>1. SInit(MaxCalls, <<>>) /\ <<>> \in Seq(Int)
      BY <2>2 DEF VInit
    <3>2. QED
      BY <3>1, InitStat
  <2>3. QED
    BY <2>1, <2>2
<1>2. StatInv /\ [VNext]_vars => StatInv'
  <2> SUFFICES ASSUME StatInv, [VNext]_vars PROVE StatInv'
    OBVIOUS
  <2>1. CASE SNext
    BY <2>1, StatStep
  <2>2. CASE UNCHANGED svars
    BY <2>2 DEF svars, locals, sums, runs, StatInv, LoopsRun, MeanRuns, VarRuns, MinRuns,
                MaxRuns, ModeRuns, n
  <2>3. QED
    BY <2>1, <2>2 DEF VNext, UsesFile, FileGrows, Measures, InitReturns, Computes, Stop, vars
<1>3. StatInv => StatsOfSample
  BY StatsOfSampleIs DEF StatInv
<1>4. QED
  BY <1>1, <1>2, <1>3, PTL DEF VSpec
=============================================================================
