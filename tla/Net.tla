-------------------------------- MODULE Net ---------------------------------
(***************************************************************************)
(* The network benchmark, benchmarks/net: a sender program with num_thrs   *)
(* threads and a receiver program, connected by TCP or UDP, for a number   *)
(* of messages (torm = "M") or until an alarm ("T").  Both programs are    *)
(* started with the same options, the receiver first.                      *)
(*                                                                         *)
(* A message is sent and received as a whole; a TCP connection is known by *)
(* the sender thread that opened its socket, and holds up to SockBuf       *)
(* messages on the way.  The sender's descriptors are modelled, since the  *)
(* operating system gives a number that is closed to the next socket that  *)
(* is opened.                                                              *)
(* Measured times, the report and the messages' contents are left out.     *)
(***************************************************************************)
EXTENDS Integers, Sequences, FiniteSets

CONSTANTS
  num_thrs,   (* -l, of both programs                                       *)
  Setups,     (* protocol, mode and number of messages: -t, -e, -m          *)
  SockBuf,    (* how many messages a connection or a socket holds           *)
  MaxTimed    (* bound: before the alarm a timed thread sends fewer         *)

Thread == 0 .. num_thrs - 1

ASSUME NetAssumption ==
  /\ num_thrs \in Nat \ {0} /\ SockBuf \in Nat \ {0}
  /\ MaxTimed \in [Thread -> Nat \ {0}]
  /\ Setups \subseteq [protocol_num : {"TCP", "UDP"}, torm : {"M", "T"},
                       num_msg : Nat \ {0}]

None == -1

VARIABLES
  opts,
  mpac_net_msgcount, sigflag,        \* globals of the sender
  spc, message_count,                \* its threads: place, messages to send
  fd, files,                         \* h->fd; which connection a number is
  connected,                         \* the sockets that are connections,
  backlog, accepted,                 \* before and after accept
  unread,                            \* messages on the way, per connection
                                     \* (TCP) or receiving socket (UDP)
  rflag, rpc, msgcount, exited,      \* the receiver and its threads
  sent, lost, cut                    \* history: datagrams sent; whether one
                                     \* was lost; sockets closed by a
                                     \* thread that had not opened them

sender == <<mpac_net_msgcount, sigflag, spc, message_count, fd, files>>
receiver == <<accepted, rflag, rpc, msgcount, exited>>
network == <<connected, backlog, unread>>
history == <<sent, lost, cut>>
nvars == <<opts, sender, receiver, network, history>>

Tcp == opts.protocol_num = "TCP"
Timed == opts.torm = "T"

(* With UDP and a message count, main itself is the only receiver.         *)
Receiving == IF Tcp \/ Timed THEN Thread ELSE {0}

NInit ==
  /\ opts \in Setups
  /\ mpac_net_msgcount = opts.num_msg
  /\ sigflag = FALSE /\ rflag = FALSE /\ exited = FALSE
  /\ spc = [t \in Thread |-> "start"]
  /\ rpc = [t \in Thread |-> IF t \in Receiving THEN "start" ELSE "done"]
  /\ message_count = [t \in Thread |-> 0] /\ msgcount = [t \in Thread |-> 0]
  /\ fd = [t \in Thread |-> None] /\ files = [d \in Thread |-> None]
  /\ connected = {} /\ backlog = <<>> /\ accepted = <<>>
  /\ unread = [c \in Thread |-> 0]
  /\ sent = 0 /\ lost = FALSE /\ cut = {}

Go(t, place) == spc' = [spc EXCEPT ![t] = place]

-----------------------------------------------------------------------------
(* The four sender routines.                                               *)

(* What the thread has to send.  A UDP thread only looks whether there is  *)
(* anything left.                                                          *)
Share ==
  IF Timed THEN 0 ELSE IF Tcp THEN mpac_net_msgcount \div num_thrs
  ELSE mpac_net_msgcount

Start(t) ==
  /\ spc[t] = "start"
  /\ message_count' = [message_count EXCEPT ![t] = Share]
  /\ Go(t, "open")
  /\ UNCHANGED <<opts, mpac_net_msgcount, sigflag, fd, files, receiver, network, history>>

(* A thread that has nothing to send goes past its loop.                   *)
BeginLoop(t, place) == Go(t, IF ~Timed /\ message_count[t] <= 0 THEN "close" ELSE place)

(* mpac_io_tcp_open_sender: socket takes the least free number, ...        *)
OpenSocket(t) ==
  /\ Tcp /\ spc[t] = "open"
  /\ \E d \in Thread :
       /\ files[d] = None /\ \A e \in 0 .. d - 1 : files[e] # None
       /\ fd' = [fd EXCEPT ![t] = d]
       /\ files' = [files EXCEPT ![d] = t]
  /\ Go(t, "connect")
  /\ UNCHANGED <<opts, mpac_net_msgcount, sigflag, message_count, network, receiver, history>>

(* ... and connect connects what that number is by now, if it is anything  *)
(* (EBADF) and not connected already (EISCONN); nobody looks at the        *)
(* result.  The connection waits for accept.                               *)
Connect(t) ==
  /\ spc[t] = "connect"
  /\ LET c == files[fd[t]] IN
       IF c # None /\ c \notin connected
       THEN connected' = connected \cup {c} /\ backlog' = Append(backlog, c)
       ELSE UNCHANGED <<connected, backlog>>
  /\ BeginLoop(t, "send")
  /\ UNCHANGED <<opts, mpac_net_msgcount, sigflag, message_count, fd, files, unread, receiver, history>>

(* UDP: sockets without a connection, of which each thread keeps its own.  *)
Open(t) ==
  /\ ~Tcp /\ spc[t] = "open"
  /\ BeginLoop(t, IF Timed THEN "send" ELSE "count")
  /\ UNCHANGED <<opts, mpac_net_msgcount, sigflag, message_count, fd, files, network, receiver, history>>

(* UDP with a count: getmc, without the lock.                              *)
Count(t) ==
  /\ spc[t] = "count"
  /\ message_count' = [message_count EXCEPT ![t] = mpac_net_msgcount]
  /\ Go(t, IF mpac_net_msgcount <= 0 THEN "close" ELSE "send")
  /\ UNCHANGED <<opts, mpac_net_msgcount, sigflag, fd, files, receiver, network, history>>

(* The count after decrementmc, which locks.  (Slip: it writes back one    *)
(* less than what the thread has read before.)                             *)
DecrementOfRead(t) == message_count[t] - 1

Decremented(t) == mpac_net_msgcount - 1

Decrement(t) ==
  /\ spc[t] = "dec"
  /\ mpac_net_msgcount' = Decremented(t)
  /\ Go(t, "count")
  /\ UNCHANGED <<opts, sigflag, message_count, fd, files, receiver, network, history>>

(* The end of a turn of a timed loop: count, and look at the flag.         *)
TimedTurn(t) ==
  /\ sigflag \/ message_count[t] + 1 < MaxTimed[t]
  /\ message_count' = [message_count EXCEPT ![t] = @ + 1]
  /\ Go(t, IF sigflag THEN "close" ELSE "send")

(* A datagram reaches one of the sockets bound to the port, or none.  (A   *)
(* timed thread tries again at once if the call fails; with a count, a     *)
(* failed call is as good as a lost datagram.)                             *)
SendDatagram(t) ==
  /\ ~Tcp /\ spc[t] = "send"
  /\ IF Timed THEN TimedTurn(t) ELSE Go(t, "dec") /\ UNCHANGED message_count
  /\ \/ \E r \in Receiving :
          /\ rpc[r] = "recv" /\ unread[r] < SockBuf
          /\ unread' = [unread EXCEPT ![r] = @ + 1]
          /\ UNCHANGED lost
     \/ lost' = TRUE /\ UNCHANGED unread
  /\ sent' = IF Timed THEN sent ELSE sent + 1
  /\ UNCHANGED <<opts, mpac_net_msgcount, sigflag, fd, files, receiver, connected, backlog, cut>>

(* The end of a turn of a TCP loop, whether or not the write failed.       *)
WriteReturns(t) ==
  IF Timed THEN TimedTurn(t)
  ELSE /\ message_count' = [message_count EXCEPT ![t] = @ - 1]
       /\ Go(t, IF message_count[t] = 1 THEN "close" ELSE "send")

(* The receiving end of a connection is closed.                            *)
Gone(c) ==
  \/ exited
  \/ ~Timed /\ \E r \in Thread :
       r < Len(accepted) /\ accepted[r + 1] = c /\ rpc[r] = "done"

HasRoom(c) == unread[c] < SockBuf

(* Writing blocks while the connection is full.  The number may be closed  *)
(* by now (EBADF); the receiver may be gone, or the number may be a socket *)
(* without a connection: an error, or SIGPIPE, which ends the program.     *)
Write(t) ==
  /\ Tcp /\ spc[t] = "send"
  /\ LET c == files[fd[t]] IN
       \/ /\ c \in connected /\ ~Gone(c) /\ HasRoom(c)
          /\ unread' = [unread EXCEPT ![c] = @ + 1]
          /\ WriteReturns(t)
          /\ UNCHANGED files
       \/ /\ c \notin connected \/ Gone(c)
          /\ WriteReturns(t)
          /\ UNCHANGED <<unread, files>>
       \/ /\ c # None /\ (c \notin connected \/ Gone(c))
          /\ spc' = [u \in Thread |-> "killed"]
          /\ files' = [d \in Thread |-> None]
          /\ UNCHANGED <<message_count, unread>>
  /\ UNCHANGED <<opts, mpac_net_msgcount, sigflag, fd, receiver, connected, backlog, history>>

(* close(h->fd): whatever that number is by now.                           *)
CloseDescriptor(t) ==
  /\ files' = [files EXCEPT ![fd[t]] = None]
  /\ cut' = cut \cup ({files[fd[t]]} \ {t, None})

(* mpac_io_tcp_close, or mpac_io_udp_close, which shuts down but does not  *)
(* close; tcpsender (not the timed one) then closes once more.             *)
Close(t) ==
  /\ spc[t] = "close"
  /\ IF Tcp THEN CloseDescriptor(t) ELSE UNCHANGED <<files, cut>>
  /\ Go(t, IF Tcp /\ ~Timed THEN "close again" ELSE "done")
  /\ UNCHANGED <<opts, mpac_net_msgcount, sigflag, message_count, fd, receiver, network, sent, lost>>

CloseAgain(t) ==
  /\ spc[t] = "close again"
  /\ CloseDescriptor(t)
  /\ Go(t, "done")
  /\ UNCHANGED <<opts, mpac_net_msgcount, sigflag, message_count, fd, receiver, network, sent, lost>>

(* SIGALRM: mpac_net_setsigflag runs in one of the threads.  If that one   *)
(* is blocked in a write, the write fails with EINTR, its loop counts it   *)
(* and sees the flag.                                                      *)
Alarm ==
  /\ Timed
  /\ sigflag' = TRUE
  /\ \/ UNCHANGED <<spc, message_count>>
     \/ \E t \in Thread :
          /\ Tcp /\ spc[t] = "send"
          /\ files[fd[t]] \in connected /\ ~Gone(files[fd[t]]) /\ ~HasRoom(files[fd[t]])
          /\ message_count' = [message_count EXCEPT ![t] = @ + 1]
          /\ Go(t, "close")
  /\ UNCHANGED <<opts, mpac_net_msgcount, fd, files, receiver, network, history>>

SenderThread(t) ==
  \/ Start(t) \/ OpenSocket(t) \/ Connect(t) \/ Open(t) \/ Count(t) \/ SendDatagram(t)
  \/ Decrement(t) \/ Write(t) \/ Close(t) \/ CloseAgain(t)

-----------------------------------------------------------------------------
(* The receiver.  With TCP, main accepts a connection for each thread      *)
(* before it starts them.                                                  *)

Accept ==
  /\ Tcp /\ Len(accepted) < num_thrs /\ backlog # <<>>
  /\ accepted' = Append(accepted, Head(backlog))
  /\ backlog' = Tail(backlog)
  /\ UNCHANGED <<opts, sender, rflag, rpc, msgcount, exited, connected, unread, history>>

(* (Slip: it waits for one connection more than there are threads.)        *)
OneMoreAccepted == Tcp => Len(accepted) = num_thrs + 1

AllAccepted == Tcp => Len(accepted) = num_thrs

RGo(r, place) == rpc' = [rpc EXCEPT ![r] = place]

(* The receiver's own count is never changed.  (Slip: each thread waits    *)
(* for all the messages.)                                                  *)
AllToReceive == IF Timed THEN 0 ELSE opts.num_msg

ToReceive ==
  IF Timed THEN 0 ELSE IF Tcp THEN opts.num_msg \div num_thrs ELSE opts.num_msg

StartReceiver(r) ==
  /\ AllAccepted /\ rpc[r] = "start"
  /\ msgcount' = [msgcount EXCEPT ![r] = ToReceive]
  /\ RGo(r, IF Timed \/ ToReceive > 0 THEN "recv" ELSE "close")
  /\ UNCHANGED <<opts, sender, accepted, rflag, exited, network, history>>

Channel(r) == IF Tcp THEN accepted[r + 1] ELSE r

(* The end of a receiving loop.                                            *)
LastTurn(r) == rflag \/ msgcount[r] = 1

(* The thread gets a message; a timed one then looks at the flag.  There   *)
(* is no step for read returning 0 at the end of a connection: its loop    *)
(* asks again, for ever.                                                   *)
Receive(r) ==
  /\ rpc[r] = "recv" /\ unread[Channel(r)] > 0
  /\ unread' = [unread EXCEPT ![Channel(r)] = @ - 1]
  /\ msgcount' = [msgcount EXCEPT ![r] = IF Timed THEN @ ELSE @ - 1]
  /\ RGo(r, IF LastTurn(r) THEN "close" ELSE "recv")
  /\ UNCHANGED <<opts, sender, accepted, rflag, exited, connected, backlog, history>>

CloseReceiver(r) ==
  /\ rpc[r] = "close"
  /\ RGo(r, "done")
  /\ UNCHANGED <<opts, sender, accepted, rflag, msgcount, exited, network, history>>

(* No thread of the sender has the connection open any more.               *)
Ended(c) == \A d \in Thread : files[d] # c

(* The receiver's timer is set when its threads are about to start.  The   *)
(* signal interrupts a thread that blocks in recvfrom or in read, but not  *)
(* one whose connection has ended: its reads do not block.                 *)
ReceiverAlarm ==
  /\ Timed /\ AllAccepted
  /\ rflag' = TRUE
  /\ \/ UNCHANGED rpc
     \/ \E r \in Thread :
          /\ rpc[r] = "recv" /\ unread[Channel(r)] = 0
          /\ Tcp => ~Ended(Channel(r))
          /\ RGo(r, "close")
  /\ UNCHANGED <<opts, sender, accepted, msgcount, exited, network, history>>

(* main has joined all threads, cleans up and exits.                       *)
Exit ==
  /\ ~exited /\ \A r \in Thread : rpc[r] = "done"
  /\ exited' = TRUE
  /\ UNCHANGED <<opts, sender, accepted, rflag, rpc, msgcount, network, history>>

ReceiverThread(r) == StartReceiver(r) \/ Receive(r) \/ CloseReceiver(r)

NNext ==
  \/ \E t \in Thread : SenderThread(t) \/ ReceiverThread(t)
  \/ Alarm \/ Accept \/ ReceiverAlarm \/ Exit

NSpec == NInit /\ [][NNext]_nvars

(* No more than this: the two programs do not stand still as long as one  *)
(* of their threads, or the receiver's main in accept, can go on.          *)
NFairSpec ==
  NSpec /\ WF_nvars(Accept \/ \E t \in Thread : SenderThread(t) \/ ReceiverThread(t))

-----------------------------------------------------------------------------
SendersDone == \A t \in Thread : spc[t] \in {"done", "killed"}

(* The UDP threads share a count that they read without the lock that      *)
(* protects its decrement, and send in between.  All the same they send no *)
(* fewer datagrams than asked for, and at most one more for each thread    *)
(* but one.                                                                *)
SentInBounds ==
  ~Tcp /\ ~Timed =>
    /\ sent <= opts.num_msg + num_thrs - 1
    /\ SendersDone => sent >= opts.num_msg

Killed == \E t \in Thread : spc[t] = "killed"

(* Sockets that another thread closed before they were connected: tcp-     *)
(* sender closes its descriptor twice, and in between the number may have  *)
(* become that of another thread, which is about to connect it.            *)
Unmade == cut \ connected

NoMoreConnections ==
  backlog = <<>> /\ \A t \in Thread : spc[t] \notin {"start", "open", "connect"}

(* A receiver that counts waits for ever for a message that does not come  *)
(* only if a datagram was lost, if its connection was closed by another    *)
(* thread of the sender, or if SIGPIPE has ended the sender, which takes a *)
(* socket that was closed in this way: its thread writes into the one that *)
(* has the number next, which is not connected, or whose receiver then has *)
(* all its messages before they have been written.  And main waits for     *)
(* ever for a connection only if a socket was closed before it was one, or *)
(* if SIGPIPE has ended the sender in this way before all were made.       *)
StarvesOnlyAfterMishap ==
  /\ \A r \in Thread :
       /\ ~Timed /\ rpc[r] = "recv" /\ unread[Channel(r)] = 0
       /\ IF Tcp THEN Ended(Channel(r)) ELSE SendersDone
       => IF Tcp THEN accepted[r + 1] \in cut \/ (Killed /\ cut # {}) ELSE lost
  /\ ~AllAccepted /\ NoMoreConnections => Unmade # {} \/ (Killed /\ cut # {})

(* Senders that count come to their end, though with TCP they depend on a  *)
(* receiver that reads, unless a socket was closed before it was           *)
(* connected: then the receiver waits for one connection more, reads       *)
(* nothing, and a sender may wait for room for ever.                       *)
CountingSendersEnd == ~Timed => <>(SendersDone \/ Unmade # {})
=============================================================================
