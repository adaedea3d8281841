---------------------------- MODULE OutgoingQueue ----------------------------
(***************************************************************************)
(* How packets get from write_packet() to the wire: the outgoing queue,    *)
(* which is appended to without the lock and replaced by every _connect(), *)
(* the forced writes, the networking thread's write loop, and the flush    *)
(* of disconnect().  A packet reaches the socket in two sends, its length  *)
(* and its body.                                                           *)
(*                                                                         *)
(* ConnectionThreads shows that at most one networking thread runs, so one *)
(* actor, Net, plays them all: it serves one connection after the other.   *)
(* Connections are numbered; number g has queue g and socket g.  What an   *)
(* exception or exit handler does counts as done by an application thread. *)
(*                                                                         *)
(* Outgoing listeners are called before and after a packet is sent, by its *)
(* sender, which holds the lock.  The lock is re-entrant: a listener may   *)
(* write, disconnect and connect itself, and the packet in hand goes to    *)
(* the socket that is installed when it returns.  The listeners of what a  *)
(* listener writes do no more than return or raise, and an exception is    *)
(* caught by no listener.                                                  *)
(***************************************************************************)
EXTENDS Naturals, Sequences

CONSTANTS
    Writers,        \* application threads
    MaxConnections, \* bound on connect()
    MaxPackets,     \* bound on calls of write_packet()
    MaxReentries,   \* bound on the calls that outgoing listeners make
    Burst,          \* packets the networking thread writes in one go (300)
    ReadLimit       \* packets after which it does not read on (50)

ASSUME BoundsAssumption ==
    /\ MaxConnections \in Nat /\ MaxPackets \in Nat /\ MaxReentries \in Nat
    /\ Burst \in Nat \ {0} /\ ReadLimit \in 1..Burst

\* The networking thread, the free lock and the sender of handshakes are no
\* application threads.
ASSUME WritersAssumption == Writers \cap {"net", "none", "handshake"} = {}

VARIABLES
    lock,        \* owner of _write_lock, or "none"
    pc,          \* where an actor is
    queue,       \* queue[g]: the deque created for connection g
    attr,        \* the deque that _outgoing_packet_queue refers to (0: unset)
    socket,      \* the connection whose socket is installed (0: None)
    up,          \* the newest thread is not interrupted
    broken,      \* sockets on which a send raises
    wire,        \* wire[g]: the sends on socket g
    item,        \* the packet an actor is about to append or is sending
    loaded,      \* the deque it has loaded to append to
    count,       \* calls of write_packet() so far, which number the packets
    serving,     \* the connection whose networking thread runs
    num_packets, \* packets of this round of its loop
    write_error, \* it has kept an IOError of the write loop in exc_info
    appended,    \* history: the packets that were appended to a queue,
    lost,        \* those that a listener or a failing send cost, and those
    carried,     \* in the hand of a sender whose listener made a connection
    reentry,     \* what a listener of the lock's owner does: "none",
                 \* "flush" or "close" (it disconnects), "open" or "start"
                 \* (it connects), or "raised" (that raised)
    reentries    \* calls of listeners so far

link    == <<attr, socket, up>>
held    == <<item, loaded>>
netVars == <<serving, num_packets, write_error>>
nested  == <<reentry, reentries>>
history == <<appended, lost, carried>>
vars    == <<lock, pc, queue, link, broken, wire, held, count, netVars,
             history, nested>>

Net == "net"
Actors == Writers \cup {Net}
Connections == 1..MaxConnections

\* 'asked' records the connection that was installed when write_packet was
\* called.  The handshake stands for all that connect() writes itself.
NoPacket == [by |-> "none", n |-> 0, forced |-> FALSE, asked |-> 0]
Packets == [by : Actors \cup {"handshake"}, n : 0..MaxPackets,
            forced : BOOLEAN, asked : 0..MaxConnections]
Sends == [part : {"length", "body"}, packet : Packets]
Handshake(g) == [by |-> "handshake", n |-> 0, forced |-> FALSE, asked |-> g]

Init ==
    /\ lock = "none"
    /\ pc = [a \in Actors |-> "idle"]
    /\ queue = [g \in Connections |-> <<>>]
    /\ attr = 0 /\ socket = 0 /\ up = FALSE
    /\ broken = {}
    /\ wire = [g \in Connections |-> <<>>]
    /\ item = [a \in Actors |-> NoPacket]
    /\ loaded = [a \in Actors |-> 0]
    /\ count = 0
    /\ serving = 0 /\ num_packets = 0 /\ write_error = FALSE
    /\ appended = {} /\ lost = {} /\ carried = {}
    /\ reentry = "none" /\ reentries = 0

Goto(a, l) == pc' = [pc EXCEPT ![a] = l]

\* Application threads write, connect and disconnect; the networking thread
\* does so while it reacts to a packet.
Home(a) == IF a = Net THEN "react" ELSE "idle"
Free(a) == pc[a] = Home(a)
Raises(a) == Goto(a, IF a = Net THEN "failed" ELSE "idle")

Acquire(a) == lock = "none" /\ lock' = a
Release == lock' = "none"

\* Before and after a packet is sent its listeners are called.
Early == {"force_early", "drain_early", "flush_early"}
Late == {"force_late", "drain_late", "flush_late"}
Listening == Early \cup Late

\* The packet that has left the queue, or is forced, and is not sent yet.
Hand(a) == {item[a]} \ {NoPacket}

\* The listeners return, or raise IgnorePacket, when they do nothing; else
\* an exception of theirs, or of what they do, is passed on.
Heard == reentry = "none"
Raised ==
    reentry \in {"none", "raised"} /\ reentry' = "none" /\ UNCHANGED reentries

------------------------------------------------------------------------------
(* write_packet and Packet.write.                                           *)

NextPacket(a, force) ==
    [by |-> a, n |-> count + 1, forced |-> force, asked |-> attr]

\* Unforced, the queue attribute is loaded; forced, the lock is next.
WritePacket(a) ==
    /\ Free(a)
    /\ attr # 0
    /\ count < MaxPackets
    /\ \E force \in BOOLEAN :
          /\ item' = [item EXCEPT ![a] = NextPacket(a, force)]
          /\ loaded' = [loaded EXCEPT ![a] = IF force THEN 0 ELSE attr]
          /\ Goto(a, IF force THEN "force" ELSE "append")
    /\ count' = count + 1
    /\ UNCHANGED <<lock, queue, link, broken, wire, netVars, history, nested>>

\* deque.append, on the deque that was loaded.
AppendPacket(a) ==
    /\ pc[a] = "append"
    /\ queue' = [queue EXCEPT ![loaded[a]] = Append(@, item[a])]
    /\ appended' = appended \cup {item[a]}
    /\ item' = [item EXCEPT ![a] = NoPacket]
    /\ loaded' = [loaded EXCEPT ![a] = 0]
    /\ Goto(a, Home(a))
    /\ UNCHANGED <<lock, link, broken, wire, count, netVars, lost, carried,
                   nested>>

CanSend == socket # 0 /\ socket \notin broken

Send(part, p) ==
    /\ CanSend
    /\ wire' = [wire EXCEPT
                   ![socket] = Append(@, [part |-> part, packet |-> p])]

SendLength(a) == Send("length", item[a]) /\ UNCHANGED item
Take(a, p) == item' = [item EXCEPT ![a] = p]
Drop(a) == item' = [item EXCEPT ![a] = NoPacket]
SendBody(a) == Send("body", item[a]) /\ Drop(a)

\* Faulty variant: a forced write does not wait for the lock.
ForcedTakeUnlocked(a) ==
    /\ pc[a] = "force"
    /\ Goto(a, "force_early")
    /\ UNCHANGED <<lock, queue, link, broken, wire, held, count, netVars,
                   history, nested>>

\* A forced write holds the lock for the whole packet.
ForcedTake(a) ==
    /\ pc[a] = "force"
    /\ Acquire(a)
    /\ Goto(a, "force_early")
    /\ UNCHANGED <<queue, link, broken, wire, held, count, netVars, history,
                   nested>>

ForcedLength(a) ==
    /\ pc[a] = "force_early" /\ Heard
    /\ SendLength(a)
    /\ Goto(a, "force_body")
    /\ UNCHANGED <<lock, queue, link, broken, loaded, count, netVars, history,
                   nested>>

ForcedBody(a) ==
    /\ pc[a] = "force_body"
    /\ SendBody(a)
    /\ Goto(a, "force_late")
    /\ UNCHANGED <<lock, queue, link, broken, loaded, count, netVars, history,
                   nested>>

\* The packet is sent, or a listener has it ignored.
ForcedDone(a) ==
    /\ pc[a] \in {"force_early", "force_late"} /\ Heard
    /\ Drop(a)
    /\ Release
    /\ Goto(a, Home(a))
    /\ UNCHANGED <<queue, link, broken, wire, loaded, count, netVars, history,
                   nested>>

\* A listener or a send raises, or there is no socket: so does write_packet.
ForcedFails(a) ==
    /\ \/ pc[a] \in {"force_early", "force_late"} /\ Raised
       \/ pc[a] = "force_body" /\ ~CanSend /\ UNCHANGED nested
    /\ Drop(a)
    /\ Release
    /\ Raises(a)
    /\ UNCHANGED <<queue, link, broken, wire, loaded, count, netVars, history>>

\* Faulty variant of _pop_packet: the packet is left in the queue.
PopKeeps == queue[attr] # <<>> /\ UNCHANGED queue

\* _pop_packet: the oldest packet leaves the queue before it is written.
Pop ==
    /\ queue[attr] # <<>>
    /\ queue' = [queue EXCEPT ![attr] = Tail(@)]

Oldest == Head(queue[attr])

------------------------------------------------------------------------------
(* The networking thread: _run.                                             *)

\* The thread of the installed connection starts, or takes over from the
\* last one, which has ended.
NetStart ==
    /\ pc[Net] = "idle"
    /\ up
    /\ serving # socket
    /\ serving' = socket
    /\ Goto(Net, "top")
    /\ UNCHANGED <<lock, queue, link, broken, wire, held, count, num_packets,
                   write_error, history, nested>>

Interrupted == ~up \/ serving # socket

NetTop ==
    /\ pc[Net] = "top"
    /\ \/ Interrupted /\ Goto(Net, "idle") /\ UNCHANGED lock
       \/ ~Interrupted /\ Acquire(Net) /\ Goto(Net, "drain")
    /\ num_packets' = 0
    /\ write_error' = FALSE
    /\ UNCHANGED <<queue, link, broken, wire, held, count, serving, history,
                   nested>>

\* Faulty variant: one packet too many.
NetTakeOver ==
    /\ pc[Net] = "drain" /\ ~Interrupted
    /\ num_packets <= Burst
    /\ Pop
    /\ Take(Net, Oldest)
    /\ Goto(Net, "drain_early")
    /\ UNCHANGED <<lock, link, broken, wire, loaded, count, netVars, history,
                   nested>>

NetTake ==
    /\ pc[Net] = "drain" /\ ~Interrupted
    /\ num_packets < Burst
    /\ Pop
    /\ Take(Net, Oldest)
    /\ Goto(Net, "drain_early")
    /\ UNCHANGED <<lock, link, broken, wire, loaded, count, netVars, history,
                   nested>>

NetLength ==
    /\ pc[Net] = "drain_early" /\ Heard
    /\ SendLength(Net)
    /\ Goto(Net, "drain_body")
    /\ UNCHANGED <<lock, queue, link, broken, loaded, count, netVars, history,
                   nested>>

NetBody ==
    /\ pc[Net] = "drain_body"
    /\ SendBody(Net)
    /\ Goto(Net, "drain_late")
    /\ UNCHANGED <<lock, queue, link, broken, loaded, count, netVars, history,
                   nested>>

\* The packet is sent, or a listener has it ignored.
NetDone ==
    /\ pc[Net] \in {"drain_early", "drain_late"} /\ Heard
    /\ lost' = lost \cup Hand(Net)
    /\ Drop(Net)
    /\ num_packets' = num_packets + 1
    /\ Goto(Net, "drain")
    /\ UNCHANGED <<lock, queue, link, broken, wire, loaded, count, serving,
                   write_error, appended, carried, nested>>

\* A send or a listener raises: a packet that was not sent is lost.  An
\* IOError is kept until packets have been read; any other exception ends
\* the thread, as when a listener has left it no socket.
NetWriteRaises ==
    /\ \/ /\ pc[Net] \in {"drain_early", "drain_late"} /\ Raised
          /\ write_error' \in BOOLEAN
       \/ /\ pc[Net] = "drain_body" /\ ~CanSend /\ UNCHANGED nested
          /\ write_error' = TRUE
    /\ lost' = lost \cup Hand(Net)
    /\ Drop(Net)
    /\ Release
    /\ Goto(Net, IF write_error' THEN "read" ELSE "failed")
    /\ UNCHANGED <<queue, link, broken, wire, loaded, count, serving,
                   num_packets, appended, carried>>

\* The queue is empty, the burst is over, or a listener has interrupted the
\* thread; then packets are read.
NetDrained ==
    /\ pc[Net] = "drain"
    /\ queue[attr] = <<>> \/ num_packets = Burst \/ Interrupted
    /\ Release
    /\ Goto(Net, "read")
    /\ UNCHANGED <<queue, link, broken, wire, held, count, netVars, history,
                   nested>>

\* Faulty variant: it reads for as long as packets arrive.
NetReadUnlimited ==
    /\ pc[Net] = "read"
    /\ ~Interrupted
    /\ Goto(Net, "react")
    /\ UNCHANGED <<lock, queue, link, broken, wire, held, count, netVars,
                   history, nested>>

\* A packet arrives and is reacted to.
NetRead ==
    /\ pc[Net] = "read"
    /\ num_packets < ReadLimit
    /\ ~Interrupted
    /\ num_packets' = num_packets + 1
    /\ Goto(Net, "react")
    /\ UNCHANGED <<lock, queue, link, broken, wire, held, count, serving,
                   write_error, history, nested>>

\* Only a part of a packet arrives: there is no timeout for the rest, and
\* the end of the stream is not noticed.
NetStuck ==
    /\ pc[Net] = "read"
    /\ num_packets < ReadLimit
    /\ ~Interrupted
    /\ num_packets' = num_packets + 1
    /\ Goto(Net, "stuck")
    /\ UNCHANGED <<lock, queue, link, broken, wire, held, count, serving,
                   write_error, history, nested>>

NetRestArrives ==
    /\ pc[Net] = "stuck"
    /\ Goto(Net, "react")
    /\ UNCHANGED <<lock, queue, link, broken, wire, held, count, netVars,
                   history, nested>>

\* The stream was closed, and reading on raises.
NetStuckRaises ==
    /\ pc[Net] = "stuck"
    /\ serving # socket
    /\ Goto(Net, "failed")
    /\ UNCHANGED <<lock, queue, link, broken, wire, held, count, netVars,
                   history, nested>>

\* The reaction ends; a "disconnect" packet makes it forget a write error.
NetReacted ==
    /\ pc[Net] = "react"
    /\ write_error' \in {write_error, FALSE}
    /\ Goto(Net, "read")
    /\ UNCHANGED <<lock, queue, link, broken, wire, held, count, serving,
                   num_packets, history, nested>>

\* No packet arrives in time, or enough were read: the write error is raised
\* if there is one; reading itself may raise as well.
NetReadDone ==
    /\ pc[Net] = "read"
    /\ \/ ~write_error /\ Goto(Net, "top")
       \/ write_error /\ Goto(Net, "failed")
       \/ num_packets < ReadLimit /\ ~Interrupted /\ Goto(Net, "failed")
    /\ UNCHANGED <<lock, queue, link, broken, wire, held, count, netVars,
                   history, nested>>

\* The except clause of run interrupts the thread.
NetFailed ==
    /\ pc[Net] = "failed"
    /\ up' = (up /\ serving # socket)
    /\ Goto(Net, "handled")
    /\ UNCHANGED <<lock, queue, attr, socket, broken, wire, held, count,
                   netVars, history, nested>>

\* The end of _handle_exception: unless the newest thread is up, whatever
\* connection there is then is closed, without a flush.
NetCheck ==
    /\ pc[Net] = "handled"
    /\ Goto(Net, IF up THEN "idle" ELSE "cleanup")
    /\ UNCHANGED <<lock, queue, link, broken, wire, held, count, netVars,
                   history, nested>>

NetCleanup ==
    /\ pc[Net] = "cleanup"
    /\ lock = "none"
    /\ socket' = 0
    /\ up' = FALSE
    /\ Goto(Net, "idle")
    /\ UNCHANGED <<lock, queue, attr, broken, wire, held, count, netVars,
                   history, nested>>

------------------------------------------------------------------------------
(* connect: a new deque, a new socket, the handshake, the thread.           *)

\* Faulty variant: the queue of the last connection is kept.
ConnectKeepsQueue(a) ==
    /\ Free(a)
    /\ ~up
    /\ attr < MaxConnections
    /\ Acquire(a)
    /\ attr' = attr + 1
    /\ queue' = IF attr = 0 THEN queue
                           ELSE [queue EXCEPT ![attr + 1] = queue[attr]]
    /\ Goto(a, "c_open")
    /\ UNCHANGED <<socket, up, broken, wire, held, count, netVars, history,
                   nested>>

ConnectQueue(a) ==
    /\ Free(a)
    /\ ~up
    /\ attr < MaxConnections
    /\ Acquire(a)
    /\ attr' = attr + 1
    /\ Goto(a, "c_open")
    /\ UNCHANGED <<queue, socket, up, broken, wire, held, count, netVars,
                   history, nested>>

\* The address is not resolved, which leaves the old socket in place, or the
\* new socket is not connected, and of no use.
ConnectFails(a) ==
    /\ pc[a] = "c_open"
    /\ socket' \in {socket, 0}
    /\ Release
    /\ Raises(a)
    /\ UNCHANGED <<queue, attr, up, broken, wire, held, count, netVars,
                   history, nested>>

\* The socket is connected, and the handshake appended by write_packet.
ConnectHandshake(a) ==
    /\ pc[a] = "c_open"
    /\ socket' = attr
    /\ queue' = [queue EXCEPT ![attr] = Append(@, Handshake(attr))]
    /\ Goto(a, "c_start")
    /\ UNCHANGED <<lock, attr, up, broken, wire, held, count, netVars, history,
                   nested>>

ConnectStart(a) ==
    /\ pc[a] = "c_start"
    /\ up' = TRUE
    /\ Release
    /\ Goto(a, Home(a))
    /\ UNCHANGED <<queue, attr, socket, broken, wire, held, count, netVars,
                   history, nested>>

------------------------------------------------------------------------------
(* disconnect: flush, interrupt, close; an immediate one does not flush.    *)
(* With no socket it changes nothing here: no thread is up then.            *)

Disconnect(a) ==
    /\ Free(a)
    /\ socket # 0
    /\ Acquire(a)
    /\ \E l \in {"flush", "close"} : Goto(a, l)
    /\ UNCHANGED <<queue, link, broken, wire, held, count, netVars, history,
                   nested>>

FlushTake(a) ==
    /\ pc[a] = "flush"
    /\ Pop
    /\ Take(a, Oldest)
    /\ Goto(a, "flush_early")
    /\ UNCHANGED <<lock, link, broken, wire, loaded, count, netVars, history,
                   nested>>

FlushLength(a) ==
    /\ pc[a] = "flush_early" /\ Heard
    /\ SendLength(a)
    /\ Goto(a, "flush_body")
    /\ UNCHANGED <<lock, queue, link, broken, loaded, count, netVars, history,
                   nested>>

FlushBody(a) ==
    /\ pc[a] = "flush_body"
    /\ SendBody(a)
    /\ Goto(a, "flush_late")
    /\ UNCHANGED <<lock, queue, link, broken, loaded, count, netVars, history,
                   nested>>

\* The packet is sent, or a listener has it ignored.
FlushDone(a) ==
    /\ pc[a] \in {"flush_early", "flush_late"} /\ Heard
    /\ lost' = lost \cup Hand(a)
    /\ Drop(a)
    /\ Goto(a, "flush")
    /\ UNCHANGED <<lock, queue, link, broken, wire, loaded, count, netVars,
                   appended, carried, nested>>

\* A listener or a send raises, or a listener has closed the socket: the
\* flush raises, and does not interrupt or close what connection there is.
FlushFails(a) ==
    /\ \/ pc[a] \in {"flush_early", "flush_late"} /\ Raised
       \/ pc[a] = "flush_body" /\ ~CanSend /\ UNCHANGED nested
    /\ lost' = lost \cup Hand(a)
    /\ Drop(a)
    /\ Release
    /\ Raises(a)
    /\ UNCHANGED <<queue, link, broken, wire, loaded, count, netVars, appended,
                   carried>>

\* Faulty variant: the flush stops before the queue is empty.
DisconnectUnflushed(a) ==
    /\ pc[a] \in {"flush", "close"}
    /\ up' = FALSE
    /\ socket' = 0
    /\ Release
    /\ Goto(a, Home(a))
    /\ UNCHANGED <<queue, attr, broken, wire, held, count, netVars, history,
                   nested>>

DisconnectClose(a) ==
    /\ \/ pc[a] = "flush" /\ queue[attr] = <<>>
       \/ pc[a] = "close"
    /\ up' = FALSE
    /\ socket' = 0
    /\ Release
    /\ Goto(a, Home(a))
    /\ UNCHANGED <<queue, attr, broken, wire, held, count, netVars, history,
                   nested>>

------------------------------------------------------------------------------
(* What an outgoing listener may call, with the lock held by its caller.    *)

Listens(a) == pc[a] \in Listening /\ lock = a

Reenters(a) ==
    /\ Listens(a) /\ Heard
    /\ reentries < MaxReentries
    /\ reentries' = reentries + 1

\* Both sends of a packet.
SendWhole(p) ==
    /\ CanSend
    /\ wire' = [wire EXCEPT
                   ![socket] = @ \o <<[part |-> "length", packet |-> p],
                                      [part |-> "body", packet |-> p]>>]

ListenerWrites(a) ==
    /\ Reenters(a)
    /\ count < MaxPackets
    /\ \/ /\ queue' = [queue EXCEPT ![attr] = Append(@, NextPacket(a, FALSE))]
          /\ appended' = appended \cup {NextPacket(a, FALSE)}
          /\ UNCHANGED wire
       \/ SendWhole(NextPacket(a, TRUE)) /\ UNCHANGED <<queue, appended>>
    /\ count' = count + 1
    /\ UNCHANGED <<lock, pc, link, broken, held, netVars, lost, carried,
                   reentry>>

ListenerDisconnects(a) ==
    /\ Reenters(a)
    /\ socket # 0
    /\ reentry' \in {"flush", "close"}
    /\ UNCHANGED <<lock, pc, queue, link, broken, wire, held, count, netVars,
                   history>>

\* disconnect, in a listener: a packet of the queue is sent or ignored.
ListenerFlushes(a) ==
    /\ Listens(a) /\ reentry = "flush"
    /\ Pop
    /\ \/ SendWhole(Oldest) /\ UNCHANGED lost
       \/ lost' = lost \cup {Oldest} /\ UNCHANGED wire
    /\ UNCHANGED <<lock, pc, link, broken, held, count, netVars, appended,
                   carried, nested>>

ListenerCloses(a) ==
    /\ Listens(a)
    /\ \/ reentry = "flush" /\ queue[attr] = <<>>
       \/ reentry = "close"
    /\ up' = FALSE
    /\ socket' = 0
    /\ reentry' = "none"
    /\ UNCHANGED <<lock, pc, queue, attr, broken, wire, held, count, netVars,
                   history, reentries>>

\* connect, in a listener.
ListenerConnects(a) ==
    /\ Reenters(a)
    /\ ~up
    /\ attr < MaxConnections
    /\ attr' = attr + 1
    /\ reentry' = "open"
    /\ UNCHANGED <<lock, pc, queue, socket, up, broken, wire, held, count,
                   netVars, history>>

\* From here on the packet in hand goes to the new connection.
ListenerHandshakes(a) ==
    /\ Listens(a) /\ reentry = "open"
    /\ socket' = attr
    /\ queue' = [queue EXCEPT ![attr] = Append(@, Handshake(attr))]
    /\ carried' = carried \cup Hand(a)
    /\ reentry' = "start"
    /\ UNCHANGED <<lock, pc, attr, up, broken, wire, held, count, netVars,
                   appended, lost, reentries>>

ListenerStarts(a) ==
    /\ Listens(a) /\ reentry = "start"
    /\ up' = TRUE
    /\ reentry' = "none"
    /\ UNCHANGED <<lock, pc, queue, attr, socket, broken, wire, held, count,
                   netVars, history, reentries>>

\* What the listener called raises: connect as in ConnectFails, disconnect
\* as in FlushFails.
ListenerFails(a) ==
    /\ Listens(a)
    /\ \/ reentry = "open" /\ socket' \in {socket, 0}
          /\ UNCHANGED <<queue, lost>>
       \/ reentry = "flush" /\ Pop /\ lost' = lost \cup {Oldest}
          /\ UNCHANGED socket
    /\ reentry' = "raised"
    /\ UNCHANGED <<lock, pc, attr, up, broken, wire, held, count, netVars,
                   appended, carried, reentries>>

------------------------------------------------------------------------------
\* The peer closes its end: later sends raise.
PeerCloses ==
    /\ socket # 0
    /\ broken' = broken \cup {socket}
    /\ UNCHANGED <<lock, pc, queue, link, wire, held, count, netVars, history,
                   nested>>

Call(a) ==
    \/ WritePacket(a) \/ ConnectQueue(a) \/ Disconnect(a)
    \/ ListenerWrites(a) \/ ListenerDisconnects(a) \/ ListenerConnects(a)

ActorStep(a) ==
    \/ AppendPacket(a)
    \/ ForcedTake(a) \/ ForcedLength(a) \/ ForcedBody(a) \/ ForcedDone(a)
    \/ ForcedFails(a)
    \/ ConnectFails(a) \/ ConnectHandshake(a) \/ ConnectStart(a)
    \/ FlushTake(a) \/ FlushLength(a) \/ FlushBody(a) \/ FlushDone(a)
    \/ FlushFails(a) \/ DisconnectClose(a)
    \/ ListenerFlushes(a) \/ ListenerCloses(a) \/ ListenerHandshakes(a)
    \/ ListenerStarts(a) \/ ListenerFails(a)

NetStep ==
    \/ NetStart \/ NetTop \/ NetTake \/ NetLength \/ NetBody \/ NetDone
    \/ NetWriteRaises \/ NetDrained \/ NetRead \/ NetStuck \/ NetStuckRaises
    \/ NetReacted \/ NetReadDone \/ NetFailed \/ NetCheck \/ NetCleanup

Next ==
    \/ \E a \in Actors : Call(a) \/ ActorStep(a)
    \/ NetStep
    \/ NetRestArrives
    \/ PeerCloses

Spec == Init /\ [][Next]_vars

\* Whoever is in the middle of something goes on, and the lock, which is
\* released again and again, is not kept from the networking thread for ever.
\* The rest of a packet of which a part has arrived may never come.
LiveSpec ==
    /\ Spec
    /\ \A a \in Actors : SF_vars(ActorStep(a))
    /\ SF_vars(NetStep)

------------------------------------------------------------------------------
(* Properties.                                                              *)

Labels == {"idle", "append", "force", "force_body", "top", "drain",
           "drain_body", "read", "stuck", "react", "failed", "handled",
           "cleanup", "c_open", "c_start", "flush", "flush_body", "close"}
          \cup Listening

\* The variables have their types; in particular num_packets stays within a
\* burst (641-665).
TypeOK ==
    /\ lock \in Actors \cup {"none"}
    /\ pc \in [Actors -> Labels]
    /\ queue \in [Connections -> Seq(Packets)]
    /\ attr \in 0..MaxConnections
    /\ socket \in 0..MaxConnections
    /\ up \in BOOLEAN
    /\ broken \subseteq Connections
    /\ wire \in [Connections -> Seq(Sends)]
    /\ item \in [Actors -> Packets \cup {NoPacket}]
    /\ loaded \in [Actors -> 0..MaxConnections]
    /\ count \in 0..MaxPackets
    /\ serving \in 0..MaxConnections
    /\ num_packets \in 0..Burst
    /\ write_error \in BOOLEAN
    /\ reentry \in {"none", "flush", "close", "open", "start", "raised"}

Sent(g) == {i \in DOMAIN wire[g] : wire[g][i].part = "body"}

\* Every length is followed by its body, except at the end.
Framed(w) ==
    \A i \in DOMAIN w :
        IF w[i].part = "length"
        THEN i < Len(w) => w[i + 1].part = "body"
        ELSE i > 1 /\ w[i - 1] = [w[i] EXCEPT !.part = "length"]

\* Whoever writes - forced, from the loop, or in a flush - no other packet
\* gets between the two sends of one (packet.py 95-96, under _write_lock).
FramesIntact == \A g \in Connections : Framed(wire[g])

\* Of two unforced packets of one thread, the first was written first; two
\* handshakes are those of different connections.
Earlier(p, q) ==
    p.by = q.by /\ ~p.forced /\ ~q.forced =>
        p.n < q.n \/ (p.n = q.n /\ p.asked < q.asked)

\* The unforced packets of one thread leave in the order in which it wrote
\* them, and none of them twice, although the loop and the flushes of
\* several threads take turns at the queue (339-352), and an early listener
\* may flush it or reconnect with an older packet in hand (358-359).
InOrderOnce ==
    \A g \in Connections : \A i, j \in Sent(g) :
        i < j => Earlier(wire[g][i].packet, wire[g][j].packet)

\* A packet that was queued before a connection was made is never sent on
\* it, whatever is left in the queues of connections that failed (469, 482),
\* and though the socket is read only after the early listeners (358-364):
\* unless the connection was made by such a listener of that very packet.
\* The reverse can happen: what is queued after a connect() that could not
\* resolve its address goes to the old socket if that is flushed.
NoCrossTalk ==
    \A g \in Connections : \A i \in Sent(g) :
        LET p == wire[g][i].packet
        IN  ~p.forced /\ p \notin carried => p.asked >= g

\* A disconnect() that flushes and closes a connection leaves nothing unsent
\* that its caller had queued for it, but for packets that a listener or a
\* failing send cost, whoever took them from the queue (496-499).
FlushedOnReturn ==
    [][\A a \in Actors :
          pc[a] = "flush" /\ socket = attr /\ socket # 0 /\ socket' = 0
          => \A p \in appended : p.by = a /\ p.asked = socket =>
                \/ p \in lost
                \/ \E i \in Sent(socket) : wire[socket][i].packet = p]_vars

\* What is queued for a connection that stays up is taken from the queue in
\* the end: neither a full burst, nor reads, nor forced writes, nor appends
\* by others keep the loop from it (636-665).  Only a server that never sends
\* the rest of a packet does, for it is waited for without a timeout.
QueuedIsSent ==
    \/ <>[](pc[Net] = "stuck")
    \/ \A g \in Connections :
          (queue[g] # <<>> /\ up /\ socket = g)
              ~> (queue[g] = <<>> \/ ~up \/ socket # g)

------------------------------------------------------------------------------
(* Claims that the code does not keep.                                      *)

\* tests/fake_server.py 303-305: the first packet of a connection "assert
\* isinstance(packet, serverbound.handshake.HandShakePacket)" (a packet that
\* is forced is meant to overtake others, and is left aside here).
HandshakeFirst ==
    \A g \in Connections :
        wire[g] # <<>> => \/ wire[g][1].packet.forced
                          \/ wire[g][1].packet = Handshake(g)
==============================================================================
