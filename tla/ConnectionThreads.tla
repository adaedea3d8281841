-------------------------- MODULE ConnectionThreads --------------------------
(***************************************************************************)
(* The life cycle of minecraft.networking.connection.Connection: the write *)
(* lock, the two thread slots 'networking_thread' and                      *)
(* 'new_networking_thread', and the steps that application threads         *)
(* (connect, status, disconnect) and networking threads (run, _run,        *)
(* _react, _handle_exception) take on them, in the order of the code.      *)
(*                                                                         *)
(* A successful connect() creates one socket and one networking thread;    *)
(* the model names both with the same member of Threads.  Code under the   *)
(* write lock is one step unless an unlocked reader can see its middle.    *)
(* The contents of the outgoing queue and of the byte stream are left to   *)
(* other modules: here a flush may fail, and a read yields any packet the  *)
(* bound reactor knows, an end of file, or nothing.  The listeners of      *)
(* outgoing packets run under the write lock, which is re-entrant, and may *)
(* call connect() and disconnect() there: from the write loop ("w_held")   *)
(* and from the flush of a disconnect ("d_held").  In the flush of a       *)
(* disconnect that such a listener calls they do not call again; those of  *)
(* a forced packet take the lock and give it back, as a plain call does.   *)
(***************************************************************************)
EXTENDS Naturals

CONSTANTS
    Users,      \* application threads that share the Connection object
    Threads,    \* networking threads, each with the socket it is started for
    NoThread,   \* Python's None in the thread slots, and the free lock
    OutgoingCalls   \* the methods that listeners of outgoing packets call

\* Users, Threads and the special values are told apart.
ASSUME ActorsAssumption ==
    /\ Users \cap Threads = {}
    /\ NoThread \notin Users \cup Threads
    /\ Threads \cap {"unset", "gone", "unconnected"} = {}
    /\ OutgoingCalls \subseteq {"connect", "disconnect"}

VARIABLES
    lock,                   \* owner of _write_lock
    networking_thread, new_networking_thread,
    interrupt,              \* NetworkingThread.interrupt
    previous_thread,        \* NetworkingThread.previous_thread
    connected,              \* Connection.connected
    socket, file_object,    \* "unset" before the first connect(), "gone" = None
    open,                   \* sockets whose client end has not been closed
    reactor,                \* class of the reactor, connection it serves
    narrowed,               \* allowed_proto_versions has exactly one member
    pc, ret,                \* where an actor is; where its current call returns
    outer,                  \* where the disconnect returns in whose flush it is
    bound, stream, packet,  \* operands of the read in progress and its result
    write_error             \* exc_info in _run

slots  == <<lock, networking_thread, new_networking_thread>>
locals == <<bound, stream, packet, write_error>>
conn   == <<connected, socket, file_object, open, reactor, narrowed>>
vars   == <<slots, interrupt, previous_thread, conn, pc, ret, outer, locals>>

Actors == Users \cup Threads

\* PlayingStatusReactor, StatusReactor, LoginReactor, PlayingReactor (the
\* configuration state reacts to a disconnect as the play state does).
ReactorKinds == {"negotiate", "status", "login", "play"}
Reactors == [kind : ReactorKinds \cup {"base"}, for : Threads \cup {NoThread}]
NoReactor == [kind |-> "base", for |-> NoThread]

\* The packets a reactor tells apart, once parsed by its packet table.
Parses(kind) ==
    CASE kind \in {"negotiate", "status"} -> {"response", "other"}
      [] kind = "login" -> {"disconnect", "login success", "other"}
      [] kind = "play"  -> {"disconnect", "other"}
      [] OTHER          -> {"other"}
PacketNames == {"response", "disconnect", "login success", "other"}
Packets == [name : PacketNames, from : Threads]
NoPacket == [name |-> "other", from |-> NoThread]

NoCall == [ok |-> "idle", bad |-> "idle"]
\* connect() called by handle_proto_version, from handle_status (1016, 1008)
\* and from the EOFError handler (1030).
Negotiate == [ok |-> "late", bad |-> "raised"]
Recover   == [ok |-> "finally", bad |-> "handlers"]
\* A listener's call under the lock; an exception is the listener's to catch.
FromLoop  == [ok |-> "w_held", bad |-> "w_held"]
FromFlush == [ok |-> "d_held", bad |-> "d_held"]

Init ==
    /\ lock = NoThread
    /\ networking_thread = NoThread
    /\ new_networking_thread = NoThread
    /\ interrupt = [t \in Threads |-> FALSE]
    /\ previous_thread = [t \in Threads |-> NoThread]
    /\ connected = FALSE
    /\ socket = "unset"
    /\ file_object = "unset"
    /\ open = {}
    /\ reactor = NoReactor
    /\ narrowed \in BOOLEAN
    /\ pc = [a \in Actors |-> IF a \in Users THEN "idle" ELSE "unborn"]
    /\ ret = [a \in Actors |-> NoCall]
    /\ outer = [a \in Actors |-> NoCall]
    /\ bound = [t \in Threads |-> NoReactor]
    /\ stream = [t \in Threads |-> NoThread]
    /\ packet = [t \in Threads |-> NoPacket]
    /\ write_error = [t \in Threads |-> FALSE]

------------------------------------------------------------------------------
(* Calls: an actor enters one of the public methods and later returns.     *)

Goto(a, label) == pc' = [pc EXCEPT ![a] = label]

Call(a, op, ok, bad) ==
    /\ Goto(a, op)
    /\ ret' = [ret EXCEPT ![a] = [ok |-> ok, bad |-> bad]]

Return(a)  == Goto(a, ret[a].ok)  /\ ret' = [ret EXCEPT ![a] = NoCall]
Raise(a)   == Goto(a, ret[a].bad) /\ ret' = [ret EXCEPT ![a] = NoCall]

\* The caller holds the lock already; a method takes it and gives it back.
Held(a) == ret[a] \in {FromLoop, FromFlush}

Acquire(a) == lock  = IF Held(a) THEN a ELSE NoThread
Release(a) == lock' = IF Held(a) THEN a ELSE NoThread

\* An application thread calls a method.
UserCall(u) ==
    /\ pc[u] = "idle"
    /\ \E op \in {"connect", "status", "disconnect", "abort"} :
          Call(u, op, "idle", "idle")
    /\ UNCHANGED <<slots, interrupt, previous_thread, conn, locals, outer>>

------------------------------------------------------------------------------
(* connect() and status(): _check_connection, _connect, the reactor, and   *)
(* _start_network_thread.                                                  *)

\* Faulty variant: an uninterrupted thread does not count.
ExistingPendingOnly == new_networking_thread # NoThread

Existing ==
    \/ networking_thread # NoThread /\ ~interrupt[networking_thread]
    \/ new_networking_thread # NoThread

ConnectRefused(a) ==
    /\ pc[a] \in {"connect", "status"}
    /\ Acquire(a)
    /\ Existing
    /\ Raise(a)
    /\ UNCHANGED <<slots, interrupt, previous_thread, conn, locals, outer>>

\* _connect raises: the name is not resolved (471), or the new socket stays;
\* nothing else is assigned.
ConnectFails(a) ==
    /\ pc[a] \in {"connect", "status"}
    /\ Acquire(a)
    /\ ~Existing
    /\ socket' \in {socket, "unconnected"}
    /\ Raise(a)
    /\ UNCHANGED <<slots, interrupt, previous_thread, connected, file_object,
                   open, reactor, narrowed, locals, outer>>

ConnectOpen(a) ==
    /\ pc[a] \in {"connect", "status"}
    /\ Acquire(a)
    /\ ~Existing
    /\ \E t \in Threads :
          /\ pc[t] = "unborn"
          /\ socket' = t
          /\ file_object' = t
          /\ open' = open \cup {t}
    /\ connected' = TRUE
    /\ lock' = a
    /\ Goto(a, IF pc[a] = "connect" THEN "c_reactor" ELSE "s_start")
    /\ UNCHANGED <<networking_thread, new_networking_thread, interrupt,
                   previous_thread, reactor, narrowed, ret, locals, outer>>

ConnectReactor(a) ==
    /\ pc[a] = "c_reactor"
    /\ reactor' = [kind |-> IF narrowed THEN "login" ELSE "negotiate",
                   for |-> socket]
    /\ Goto(a, "c_start")
    /\ UNCHANGED <<slots, interrupt, previous_thread, connected, socket,
                   file_object, open, narrowed, ret, locals, outer>>

\* Faulty variant: the new thread always takes the first slot.
StartThreadFirst(a) ==
    /\ pc[a] \in {"c_start", "s_start"}
    /\ ~Existing
    /\ networking_thread' = socket
    /\ pc' = [pc EXCEPT ![socket] = "loop",
                        ![a] = IF pc[a] = "c_start" THEN ret[a].ok
                                                    ELSE "s_reactor"]
    /\ IF pc[a] = "c_start"
       THEN Release(a) /\ ret' = [ret EXCEPT ![a] = NoCall]
       ELSE UNCHANGED <<lock, ret>>
    /\ UNCHANGED <<new_networking_thread, interrupt, previous_thread, conn,
                   locals, outer>>

\* _start_network_thread; connect() then releases the lock.
StartThread(a) ==
    /\ pc[a] \in {"c_start", "s_start"}
    /\ ~Existing
    /\ LET t == socket
           first == networking_thread = NoThread IN
       /\ networking_thread' = IF first THEN t ELSE networking_thread
       /\ new_networking_thread' = IF first THEN NoThread ELSE t
       /\ previous_thread' = [previous_thread EXCEPT ![t] = networking_thread]
       /\ pc' = [pc EXCEPT ![t] = IF first THEN "loop" ELSE "waiting",
                           ![a] = IF pc[a] = "c_start" THEN ret[a].ok
                                                       ELSE "s_reactor"]
    /\ IF pc[a] = "c_start"
       THEN Release(a) /\ ret' = [ret EXCEPT ![a] = NoCall]
       ELSE UNCHANGED <<lock, ret>>
    /\ UNCHANGED <<interrupt, conn, locals, outer>>

\* status() replaces the reactor after its thread has been started.
StatusReactorSet(a) ==
    /\ pc[a] = "s_reactor"
    /\ reactor' = [kind |-> "status", for |-> socket]
    /\ Release(a)
    /\ Return(a)
    /\ UNCHANGED <<networking_thread, new_networking_thread, interrupt,
                   previous_thread, connected, socket, file_object, open,
                   narrowed, locals, outer>>

------------------------------------------------------------------------------
(* disconnect(): pc "disconnect"; disconnect(immediate=True): pc "abort".   *)

\* The thread whose interrupt disconnect() sets, and whose flag
\* _handle_exception tests.
Current == IF new_networking_thread # NoThread THEN new_networking_thread
                                               ELSE networking_thread

\* The flush raises (the socket fails or was never connected, or a listener
\* raises), or self.socket was never assigned.
DisconnectRaises(a) ==
    /\ pc[a] \in {"disconnect", "abort"}
    /\ Acquire(a)
    /\ \/ socket = "unset"
       \/ pc[a] = "disconnect" /\ socket # "gone"
    /\ connected' = FALSE
    /\ Raise(a)
    /\ UNCHANGED <<slots, interrupt, previous_thread, socket, file_object,
                   open, reactor, narrowed, locals, outer>>

DisconnectFlush(a) ==
    /\ pc[a] \in {"disconnect", "abort"}
    /\ Acquire(a)
    /\ socket # "unset"
    /\ connected' = FALSE
    /\ lock' = a
    /\ Goto(a, "d_close")
    /\ UNCHANGED <<networking_thread, new_networking_thread, interrupt,
                   previous_thread, socket, file_object, open, reactor,
                   narrowed, ret, locals, outer>>

\* Listeners of the packets that are flushed call methods.
DisconnectListens(a) ==
    /\ \/ /\ pc[a] = "disconnect"
          /\ ~Held(a)
          /\ lock = NoThread
          /\ socket \notin {"unset", "gone"}
          /\ connected' = FALSE
          /\ lock' = a
          /\ outer' = [outer EXCEPT ![a] = ret[a]]
       \/ pc[a] = "d_held" /\ UNCHANGED <<connected, lock, outer>>
    /\ \E op \in OutgoingCalls : Call(a, op, FromFlush.ok, FromFlush.bad)
    /\ UNCHANGED <<networking_thread, new_networking_thread, interrupt,
                   previous_thread, socket, file_object, open, reactor,
                   narrowed, locals>>

\* The flush is over; it raises if a listener does, or if there is no socket
\* left to write to.
FlushEnds(a) ==
    /\ pc[a] = "d_held"
    /\ \/ /\ Goto(a, "d_close")
          /\ ret' = [ret EXCEPT ![a] = outer[a]]
          /\ UNCHANGED lock
       \/ /\ Goto(a, outer[a].bad)
          /\ lock' = NoThread
          /\ UNCHANGED ret
    /\ outer' = [outer EXCEPT ![a] = NoCall]
    /\ UNCHANGED <<networking_thread, new_networking_thread, interrupt,
                   previous_thread, conn, locals>>

\* Faulty variants: the running thread is told to stop even if another one is
\* pending; the file object is cleared as well as the socket.
DisconnectCloseRunner(a) ==
    /\ pc[a] = "d_close"
    /\ interrupt' = [t \in Threads |-> interrupt[t] \/ t = networking_thread]
    /\ Release(a)
    /\ Return(a)
    /\ open' = open \ {socket, file_object}
    /\ socket' = "gone"
    /\ UNCHANGED <<networking_thread, new_networking_thread, previous_thread,
                   connected, file_object, reactor, narrowed, locals, outer>>

DisconnectCloseClear(a) ==
    /\ pc[a] = "d_close"
    /\ interrupt' = [t \in Threads |-> interrupt[t] \/ t = Current]
    /\ Release(a)
    /\ Return(a)
    /\ open' = open \ {socket, file_object}
    /\ socket' = "gone"
    /\ file_object' = "gone"
    /\ UNCHANGED <<networking_thread, new_networking_thread, previous_thread,
                   connected, reactor, narrowed, locals, outer>>

\* A failed first connect() leaves a socket but no file object to close.
DisconnectClose(a) ==
    /\ pc[a] = "d_close"
    /\ interrupt' = [t \in Threads |-> interrupt[t] \/ t = Current]
    /\ Release(a)
    /\ IF socket # "gone" /\ file_object = "unset"
       THEN Raise(a) /\ UNCHANGED <<socket, open>>
       ELSE /\ Return(a)
            /\ open' = IF socket = "gone" THEN open
                                          ELSE open \ {socket, file_object}
            /\ socket' = "gone"
    /\ UNCHANGED <<networking_thread, new_networking_thread, previous_thread,
                   connected, file_object, reactor, narrowed, locals, outer>>

------------------------------------------------------------------------------
(* NetworkingThread.run and _run.                                           *)

\* Faulty variants: the previous thread is not joined; the second slot is
\* not cleared; the first one is not set.
TakeOverUnjoined(t) ==
    /\ pc[t] = "waiting"
    /\ lock = NoThread
    /\ networking_thread' = t
    /\ new_networking_thread' = NoThread
    /\ Goto(t, "loop")
    /\ UNCHANGED <<lock, interrupt, previous_thread, conn, ret, locals,
                   outer>>

TakeOverKeepsPending(t) ==
    /\ pc[t] = "waiting"
    /\ pc[previous_thread[t]] = "dead"
    /\ lock = NoThread
    /\ networking_thread' = t
    /\ Goto(t, "loop")
    /\ UNCHANGED <<lock, new_networking_thread, interrupt, previous_thread,
                   conn, ret, locals, outer>>

TakeOverUnnamed(t) ==
    /\ pc[t] = "waiting"
    /\ pc[previous_thread[t]] = "dead"
    /\ lock = NoThread
    /\ new_networking_thread' = NoThread
    /\ Goto(t, "loop")
    /\ UNCHANGED <<lock, networking_thread, interrupt, previous_thread, conn,
                   ret, locals, outer>>

\* The previous thread has been joined; the slots change hands.
TakeOver(t) ==
    /\ pc[t] = "waiting"
    /\ pc[previous_thread[t]] = "dead"
    /\ lock = NoThread
    /\ networking_thread' = t
    /\ new_networking_thread' = NoThread
    /\ Goto(t, "loop")
    /\ UNCHANGED <<lock, interrupt, previous_thread, conn, ret, locals,
                   outer>>

\* Faulty variant: the loop does not look at the interrupt flag.
LoopForever(t) ==
    /\ pc[t] = "loop"
    /\ Goto(t, IF write_error[t] THEN "raised" ELSE "write")
    /\ UNCHANGED <<slots, interrupt, previous_thread, conn, ret, locals,
                   outer>>

\* The end of an iteration, where a kept IOError is raised, and the test of
\* the next one.
LoopTop(t) ==
    /\ pc[t] = "loop"
    /\ Goto(t, CASE write_error[t] -> "raised"
                 [] interrupt[t] /\ ~write_error[t] -> "exit"
                 [] OTHER -> "write")
    /\ UNCHANGED <<slots, interrupt, previous_thread, conn, ret, locals,
                   outer>>

\* Queued packets are written, and their listeners call methods.
WriteListens(t) ==
    /\ \/ pc[t] = "write" /\ lock = NoThread /\ ~interrupt[t]
       \/ pc[t] = "w_held"
    /\ lock' = t
    /\ \E op \in OutgoingCalls : Call(t, op, FromLoop.ok, FromLoop.bad)
    /\ UNCHANGED <<networking_thread, new_networking_thread, interrupt,
                   previous_thread, conn, outer, locals>>

\* The writes end: nothing is left or the thread is told to stop, an IOError
\* is kept until after the reads, another exception leaves the loop.
WriteQueue(t) ==
    /\ \/ pc[t] = "write" /\ lock = NoThread
       \/ pc[t] = "w_held"
    /\ lock' = NoThread
    /\ \/ Goto(t, "poll") /\ write_error' = [write_error EXCEPT ![t] = FALSE]
       \/ /\ pc[t] = "write" => ~interrupt[t]
          /\ Goto(t, "poll")
          /\ write_error' = [write_error EXCEPT ![t] = TRUE]
       \/ /\ pc[t] = "write" => ~interrupt[t]
          /\ Goto(t, "raised")
          /\ UNCHANGED write_error
    /\ UNCHANGED <<networking_thread, new_networking_thread, interrupt,
                   previous_thread, conn, ret, outer, bound, stream, packet>>

Poll(t) ==
    /\ pc[t] = "poll"
    /\ Goto(t, IF interrupt[t] THEN "loop" ELSE "bind")
    /\ packet' = [packet EXCEPT ![t] = NoPacket]
    /\ UNCHANGED <<slots, interrupt, previous_thread, conn, ret, bound,
                   stream, write_error, outer>>

\* Line 659 reads 'connection.reactor', line 660 'connection.file_object',
\* neither under the lock.  A file that is already closed is no argument for
\* select (ValueError).
BindReactor(t) ==
    /\ pc[t] = "bind"
    /\ bound' = [bound EXCEPT ![t] = reactor]
    /\ Goto(t, "bind_file")
    /\ UNCHANGED <<slots, interrupt, previous_thread, conn, ret, stream,
                   packet, write_error, outer>>

BindFile(t) ==
    /\ pc[t] = "bind_file"
    /\ stream' = [stream EXCEPT ![t] = file_object]
    /\ Goto(t, IF file_object \in open THEN "recv" ELSE "raised")
    /\ UNCHANGED <<slots, interrupt, previous_thread, conn, ret, bound,
                   packet, write_error, outer>>

\* The read ends with a packet, a timeout (open streams only), an EOFError
\* or another exception (file closed in the meantime, malformed packet).
Recv(t) ==
    /\ pc[t] = "recv"
    /\ \/ /\ stream[t] \in open
          /\ \E name \in Parses(bound[t].kind) :
                packet' = [packet EXCEPT ![t] = [name |-> name,
                                                 from |-> stream[t]]]
          /\ Goto(t, "early")
       \/ /\ stream[t] \in open
          /\ Goto(t, "loop")
          /\ UNCHANGED packet
       \/ /\ \E how \in {"raised", "raised_eof"} : Goto(t, how)
          /\ UNCHANGED packet
    /\ bound' = [bound EXCEPT ![t] = NoReactor]
    /\ stream' = [stream EXCEPT ![t] = NoThread]
    /\ UNCHANGED <<slots, interrupt, previous_thread, conn, ret, write_error,
                   outer>>

\* An earlier write error is forgiven if the packet was a disconnect.
Forgive(t) == write_error' = [write_error EXCEPT
                                 ![t] = @ /\ packet[t].name # "disconnect"]

\* The packets' listeners run before ("early") and after ("late") the
\* reactor; each may ignore the packet, raise, or call a method.
EarlyListeners(t) ==
    /\ pc[t] = "early"
    /\ \/ /\ \E l \in {"react", "raised"} : Goto(t, l)
          /\ UNCHANGED <<ret, write_error>>
       \/ \E op \in {"connect", "disconnect"} :
             Call(t, op, "react", "raised") /\ UNCHANGED write_error
       \/ Forgive(t) /\ Goto(t, "poll") /\ UNCHANGED ret   \* IgnorePacket
    /\ UNCHANGED <<slots, interrupt, previous_thread, conn, bound, stream,
                   packet, outer>>

LateListeners(t) ==
    /\ pc[t] = "late"
    /\ Forgive(t)
    /\ \/ UNCHANGED ret /\ \E l \in {"poll", "raised"} : Goto(t, l)
       \/ \E op \in {"connect", "disconnect"} : Call(t, op, "poll", "raised")
    /\ UNCHANGED <<slots, interrupt, previous_thread, conn, bound, stream,
                   packet, outer>>

\* self.reactor.react(packet): the reactor is the current one, which need
\* not be the one that parsed the packet.
React(t) ==
    /\ pc[t] = "react"
    /\ LET kind == reactor.kind
           name == packet[t].name IN
       CASE kind = "negotiate" /\ name = "response" ->
              /\ Call(t, "disconnect", "handle_status", "raised")
              /\ UNCHANGED reactor
         [] kind = "status" /\ name = "response" ->
              /\ UNCHANGED reactor
              /\ \/ Call(t, "disconnect", "late", "raised")  \* ping ignored
                 \/ UNCHANGED ret /\ Goto(t, "late")         \* ping sent
         [] kind = "login" /\ name = "disconnect" ->
              Goto(t, "raised") /\ UNCHANGED <<ret, reactor>>
         [] kind = "login" /\ name = "login success" ->
              /\ reactor' = [kind |-> "play", for |-> packet[t].from]
              /\ Goto(t, "late")
              /\ UNCHANGED ret
         [] kind = "play" /\ name = "disconnect" ->
              /\ Call(t, "disconnect", "late", "raised")
              /\ UNCHANGED reactor
         [] OTHER -> Goto(t, "late") /\ UNCHANGED <<ret, reactor>>
    /\ UNCHANGED <<slots, interrupt, previous_thread, connected, socket,
                   file_object, open, narrowed, locals, outer>>

\* PlayingStatusReactor.handle_status, after react() has disconnected: an
\* invalid or disallowed status raises, otherwise handle_proto_version (and
\* handle_failure, with the default version) narrows the versions and
\* connects.
HandleStatus(t) ==
    /\ pc[t] = "handle_status"
    /\ \/ Goto(t, "raised") /\ UNCHANGED <<ret, narrowed>>
       \/ /\ narrowed' = TRUE
          /\ Call(t, "connect", Negotiate.ok, Negotiate.bad)
    /\ UNCHANGED <<slots, interrupt, previous_thread, connected, socket,
                   file_object, open, reactor, locals, outer>>

\* _handle_exit: the application's callback may return, raise or reconnect.
HandleExit(t) ==
    /\ pc[t] = "exit"
    /\ \/ Goto(t, "finally") /\ UNCHANGED ret
       \/ ~connected /\ Goto(t, "raised") /\ UNCHANGED ret
       \/ ~connected /\ Call(t, "connect", "finally", "raised")
    /\ UNCHANGED <<slots, interrupt, previous_thread, conn, locals, outer>>

------------------------------------------------------------------------------
(* The exception path: run's except clause and _handle_exception.           *)

Interrupted(t) ==
    /\ pc[t] \in {"raised", "raised_eof"}
    /\ interrupt' = [interrupt EXCEPT ![t] = TRUE]
    /\ Goto(t, IF pc[t] = "raised" THEN "except" ELSE "except_eof")
    /\ write_error' = [write_error EXCEPT ![t] = FALSE]
    /\ packet' = [packet EXCEPT ![t] = NoPacket]
    /\ bound' = [bound EXCEPT ![t] = NoReactor]
    /\ stream' = [stream EXCEPT ![t] = NoThread]
    /\ UNCHANGED <<slots, previous_thread, conn, ret, outer>>

\* The current reactor's handle_exception: only PlayingStatusReactor acts,
\* and only on EOFError.
ReactorHandler(t) ==
    /\ pc[t] \in {"except", "except_eof"}
    /\ IF pc[t] = "except_eof" /\ reactor.kind = "negotiate"
       THEN Call(t, "abort", "handle_failure", "handlers")
       ELSE Goto(t, "handlers") /\ UNCHANGED ret
    /\ UNCHANGED <<slots, interrupt, previous_thread, conn, locals, outer>>

HandleFailure(t) ==
    /\ pc[t] = "handle_failure"
    /\ narrowed' = TRUE
    /\ Call(t, "connect", Recover.ok, Recover.bad)
    /\ UNCHANGED <<slots, interrupt, previous_thread, connected, socket,
                   file_object, open, reactor, locals, outer>>

\* Registered and final exception handlers are application code.
UserHandlers(t) ==
    /\ pc[t] = "handlers"
    /\ \/ Goto(t, "check") /\ UNCHANGED ret
       \/ \E op \in {"connect", "disconnect"} : Call(t, op, "check", "check")
    /\ UNCHANGED <<slots, interrupt, previous_thread, conn, locals, outer>>

\* Faulty variant: the connection is never torn down after an exception.
CheckNothing(t) ==
    /\ pc[t] = "check"
    /\ Goto(t, "finally")
    /\ UNCHANGED <<slots, interrupt, previous_thread, conn, ret, locals,
                   outer>>

\* Line 567, without the lock; line 568 is the call of disconnect.
CheckCurrent(t) ==
    /\ pc[t] = "check"
    /\ IF Current # NoThread /\ interrupt[Current]
       THEN Call(t, "abort", "finally", "finally")
       ELSE Goto(t, "finally") /\ UNCHANGED ret
    /\ UNCHANGED <<slots, interrupt, previous_thread, conn, locals, outer>>

Finally(t) ==
    /\ pc[t] = "finally"
    /\ lock = NoThread
    /\ networking_thread' = NoThread
    /\ Goto(t, "dead")
    /\ packet' = [packet EXCEPT ![t] = NoPacket]
    /\ UNCHANGED <<lock, new_networking_thread, interrupt, previous_thread,
                   conn, ret, bound, stream, write_error, outer>>

------------------------------------------------------------------------------
\* The steps of a method in progress; the first ones wait for the lock.
MethodStep(a) ==
    \/ ConnectRefused(a) \/ ConnectFails(a) \/ ConnectOpen(a)
    \/ ConnectReactor(a) \/ StartThread(a) \/ StatusReactorSet(a)
    \/ DisconnectRaises(a) \/ DisconnectFlush(a) \/ DisconnectListens(a)
    \/ FlushEnds(a) \/ DisconnectClose(a)

ThreadStep(t) ==
    \/ TakeOver(t) \/ LoopTop(t) \/ WriteListens(t) \/ WriteQueue(t) \/ Poll(t)
    \/ BindReactor(t) \/ BindFile(t) \/ Recv(t) \/ EarlyListeners(t)
    \/ React(t) \/ LateListeners(t) \/ HandleStatus(t)
    \/ HandleExit(t) \/ Interrupted(t) \/ ReactorHandler(t)
    \/ HandleFailure(t) \/ UserHandlers(t) \/ CheckCurrent(t) \/ Finally(t)

Next ==
    \/ \E u \in Users : UserCall(u)
    \/ \E a \in Actors : MethodStep(a)
    \/ \E t \in Threads : ThreadStep(t)

Spec == Init /\ [][Next]_vars

\* An actor that can go on goes on; one that waits for the lock gets it if it
\* is released again and again (hence strong fairness).  Application callbacks
\* return, those that call methods under the lock too (one actor at a time
\* has it), and the stream brings a packet that it has begun to an end, or
\* fails.  Application threads need not call anything.
Step(a) == MethodStep(a) \/ (a \in Threads /\ ThreadStep(a))
ListenersEnd ==
    (\E a \in Actors : FlushEnds(a)) \/ (\E t \in Threads : WriteQueue(t))

Fairness ==
    /\ \A a \in Actors : SF_vars(Step(a))
    /\ SF_vars(ListenersEnd)

LiveSpec == Spec /\ Fairness
------------------------------------------------------------------------------
(* Properties.                                                              *)

Labels == {"idle", "connect", "status", "disconnect",
           "abort", "c_reactor", "c_start", "s_start", "s_reactor", "d_close",
           "unborn", "waiting", "loop", "write", "poll", "bind", "bind_file",
           "recv", "early", "react", "late", "handle_status", "exit",
           "raised", "raised_eof", "except", "except_eof", "handle_failure",
           "handlers", "check", "finally", "dead", "w_held", "d_held"}

ReturnLabels == {"idle", "react", "poll", "late", "raised",
                 "handle_status", "handle_failure", "check", "handlers",
                 "finally"}

PlainCalls == [ok : ReturnLabels, bad : ReturnLabels]
Calls == PlainCalls \cup {FromLoop, FromFlush}

\* The attributes of Connection and NetworkingThread have the values their
\* assignments give them.
TypeOK ==
    /\ lock \in Actors \cup {NoThread}
    /\ networking_thread \in Threads \cup {NoThread}
    /\ new_networking_thread \in Threads \cup {NoThread}
    /\ interrupt \in [Threads -> BOOLEAN]
    /\ previous_thread \in [Threads -> Threads \cup {NoThread}]
    /\ connected \in BOOLEAN
    /\ socket \in Threads \cup {"unset", "gone", "unconnected"}
    /\ file_object \in Threads \cup {"unset"}
    /\ open \subseteq Threads
    /\ reactor \in Reactors
    /\ narrowed \in BOOLEAN
    /\ pc \in [Actors -> Labels]
    /\ ret \in [Actors -> Calls]
    /\ outer \in [Actors -> PlainCalls]
    /\ bound \in [Threads -> Reactors]
    /\ stream \in [Threads -> Threads \cup {NoThread, "unset"}]
    /\ packet \in [Threads -> Packets \cup {NoPacket}]
    /\ write_error \in [Threads -> BOOLEAN]

Running(t) == pc[t] \notin {"unborn", "waiting", "dead"}

\* However application threads, callbacks and exception handlers interleave
\* their connects and disconnects, at most one networking thread is in _run,
\* _handle_exit or _handle_exception (run 618-633, _start_network_thread).
SingleRunner ==
    \A s, t \in Threads : Running(s) /\ Running(t) => s = t

\* The slots tell the truth to _check_connection and disconnect: whenever the
\* lock is free, the thread that runs is networking_thread, the one that
\* waits is new_networking_thread, and one waits only for a thread that is
\* told to stop or already gone (lines 204-219, 456-460, 501-504).
SlotsTruthful ==
    /\ \A t \in Threads : Running(t) <=> networking_thread = t
    /\ \A t \in Threads : pc[t] = "waiting" <=> new_networking_thread = t
    /\ new_networking_thread # NoThread /\ networking_thread # NoThread =>
          /\ interrupt[networking_thread]
          /\ previous_thread[new_networking_thread] = networking_thread

\* Every thread that has been started and not told to stop has its own,
\* still open, socket installed: no disconnect closes a socket and spares its
\* thread, no connect replaces the socket of a thread that goes on (462-514).
OwnSocket ==
    \A t \in {networking_thread, new_networking_thread} \ {NoThread} :
        ~interrupt[t] => socket = t /\ file_object = t /\ t \in open

\* A Connection that says it is connected and still has its socket has a
\* thread that serves it or that will still say otherwise: however late an old
\* thread dies, it leaves none connected without a thread (487, 494, 568,
\* 631-633).  The socket is part of it because 'connected' alone may lie: when
\* a listener reconnects in the flush of a disconnect, that disconnect goes on
\* to close the new socket and leaves 'connected' set (494, 498, 513-514).
ConnectedIsServed ==
    connected /\ socket \in Threads /\ lock = NoThread => Current # NoThread

\* The steps of connect, status, disconnect and the write loop that hold the
\* write lock.
InLock(a) ==
    \/ pc[a] \in {"c_reactor", "c_start", "s_start", "s_reactor", "d_close",
                  "w_held", "d_held"}
    \/ pc[a] \in {"connect", "disconnect"} /\ Held(a)

\* A thread that is not told to stop reads its own connection: the unlocked
\* evaluation of connection.file_object (660) cannot pick another one.
ReadsOwnStream ==
    \A t \in Threads :
        pc[t] = "recv" /\ ~interrupt[t] => stream[t] = t

\* _handle_exception finds a thread to look at: line 567 never evaluates
\* None.interrupt.
HandlerFindsThread ==
    \A t \in Threads : pc[t] = "check" => Current # NoThread

\* A pending thread gets its turn, whatever callbacks the old one is in.
PendingRuns ==
    \A t \in Threads : pc[t] = "waiting" ~> pc[t] # "waiting"

\* A thread that is told to stop terminates, even if it or others reconnect.
InterruptedStops ==
    \A t \in Threads : interrupt[t] ~> pc[t] = "dead"

\* The threads implement the hand-over of one place.
Place == INSTANCE Handover WITH
             Workers <- Threads, NoWorker <- NoThread,
             holder <- networking_thread, next <- new_networking_thread,
             told <- {t \in Threads : interrupt[t]},
             gone <- {t \in Threads : pc[t] = "dead"}
ImplementsHandover == Place!Spec

------------------------------------------------------------------------------
(* Claims of the documentation that the code does not keep.                 *)

\* connection.py 563-566: "The following condition being false indicates that
\* an exception handler has initiated a new connection, meaning that we
\* should not interfere with the connection state."  The disconnect of line
\* 568 would then stop only the thread it runs in.
HandlerSparesNewConnection ==
    [][\A s, t \in Threads :
          /\ pc[t] = "d_close" /\ pc'[t] # "d_close"
          /\ ret[t] = [ok |-> "finally", bad |-> "finally"]
          /\ ~interrupt[s] /\ interrupt'[s]
          => s = t]_vars

\* connection.py 409: connect "May safely be called multiple times after the
\* first, i.e. to reconnect."  The reactor would then belong to the
\* connection that connect() set up.
ReactorServesSocket ==
    lock = NoThread /\ socket \in Threads => reactor.for = socket
==============================================================================
