---------------------------- MODULE LoginProtocol ----------------------------
(***************************************************************************)
(* The login of a Connection and what it does to the byte streams: the     *)
(* reactors of connection.py switch on encryption and compression while    *)
(* packets are written by a networking thread, by a user thread that       *)
(* forces a packet out and by disconnect(), and while the user may         *)
(* disconnect and connect again.                                           *)
(*                                                                         *)
(* Each TCP connection has a number.  A packet on the wire is its name and *)
(* the modes it was written under; a side that reads under other modes     *)
(* than these reads garbage.  A Connection with a profile key and one      *)
(* allowed version is assumed.  The server is external: it asks and waits  *)
(* as the protocol says, but may also close at any time, also inside of a  *)
(* packet.  How threads follow each other is the subject of                *)
(* ConnectionThreads; here at most one of them waits for its predecessor.  *)
(***************************************************************************)
EXTENDS Naturals, Sequences, FiniteSets

CONSTANTS LoginVersions,   \* protocol numbers of releases from 107 on
          MaxConnections,  \* bound on calls of connect()
          MaxUserPackets   \* bound on packets that the user writes

ASSUME LoginAssumption ==
  /\ LoginVersions \subseteq Nat
  /\ MaxConnections \in Nat \ {0}
  /\ MaxUserPackets \in Nat

VARIABLES
  version,      \* context.protocol_version
  connections,  \* the number of connections so far
  socket,       \* Connection.socket: connection number (0: None), encrypted?
  file,         \* Connection.file_object, likewise
  encryption,   \* _encryption_enabled
  compression,  \* options.compression_enabled
  reactor,      \* the state of the PacketReactor
  queue,        \* _outgoing_packet_queue
  thread,       \* the networking thread: at, interrupt, the one after it
  reading,      \* its read_packet: reactor, stream, and the packet read
  server,       \* of each connection: state, modes, what it has asked for
  toServer,     \* of each connection: packets under way to the server
  toClient,     \* of each connection: packets under way to the client
  userPackets,  \* the number of packets that the user has written
  garbled,      \* connections on which a side has read garbage
  overtaken,    \* connections that another thread got in the way of
  announced     \* connections on which a chat session was announced

client == <<version, connections, socket, file, encryption, compression,
            reactor, queue, thread, reading, userPackets, overtaken, announced>>
vars == <<client, server, toServer, toClient, garbled>>

Connections == 1..MaxConnections
None == [number |-> 0, encrypted |-> FALSE]
NoServer == [state |-> "none", encrypted |-> FALSE, compressed |-> FALSE,
             asked |-> {}]

\* No packet is being read.
Nothing == [reactor |-> "login", number |-> 0,
            packet |-> [name |-> "none", encrypted |-> FALSE,
                        compressed |-> FALSE]]

\* Where the thread is in the reaction to 'encryption request'.
Encrypting == {"join", "respond", "wrapSocket", "wrapFile", "setFlag"}

\* Where it has a packet in its hands or reacts to one.
Underway == {"parse", "react"} \cup (Encrypting \ {"setFlag"})

-----------------------------------------------------------------------------
(* Writing                                                                  *)

\* Packet.write by way of _write_packet: under the modes of this moment.
Packet(name) ==
  [name |-> name, encrypted |-> socket.encrypted, compressed |-> compression]

\* _write_packet of names, in this order.
Written(names) ==
  toServer' = [toServer EXCEPT ![socket.number] =
                 @ \o [i \in DOMAIN names |-> Packet(names[i])]]

\* Whether names has a packet of the user, written before the login is over.
Overtakes(names) ==
  overtaken' = overtaken \cup
    (IF reactor = "login" /\ \E i \in DOMAIN names : names[i] = "Chat"
     THEN {socket.number} ELSE {})

\* Whether names has the announcement of a chat session.
Announces(names) ==
  announced' = announced \cup
    (IF \E i \in DOMAIN names : names[i] = "PlayerSession"
     THEN {socket.number} ELSE {})

\* _pop_packet by the networking thread.
NetworkWrites ==
  /\ thread.at = "loop" /\ ~thread.interrupt /\ socket.number # 0
  /\ queue # <<>>
  /\ Written(<<Head(queue)>>)
  /\ Overtakes(<<Head(queue)>>)
  /\ Announces(<<Head(queue)>>)
  /\ queue' = Tail(queue)
  /\ UNCHANGED <<version, connections, socket, file, encryption, compression,
                 reactor, thread, reading, server, toClient, userPackets,
                 garbled>>

\* write_packet(packet) of a user thread.
UserQueues ==
  /\ connections > 0 /\ userPackets < MaxUserPackets
  /\ queue' = Append(queue, "Chat")
  /\ userPackets' = userPackets + 1
  /\ UNCHANGED <<version, connections, socket, file, encryption, compression,
                 reactor, thread, reading, server, toServer, toClient, garbled,
                 overtaken, announced>>

\* write_packet(packet, force=True) of a user thread, when there is a socket.
UserForces ==
  /\ socket.number # 0 /\ userPackets < MaxUserPackets
  /\ Written(<<"Chat">>)
  /\ Overtakes(<<"Chat">>)
  /\ userPackets' = userPackets + 1
  /\ UNCHANGED <<version, connections, socket, file, encryption, compression,
                 reactor, queue, thread, reading, server, toClient, garbled,
                 announced>>

-----------------------------------------------------------------------------
(* connect() and disconnect() by the user                                   *)

\* connect() and _connect.  A thread of the connection before that is under way
\* with a packet will parse it under the modes of this one and do the rest of
\* the reaction to this one.  The server of the connection before is left
\* aside: it can have read what was written to it already.
Connect ==
  LET n == connections + 1
      busy == thread.at \notin {"none", "ended"}
  IN  /\ n \in Connections
      /\ socket.number = 0 /\ thread.next = "none"
      /\ busy => thread.interrupt
      /\ connections' = n
      /\ socket' = [number |-> n, encrypted |-> FALSE]
      /\ file' = socket'
      /\ compression' = FALSE
      /\ queue' = <<"HandShake", "LoginStart">>
      /\ reactor' = "login"
      /\ thread' = IF busy THEN [thread EXCEPT !.next = "waiting"]
                   ELSE [at |-> "loop", interrupt |-> FALSE, next |-> "none"]
      /\ server' = [m \in Connections |->
                      [NoServer EXCEPT !.asked = server[m].asked,
                         !.state = IF m = n THEN "hello" ELSE "none"]]
      /\ toServer' = [m \in Connections |-> <<>>]
      /\ toClient' = toServer'
      /\ overtaken' = overtaken
                        \cup (IF thread.at \in Underway THEN {n} ELSE {})
                        \cup (IF thread.at = "parse" THEN {reading.number}
                              ELSE {})
      /\ UNCHANGED <<version, encryption, reading, userPackets, garbled,
                     announced>>

\* disconnect(): what there is to close is flushed and closed.
Closes ==
  IF socket.number # 0
  THEN /\ Written(queue) /\ Overtakes(queue) /\ Announces(queue)
       /\ queue' = <<>>
       /\ socket' = None
       /\ file' = None
  ELSE UNCHANGED <<toServer, overtaken, announced, queue, socket, file>>

\* Which thread is told to stop: the one that waits, if there is one.
Interrupted(t) ==
  IF t.next = "none" THEN [t EXCEPT !.interrupt = TRUE]
                     ELSE [t EXCEPT !.next = "interrupted"]

\* disconnect() of a user thread.
Disconnect ==
  /\ socket.number # 0
  /\ Closes
  /\ thread' = Interrupted(thread)
  /\ UNCHANGED <<version, connections, encryption, compression, reactor,
                 reading, server, toClient, userPackets, garbled>>

\* NetworkingThread.run after the thread before it has ended.
TakesOver ==
  /\ thread.next # "none"
  /\ thread.at = "ended" \/ (thread.at = "loop" /\ thread.interrupt)
  /\ thread' = [at |-> "loop", interrupt |-> thread.next = "interrupted",
                next |-> "none"]
  /\ UNCHANGED <<version, connections, socket, file, encryption, compression,
                 reactor, queue, reading, server, toServer, toClient,
                 userPackets, garbled, overtaken, announced>>

\* An interrupted thread without a successor leaves its loop.
Exits ==
  /\ thread.at = "loop" /\ thread.interrupt /\ thread.next = "none"
  /\ thread' = [thread EXCEPT !.at = "ended"]
  /\ UNCHANGED <<version, connections, socket, file, encryption, compression,
                 reactor, queue, reading, server, toServer, toClient,
                 userPackets, garbled, overtaken, announced>>

\* _handle_exception, reached by the thread: it closes what there is, unless
\* a successor is waiting that has not been told to stop.
Fails ==
  /\ thread' = [thread EXCEPT !.at = "ended", !.interrupt = TRUE]
  /\ reading' = Nothing
  /\ IF thread.next = "waiting" THEN UNCHANGED <<socket, file>>
                                ELSE socket' = None /\ file' = None

\* The thread has done with a packet, or has got none.
Turns == thread' = [thread EXCEPT !.at = "loop"] /\ reading' = Nothing

-----------------------------------------------------------------------------
(* Reading: read_packet, outside of the lock                                *)

\* The thread has looked at 'interrupt' and is about to read.
BeginsRead ==
  /\ thread.at = "loop" /\ ~thread.interrupt
  /\ thread' = [thread EXCEPT !.at = "bind"]
  /\ UNCHANGED <<version, connections, socket, file, encryption, compression,
                 reactor, queue, reading, server, toServer, toClient,
                 userPackets, garbled, overtaken, announced>>

\* It takes the reactor and the file object that there are; closed ones fail.
BindsStream ==
  /\ thread.at = "bind"
  /\ IF file.number # 0
     THEN /\ reading' = [Nothing EXCEPT !.reactor = reactor,
                                        !.number = file.number]
          /\ thread' = [thread EXCEPT !.at = "select"]
          /\ UNCHANGED <<socket, file>>
     ELSE Fails
  /\ UNCHANGED <<version, connections, encryption, compression, reactor, queue,
                 server, toServer, toClient, userPackets, garbled, overtaken,
                 announced>>

\* The stream that it waits for is closed.
StreamCloses ==
  /\ thread.at = "select" /\ reading.number # file.number
  /\ Fails
  /\ UNCHANGED <<version, connections, encryption, compression, reactor, queue,
                 server, toServer, toClient, userPackets, garbled, overtaken,
                 announced>>

\* There is nothing to read for a while.
TimesOut ==
  /\ thread.at = "select" /\ reading.number = file.number
  /\ toClient[file.number] = <<>>
  /\ Turns
  /\ UNCHANGED <<version, connections, socket, file, encryption, compression,
                 reactor, queue, server, toServer, toClient, userPackets,
                 garbled, overtaken, announced>>

\* There is something to read: the first packet under way, or an end.
Arrived ==
  /\ thread.at = "select" /\ reading.number = file.number
  /\ toClient[file.number] # <<>>
First == Head(toClient[file.number])
Ends == {"End", "Part"}

\* All bytes of a packet, as the stream decrypts them.
ReadsBytes ==
  /\ Arrived
  /\ First.name \notin Ends /\ First.encrypted = file.encrypted
  /\ toClient' = [toClient EXCEPT ![file.number] = Tail(@)]
  /\ reading' = [reading EXCEPT !.packet = First]
  /\ thread' = [thread EXCEPT !.at = "parse"]
  /\ UNCHANGED <<version, connections, socket, file, encryption, compression,
                 reactor, queue, server, toServer, userPackets, garbled,
                 overtaken, announced>>

\* The end of the stream between two packets: VarInt.read raises EOFError.
ReadsEnd ==
  /\ Arrived /\ First.name = "End"
  /\ Fails
  /\ UNCHANGED <<version, connections, encryption, compression, reactor, queue,
                 server, toServer, toClient, userPackets, garbled, overtaken,
                 announced>>

\* The end of the stream inside of a packet: the loop that reads the rest of
\* it gets nothing for ever and does not look at 'interrupt'; only closing the
\* file object, by a disconnect(), ends it with an exception.
ReadsPart ==
  /\ Arrived /\ First.name = "Part"
  /\ thread' = [thread EXCEPT !.at = "spin"]
  /\ reading' = Nothing
  /\ UNCHANGED <<version, connections, socket, file, encryption, compression,
                 reactor, queue, server, toServer, toClient, userPackets,
                 garbled, overtaken, announced>>

SpinEnds ==
  /\ thread.at = "spin" /\ thread.interrupt
  /\ Fails
  /\ UNCHANGED <<version, connections, encryption, compression, reactor, queue,
                 server, toServer, toClient, userPackets, garbled, overtaken,
                 announced>>

\* Bytes that were encrypted otherwise: a length that means nothing.
ReadsGarbage ==
  /\ Arrived
  /\ First.name \notin Ends /\ First.encrypted # file.encrypted
  /\ garbled' = garbled \cup {file.number}
  /\ Fails
  /\ UNCHANGED <<version, connections, encryption, compression, reactor, queue,
                 server, toServer, toClient, userPackets, overtaken, announced>>

\* 'compression_enabled' is looked at only when all bytes are there.
Parses ==
  /\ thread.at = "parse" /\ reading.packet.compressed = compression
  /\ thread' = [thread EXCEPT !.at = "react"]
  /\ UNCHANGED <<version, connections, socket, file, encryption, compression,
                 reactor, queue, reading, server, toServer, toClient,
                 userPackets, garbled, overtaken, announced>>

\* A packet in the other format: an exception, or one of an unknown number.
ParsesGarbage ==
  /\ thread.at = "parse" /\ reading.packet.compressed # compression
  /\ garbled' = garbled \cup {reading.number}
  /\ Fails \/ (Turns /\ UNCHANGED <<socket, file>>)
  /\ UNCHANGED <<version, connections, encryption, compression, reactor, queue,
                 server, toServer, toClient, userPackets, overtaken, announced>>

-----------------------------------------------------------------------------
(* The reactions of the reactors                                            *)

\* The packets that a reactor does something about.
Handled ==
  [login |-> {"EncryptionRequest", "SetCompression", "PluginRequest",
              "LoginSuccess", "Disconnect"},
   configuration |-> {"FinishConfiguration", "Disconnect"},
   play |-> {"SetCompression", "JoinGame", "Disconnect"}]

\* _react asks the reactor that there is, which may be that of another
\* connection by now, or may have become so while it reacts.
Deciding == {reading.reactor, reactor}

Reacts(name) ==
  /\ thread.at = "react" /\ reading.packet.name = name
  /\ \E kind \in Deciding : name \in Handled[kind]

\* Any other packet is left to the listeners.
ReactsNot ==
  /\ thread.at = "react"
  /\ \E kind \in Deciding : reading.packet.name \notin Handled[kind]
  /\ Turns
  /\ UNCHANGED <<version, connections, socket, file, encryption, compression,
                 reactor, queue, server, toServer, toClient, userPackets,
                 garbled, overtaken, announced>>

\* LoginReactor: 'encryption request'.  The rest is in the steps below.
ReactEncryptionRequest ==
  /\ Reacts("EncryptionRequest")
  /\ thread' = [thread EXCEPT !.at = "join"]
  /\ reading' = Nothing
  /\ UNCHANGED <<version, connections, socket, file, encryption, compression,
                 reactor, queue, server, toServer, toClient, userPackets,
                 garbled, overtaken, announced>>

\* auth_token.join, or no call of it (server id '-', no token).
Join ==
  /\ thread.at = "join"
  /\ \/ /\ thread' = [thread EXCEPT !.at = "respond"]
        /\ UNCHANGED <<reading, socket, file>>
     \/ Fails
  /\ UNCHANGED <<version, connections, encryption, compression, reactor, queue,
                 server, toServer, toClient, userPackets, garbled, overtaken,
                 announced>>

\* A mutant of Respond: the answer is not forced but queued.
RespondQueued ==
  /\ thread.at = "respond"
  /\ queue' = Append(queue, "EncryptionResponse")
  /\ thread' = [thread EXCEPT !.at = "wrapSocket"]
  /\ UNCHANGED <<version, connections, socket, file, encryption, compression,
                 reactor, reading, server, toServer, toClient, userPackets,
                 garbled, overtaken, announced>>

\* write_packet(encryption_response, force=True), which raises an exception
\* when there is no socket any more.
Respond ==
  /\ thread.at = "respond"
  /\ IF socket.number # 0
     THEN /\ Written(<<"EncryptionResponse">>)
          /\ thread' = [thread EXCEPT !.at = "wrapSocket"]
          /\ UNCHANGED <<reading, socket, file>>
     ELSE Fails /\ UNCHANGED toServer
  /\ UNCHANGED <<version, connections, encryption, compression, reactor, queue,
                 server, toClient, userPackets, garbled, overtaken, announced>>

\* The three assignments after the answer.  A wrapper of None stands for no
\* socket as well: the first use of it fails.
WrapSocket ==
  /\ thread.at = "wrapSocket"
  /\ socket' = [socket EXCEPT !.encrypted = TRUE]
  /\ thread' = [thread EXCEPT !.at = "wrapFile"]
  /\ UNCHANGED <<version, connections, file, encryption, compression, reactor,
                 queue, reading, server, toServer, toClient, userPackets,
                 garbled, overtaken, announced>>

WrapFile ==
  /\ thread.at = "wrapFile"
  /\ file' = [file EXCEPT !.encrypted = TRUE]
  /\ thread' = [thread EXCEPT !.at = "setFlag"]
  /\ UNCHANGED <<version, connections, socket, encryption, compression, reactor,
                 queue, reading, server, toServer, toClient, userPackets,
                 garbled, overtaken, announced>>

SetFlag ==
  /\ thread.at = "setFlag"
  /\ encryption' = TRUE
  /\ thread' = [thread EXCEPT !.at = "loop"]
  /\ UNCHANGED <<version, connections, socket, file, compression, reactor,
                 queue, reading, server, toServer, toClient, userPackets,
                 garbled, overtaken, announced>>

\* 'set compression', for reading and writing at once.
ReactSetCompression ==
  /\ Reacts("SetCompression")
  /\ compression' = TRUE
  /\ Turns
  /\ UNCHANGED <<version, connections, socket, file, encryption, reactor, queue,
                 server, toServer, toClient, userPackets, garbled, overtaken,
                 announced>>

\* LoginReactor: 'login plugin request'.
ReactPluginRequest ==
  /\ Reacts("PluginRequest")
  /\ queue' = Append(queue, "PluginResponse")
  /\ Turns
  /\ UNCHANGED <<version, connections, socket, file, encryption, compression,
                 reactor, server, toServer, toClient, userPackets, garbled,
                 overtaken, announced>>

\* A mutant of LoginReplies: the acknowledgement is forgotten.
LoginRepliesNoAcknowledgement ==
  IF version >= 764 THEN <<"ClientInformation">> ELSE <<>>

\* What the client answers to 'login success'.
LoginReplies ==
  IF version >= 764 THEN <<"LoginAcknowledged", "ClientInformation">> ELSE <<>>

\* LoginReactor: 'login success'.
ReactLoginSuccess ==
  /\ Reacts("LoginSuccess")
  /\ queue' = queue \o LoginReplies
  /\ reactor' = IF version >= 764 THEN "configuration" ELSE "play"
  /\ Turns
  /\ UNCHANGED <<version, connections, socket, file, encryption, compression,
                 server, toServer, toClient, userPackets, garbled, overtaken,
                 announced>>

\* ConfigurationReactor: 'finish configuration'.
ReactFinishConfiguration ==
  /\ Reacts("FinishConfiguration")
  /\ queue' = Append(queue, "FinishConfiguration")
  /\ reactor' = "play"
  /\ Turns
  /\ UNCHANGED <<version, connections, socket, file, encryption, compression,
                 server, toServer, toClient, userPackets, garbled, overtaken,
                 announced>>

\* A mutant of StartsSession: whether there is encryption is not asked.
StartsSessionAlways == version >= 761

\* Whether 'join game' starts a session; begin_play has dropped any older one.
StartsSession == version >= 761 /\ encryption

\* PlayingReactor: 'join game'.
ReactJoinGame ==
  /\ Reacts("JoinGame")
  /\ queue' = IF StartsSession THEN Append(queue, "PlayerSession") ELSE queue
  /\ Turns
  /\ UNCHANGED <<version, connections, socket, file, encryption, compression,
                 reactor, server, toServer, toClient, userPackets, garbled,
                 overtaken, announced>>

\* 'disconnect': an exception in the login state, else disconnect().
ReactDisconnect ==
  /\ Reacts("Disconnect")
  /\ \/ /\ "login" \in Deciding
        /\ Fails
        /\ UNCHANGED <<queue, toServer, overtaken, announced>>
     \/ /\ Deciding # {"login"}
        /\ Closes
        /\ thread' = [Interrupted(thread) EXCEPT !.at = "loop"]
        /\ reading' = Nothing
  /\ UNCHANGED <<version, connections, encryption, compression, reactor, server,
                 toClient, userPackets, garbled>>

-----------------------------------------------------------------------------
(* External: the server of connection n.  What the client wrote before it   *)
(* closed its side is still read; nothing is sent any more.                 *)

Sends(n, name) ==
  toClient' = [toClient EXCEPT ![n] =
                 Append(@, [name |-> name, encrypted |-> server[n].encrypted,
                            compressed |-> server[n].compressed])]

\* What the server may ask in the login state, each once.
ServerAsks(n) ==
  /\ n = socket.number
  /\ server[n].state = "login"
  /\ \/ /\ "plugin" \notin server[n].asked
        /\ Sends(n, "PluginRequest")
        /\ server' = [server EXCEPT ![n].state = "awaitPlugin",
                                    ![n].asked = @ \cup {"plugin"}]
     \/ /\ "encryption" \notin server[n].asked
        /\ ~server[n].compressed
        /\ Sends(n, "EncryptionRequest")
        /\ server' = [server EXCEPT ![n].state = "awaitEncryption",
                                    ![n].asked = @ \cup {"encryption"}]
     \/ /\ ~server[n].compressed
        /\ Sends(n, "SetCompression")
        /\ server' = [server EXCEPT ![n].compressed = TRUE]
     \/ /\ Sends(n, "LoginSuccess")
        /\ server' = [server EXCEPT ![n].state =
                        IF version >= 764 THEN "awaitLogin" ELSE "join"]
  /\ UNCHANGED <<client, toServer, garbled>>

\* After the login: 'finish configuration', then 'join game'.
ServerGoesOn(n) ==
  /\ n = socket.number
  /\ \/ /\ server[n].state = "configuration"
        /\ Sends(n, "FinishConfiguration")
        /\ server' = [server EXCEPT ![n].state = "awaitFinish"]
     \/ /\ server[n].state = "join"
        /\ Sends(n, "JoinGame")
        /\ server' = [server EXCEPT ![n].state = "play"]
  /\ UNCHANGED <<client, toServer, garbled>>

\* The server gives up: with a packet, without one, or inside of one.  While
\* it awaits the start of the encryption it sends no packet, which the client
\* might read encrypted already.
ServerCloses(n) ==
  /\ n = socket.number
  /\ server[n].state \notin {"none", "closed"}
  /\ \E name \in {"Disconnect", "End", "Part"} :
       /\ name = "Disconnect" =>
            server[n].state \notin {"hello", "start", "awaitEncryption"}
       /\ Sends(n, name)
  /\ server' = [server EXCEPT ![n].state = "closed"]
  /\ UNCHANGED <<client, toServer, garbled>>

\* The state after a packet that the server takes a step on.
Steps(state, name) ==
  CASE state = "hello" /\ name = "HandShake" -> "start"
    [] state = "start" /\ name = "LoginStart" -> "login"
    [] state = "awaitPlugin" /\ name = "PluginResponse" -> "login"
    [] state = "awaitEncryption" /\ name = "EncryptionResponse" -> "login"
    [] state = "awaitLogin" /\ name = "LoginAcknowledged" -> "configuration"
    [] state = "awaitFinish" /\ name = "FinishConfiguration" -> "join"
    [] OTHER -> state

ServerReads(n) ==
  /\ server[n].state \notin {"none", "closed"}
  /\ toServer[n] # <<>>
  /\ toServer' = [toServer EXCEPT ![n] = Tail(@)]
  /\ LET head == Head(toServer[n])
         s == server[n]
     IN  IF head.encrypted = s.encrypted /\ head.compressed = s.compressed
         THEN /\ server' = [server EXCEPT
                              ![n].state = Steps(s.state, head.name),
                              ![n].encrypted =
                                @ \/ (s.state = "awaitEncryption"
                                      /\ head.name = "EncryptionResponse")]
              /\ UNCHANGED <<toClient, garbled>>
         ELSE /\ garbled' = garbled \cup {n}
              /\ Sends(n, "End")
              /\ server' = [server EXCEPT ![n].state = "closed"]
  /\ UNCHANGED client

-----------------------------------------------------------------------------
Init ==
  /\ version \in LoginVersions
  /\ connections = 0
  /\ socket = None /\ file = None
  /\ encryption = FALSE /\ compression = FALSE
  /\ reactor = "login"
  /\ queue = <<>>
  /\ thread = [at |-> "none", interrupt |-> FALSE, next |-> "none"]
  /\ reading = Nothing
  /\ server = [n \in Connections |-> NoServer]
  /\ toServer = [n \in Connections |-> <<>>]
  /\ toClient = [n \in Connections |-> <<>>]
  /\ userPackets = 0
  /\ garbled = {} /\ overtaken = {} /\ announced = {}

React ==
  \/ ReactEncryptionRequest \/ ReactSetCompression \/ ReactPluginRequest
  \/ ReactLoginSuccess \/ ReactFinishConfiguration \/ ReactJoinGame
  \/ ReactDisconnect \/ ReactsNot

ThreadStep ==
  \/ NetworkWrites \/ TakesOver \/ Exits
  \/ BeginsRead \/ BindsStream \/ StreamCloses \/ TimesOut
  \/ ReadsBytes \/ ReadsEnd \/ ReadsPart \/ SpinEnds \/ ReadsGarbage
  \/ Parses \/ ParsesGarbage
  \/ React \/ Join \/ Respond \/ WrapSocket \/ WrapFile \/ SetFlag

ServerStep(n) == ServerAsks(n) \/ ServerGoesOn(n) \/ ServerReads(n)

Next ==
  \/ ThreadStep
  \/ Connect \/ Disconnect \/ UserQueues \/ UserForces
  \/ \E n \in Connections : ServerStep(n) \/ ServerCloses(n)

\* The networking thread writes and reads in turn; the server goes on until
\* it closes.  Users need not do anything.
Fairness ==
  /\ SF_vars(NetworkWrites)
  /\ WF_vars(ThreadStep)
  /\ \A n \in Connections : WF_vars(ServerStep(n))

Spec == Init /\ [][Next]_vars /\ Fairness

-----------------------------------------------------------------------------
\* On every connection both sides read each packet under the modes it was
\* written under, whatever is asked for in which order, whatever users write
\* after the login and however connections follow each other.  Modes change
\* without a lock and packets are read without one, so there are exceptions,
\* and these are all: a packet that the user writes during the login; a new
\* connection that is made while the thread of the one before has read a
\* packet or reacts to it, and gets the answer, the 'set compression' or the
\* wrappers of that one; and the one before, whose last packet is then read
\* under the compression of the new one.
NothingGarbled == garbled \subseteq overtaken

\* A chat session, which is signed by the account's key, is announced only by
\* a Connection that was asked for encryption by the server that it joins or
\* by an earlier one: _encryption_enabled is never reset.
SessionsAreEncrypted ==
  \A n \in announced : \E m \in 1..n : "encryption" \in server[m].asked

\* Every login comes to an end: the play state is reached, or the connection
\* is closed and its thread ends.  The exceptions are a connection that ends
\* inside of a packet, for which the thread spins, and an overtaken one.
Settled ==
  \/ reactor = "play"
  \/ socket.number = 0 /\ thread.at \in {"none", "ended"}
  \/ thread.at = "spin"
  \/ connections \in overtaken
LoginSettles == <>[]Settled
==============================================================================
