------------------------ MODULE LoginProtocol_proofs ------------------------
(***************************************************************************)
(* For all versions and any number of connections and packets of the user: *)
(* a chat session is announced only where encryption was asked for, and     *)
(* both sides read each packet under the modes it was written under.        *)
(***************************************************************************)
EXTENDS LoginProtocol, TLAPS

USE LoginAssumption

Places == Encrypting \cup {"none", "loop", "bind", "select", "parse", "react",
                           "spin", "ended"}
States == {"none", "hello", "start", "login", "awaitPlugin", "awaitEncryption",
           "awaitLogin", "configuration", "awaitFinish", "join", "play",
           "closed"}
ClientPackets ==
  {"HandShake", "LoginStart", "EncryptionResponse", "PluginResponse",
   "LoginAcknowledged", "ClientInformation", "FinishConfiguration",
   "PlayerSession", "Chat"}
ServerPackets ==
  {"EncryptionRequest", "SetCompression", "PluginRequest", "LoginSuccess",
   "FinishConfiguration", "JoinGame", "Disconnect", "End", "Part"}

Reactors == {"login", "configuration", "play"}

Thread == [at : Places, interrupt : BOOLEAN,
           next : {"none", "waiting", "interrupted"}]
Stream == [number : Nat, encrypted : BOOLEAN]
Message == [name : ServerPackets \cup {"none"}, encrypted : BOOLEAN,
            compressed : BOOLEAN]
Reading == [reactor : Reactors, number : Nat, packet : Message]
Server == [state : States, encrypted : BOOLEAN, compressed : BOOLEAN,
           asked : SUBSET {"plugin", "encryption"}]

\* Some server so far has asked for encryption.
Asked == \E m \in 1..connections : "encryption" \in server[m].asked

StreamsType ==
  /\ connections \in 0..MaxConnections
  /\ socket \in Stream /\ socket.number \in {0, connections}
  /\ file \in Stream /\ file.number \in {0, connections}
  /\ thread \in Thread /\ reading \in Reading /\ reactor \in Reactors
  /\ thread.at = "select" => reading.number # 0

ServerType == server \in [Connections -> Server]

ChannelType ==
  /\ toClient \in [Connections -> Seq(Message)]
  /\ queue \in Seq(ClientPackets)

\* Whatever leads to a session, from the request on, comes after a server
\* has asked.
Justified ==
  /\ \A n \in Connections : \A i \in DOMAIN toClient[n] :
       toClient[n][i].name = "EncryptionRequest" => Asked
  /\ reading.packet.name = "EncryptionRequest" => Asked
  /\ thread.at \in Encrypting => Asked
  /\ encryption => Asked
  /\ \A i \in DOMAIN queue : queue[i] = "PlayerSession" => Asked

SessionInv ==
  /\ StreamsType /\ ServerType /\ ChannelType
  /\ Justified
  /\ announced \subseteq 1..connections
  /\ SessionsAreEncrypted

-----------------------------------------------------------------------------
LEMMA NothingFacts ==
  Nothing \in Reading /\ Nothing.packet.name # "EncryptionRequest"
<1>1. Nothing.packet \in Message /\ Nothing.packet.name = "none"
  BY DEF Nothing, Message
<1>2. Nothing.reactor \in Reactors /\ Nothing.number \in Nat
  BY DEF Nothing, Reactors
<1>3. QED
  BY <1>1, <1>2 DEF Nothing, Reading

\* The Connection before its first connect().
LEMMA SessionInitInv == Init => SessionInv
<1> SUFFICES ASSUME Init PROVE SessionInv
  OBVIOUS
<1>1. StreamsType
  <2>1. None \in Stream /\ None.number = 0
    BY DEF None, Stream
  <2>2. thread \in Thread /\ thread.at = "none"
    BY DEF Init, Thread, Places
  <2>3. connections = 0 /\ socket = None /\ file = None
    BY DEF Init
  <2>4. 0 \in 0..MaxConnections
    OBVIOUS
  <2>5. Nothing \in Reading
    BY NothingFacts
  <2>6. reading = Nothing /\ reactor \in Reactors
    BY DEF Init, Reactors
  <2>7. QED
    BY <2>1, <2>2, <2>3, <2>4, <2>5, <2>6 DEF StreamsType
<1>2. ServerType
  <2>1. NoServer \in Server
    BY DEF NoServer, Server, States
  <2>2. QED
    BY <2>1 DEF Init, ServerType
<1>3. ChannelType
  BY DEF Init, ChannelType
<1>4. Justified
  BY NothingFacts DEF Init, Justified, Encrypting
<1>5. QED
  BY <1>1, <1>2, <1>3, <1>4 DEF Init, SessionInv, SessionsAreEncrypted

\* Elements of sequences, as the steps change them.
LEMMA TailElement ==
  ASSUME NEW S, NEW s \in Seq(S), s # <<>>
  PROVE  /\ Tail(s) \in Seq(S)
         /\ Head(s) \in S
         /\ 1 \in DOMAIN s /\ Head(s) = s[1]
         /\ \A i \in DOMAIN Tail(s) :
              i + 1 \in DOMAIN s /\ Tail(s)[i] = s[i + 1]
  OBVIOUS

\* An element of a longer sequence is the new one or an old one.
LEMMA AppendElement ==
  ASSUME NEW S, NEW s \in Seq(S), NEW e \in S
  PROVE  /\ Append(s, e) \in Seq(S)
         /\ \A i \in DOMAIN Append(s, e) :
              Append(s, e)[i] = e \/ (i \in DOMAIN s /\ Append(s, e)[i] = s[i])
  OBVIOUS

\* What a server has asked for is not forgotten.
LEMMA AskedStays ==
  ASSUME SessionInv, connections' \in {connections, connections + 1},
         \A m \in 1..connections : server[m].asked \subseteq server'[m].asked
  PROVE  /\ Asked => Asked'
         /\ announced' = announced =>
              announced' \subseteq 1..connections' /\ SessionsAreEncrypted'
<1>1. connections \in Nat
  BY DEF SessionInv, StreamsType
<1>2. 1..connections \subseteq 1..connections'
  BY <1>1
<1>3. Asked => Asked'
  BY <1>2 DEF Asked
<1>4. ASSUME announced' = announced
      PROVE  announced' \subseteq 1..connections' /\ SessionsAreEncrypted'
  <2>1. announced' \subseteq 1..connections'
    BY <1>2, <1>4 DEF SessionInv
  <2>2. ASSUME NEW n \in announced'
        PROVE  \E m \in 1..n : "encryption" \in server'[m].asked
    <3>1. PICK m \in 1..n : "encryption" \in server[m].asked
      BY <1>4, <2>2 DEF SessionInv, SessionsAreEncrypted
    <3>2. m \in 1..connections
      BY <1>1, <1>4, <3>1 DEF SessionInv
    <3>3. QED
      BY <3>1, <3>2
  <2>3. QED
    BY <2>1, <2>2 DEF SessionsAreEncrypted
<1>5. QED
  BY <1>3, <1>4

\* Only PlayerSessions that are justified are written.
Announced ==
  \/ UNCHANGED announced
  \/ \E names :
       /\ socket.number # 0 /\ Announces(names)
       /\ \A i \in DOMAIN names : names[i] = "PlayerSession" => Asked

\* The steps that leave the servers alone.
LEMMA ClientSteps ==
  ASSUME SessionInv, UNCHANGED <<connections, server>>, Announced,
         StreamsType', ChannelType', Justified'
  PROVE  SessionInv'
<1>1. connections' = connections /\ server' = server
  OBVIOUS
<1>2. announced' \subseteq 1..connections' /\ SessionsAreEncrypted'
  <2>1. CASE UNCHANGED announced
    <3>1. \A m \in 1..connections : server[m].asked \subseteq server'[m].asked
      BY <1>1
    <3>2. QED
      BY <1>1, <2>1, <3>1, AskedStays
  <2>2. CASE ~UNCHANGED announced
    <3>1. PICK names :
            /\ socket.number # 0 /\ Announces(names)
            /\ \A i \in DOMAIN names : names[i] = "PlayerSession" => Asked
      BY <2>2 DEF Announced
    <3>2. socket.number = connections /\ connections \in Nat
      BY <3>1 DEF SessionInv, StreamsType
    <3>3. announced' = announced \cup {connections} /\ Asked
      BY <2>2, <3>1, <3>2 DEF Announces
    <3>4. connections \in 1..connections
      BY <3>1, <3>2
    <3>5. \A n \in announced' : \E m \in 1..n : "encryption" \in server[m].asked
      <4>1. \E m \in 1..connections : "encryption" \in server[m].asked
        BY <3>3 DEF Asked
      <4>2. QED
        BY <3>3, <4>1 DEF SessionInv, SessionsAreEncrypted
    <3>6. QED
      BY <1>1, <3>3, <3>4, <3>5 DEF SessionInv, SessionsAreEncrypted
  <2>3. QED
    BY <2>1, <2>2
<1>3. ServerType'
  BY <1>1 DEF SessionInv, ServerType
<1>4. QED
  BY <1>2, <1>3 DEF SessionInv

\* The same, by what they leave of the channel, the queue and the thread.
LEMMA ThreadSteps ==
  ASSUME SessionInv, UNCHANGED <<connections, server, encryption>>, Announced,
         StreamsType', toClient' \in [Connections -> Seq(Message)],
         \A n \in Connections : \A i \in DOMAIN toClient'[n] :
           \E j \in DOMAIN toClient[n] : toClient'[n][i] = toClient[n][j],
         queue' \in Seq(ClientPackets),
         \A i \in DOMAIN queue' : queue'[i] = "PlayerSession" => Asked,
         thread'.at \in Encrypting =>
           \/ thread.at \in Encrypting
           \/ reading.packet.name = "EncryptionRequest",
         reading'.packet.name = "EncryptionRequest" => Asked
  PROVE  SessionInv'
<1>1. Asked' = Asked
  BY DEF Asked
<1>2. ChannelType'
  BY DEF ChannelType
<1>3. Justified'
  <2>1. \A n \in Connections : \A i \in DOMAIN toClient'[n] :
          toClient'[n][i].name = "EncryptionRequest" => Asked
    BY DEF SessionInv, Justified
  <2>2. thread'.at \in Encrypting => Asked
    BY DEF SessionInv, Justified
  <2>3. encryption' => Asked
    BY DEF SessionInv, Justified
  <2>4. QED
    BY <1>1, <2>1, <2>2, <2>3 DEF Justified
<1>4. QED
  BY <1>2, <1>3, ClientSteps

\* The steps of the thread that read nothing and write no session.
LEMMA LocalSteps ==
  ASSUME SessionInv,
         UNCHANGED <<connections, server, encryption, announced, toClient,
                     queue>>,
         StreamsType',
         thread'.at \in Encrypting =>
           \/ thread.at \in Encrypting
           \/ reading.packet.name = "EncryptionRequest",
         reading' = Nothing \/ reading'.packet \in {reading.packet, Nothing.packet}
  PROVE  SessionInv'
<1>1. /\ toClient \in [Connections -> Seq(Message)]
      /\ queue \in Seq(ClientPackets)
      /\ \A i \in DOMAIN queue : queue[i] = "PlayerSession" => Asked
      /\ reading.packet.name = "EncryptionRequest" => Asked
  BY DEF SessionInv, ChannelType, Justified
<1>2. reading'.packet.name = "EncryptionRequest" => Asked
  BY <1>1, NothingFacts
<1>3. Announced
  BY DEF Announced
<1>4. QED
  BY <1>1, <1>2, <1>3, ThreadSteps

\* The thread that fails holds no wrapper any more.
LEMMA FailsStreams ==
  ASSUME SessionInv, Fails, UNCHANGED <<connections, reactor>>
  PROVE  StreamsType' /\ thread'.at \notin Encrypting /\ reading' = Nothing
<1>1. None \in Stream /\ None.number = 0
  BY DEF None, Stream
<1>2. thread' \in Thread /\ thread'.at = "ended"
  BY DEF Fails, SessionInv, StreamsType, Thread, Places
<1>3. socket' \in {socket, None} /\ file' \in {file, None} /\ reading' = Nothing
  BY DEF Fails
<1>4. QED
  BY <1>1, <1>2, <1>3, NothingFacts DEF SessionInv, StreamsType, Encrypting

\* disconnect(): what is left of the streams and of the queue.
LEMMA ClosesFacts ==
  ASSUME SessionInv, Closes, UNCHANGED <<connections, server>>
  PROVE  /\ socket' \in Stream /\ socket'.number \in {0, connections}
         /\ file' \in Stream /\ file'.number \in {0, connections}
         /\ queue' \in Seq(ClientPackets)
         /\ \A i \in DOMAIN queue' : queue'[i] = "PlayerSession" => Asked
         /\ Announced
<1>1. /\ socket \in Stream /\ socket.number \in {0, connections}
      /\ file \in Stream /\ file.number \in {0, connections}
      /\ queue \in Seq(ClientPackets)
      /\ \A i \in DOMAIN queue : queue[i] = "PlayerSession" => Asked
  BY DEF SessionInv, StreamsType, ChannelType, Justified
<1>2. None \in Stream /\ None.number = 0
  BY DEF None, Stream
<1>3. CASE socket.number # 0
  BY <1>1, <1>2, <1>3 DEF Closes, Announced
<1>4. CASE socket.number = 0
  BY <1>1, <1>4 DEF Closes, Announced
<1>5. QED
  BY <1>3, <1>4

\* What is sent is added.
LEMMA SendsChannel ==
  ASSUME SessionInv, NEW n \in Connections, NEW name \in ServerPackets,
         Sends(n, name)
  PROVE  /\ toClient' \in [Connections -> Seq(Message)]
         /\ \A m \in Connections : \A i \in DOMAIN toClient'[m] :
              \/ toClient'[m][i].name = name
              \/ \E j \in DOMAIN toClient[m] : toClient'[m][i] = toClient[m][j]
<1> DEFINE e == [name |-> name, encrypted |-> server[n].encrypted,
                 compressed |-> server[n].compressed]
           s == toClient[n]
<1>1. e \in Message /\ e.name = name
  BY DEF SessionInv, ServerType, Server, Message
<1>2. s \in Seq(Message)
  BY DEF SessionInv, ChannelType
<1>3. toClient' = [toClient EXCEPT ![n] = Append(s, e)]
  BY DEF Sends
<1>4. /\ Append(s, e) \in Seq(Message)
      /\ \A i \in DOMAIN Append(s, e) :
           Append(s, e)[i] = e \/ (i \in DOMAIN s /\ Append(s, e)[i] = s[i])
  BY <1>1, <1>2, AppendElement
<1>5. toClient' \in [Connections -> Seq(Message)]
  BY <1>3, <1>4 DEF SessionInv, ChannelType
<1>6. ASSUME NEW m \in Connections, NEW i \in DOMAIN toClient'[m]
      PROVE  \/ toClient'[m][i].name = name
             \/ \E j \in DOMAIN toClient[m] : toClient'[m][i] = toClient[m][j]
  <2>1. CASE m = n
    <3>1. toClient'[m] = Append(s, e)
      BY <1>3, <2>1 DEF SessionInv, ChannelType
    <3>2. QED
      BY <1>1, <1>4, <1>6, <2>1, <3>1
  <2>2. CASE m # n
    BY <1>3, <1>6, <2>2 DEF SessionInv, ChannelType
  <2>3. QED
    BY <2>1, <2>2
<1>7. QED
  BY <1>5, <1>6

\* A packet more in the queue.
LEMMA QueueGrows ==
  ASSUME SessionInv, NEW name \in ClientPackets, queue' = Append(queue, name),
         name = "PlayerSession" => Asked
  PROVE  /\ queue' \in Seq(ClientPackets)
         /\ \A i \in DOMAIN queue' : queue'[i] = "PlayerSession" => Asked
<1>1. queue \in Seq(ClientPackets)
  BY DEF SessionInv, ChannelType
<1>2. /\ queue' \in Seq(ClientPackets)
      /\ \A i \in DOMAIN queue' :
           queue'[i] = name \/ (i \in DOMAIN queue /\ queue'[i] = queue[i])
  BY <1>1, AppendElement
<1>3. QED
  BY <1>2 DEF SessionInv, Justified

\* The reactions to the packets of the server.
LEMMA ReactInv == SessionInv /\ React => SessionInv'
<1> SUFFICES ASSUME SessionInv, React PROVE SessionInv'
  OBVIOUS
<1>1. /\ queue \in Seq(ClientPackets)
      /\ \A i \in DOMAIN queue : queue[i] = "PlayerSession" => Asked
      /\ toClient \in [Connections -> Seq(Message)]
      /\ thread \in Thread /\ thread.at = "react"
      /\ StreamsType
  BY DEF SessionInv, StreamsType, ChannelType, Justified, React,
     ReactEncryptionRequest, ReactSetCompression, ReactPluginRequest,
     ReactLoginSuccess, ReactFinishConfiguration, ReactJoinGame,
     ReactDisconnect, ReactsNot, Reacts
<1>2. ASSUME Turns
      PROVE  /\ thread' \in Thread /\ thread'.at = "loop"
             /\ thread'.at \notin Encrypting
             /\ reading' = Nothing /\ reading' \in Reading
  BY <1>1, <1>2, NothingFacts DEF Turns, Thread, Places, Encrypting
\* The ones that turn, by what they queue.
<1>3. ASSUME Turns, UNCHANGED <<connections, server, encryption, announced,
                                socket, file, toClient>>,
             reactor' \in Reactors, queue' \in Seq(ClientPackets),
             \A i \in DOMAIN queue' : queue'[i] = "PlayerSession" => Asked
      PROVE  SessionInv'
  <2>1. StreamsType'
    BY <1>1, <1>2, <1>3 DEF StreamsType
  <2>2. Announced
    BY <1>3 DEF Announced
  <2>3. toClient' \in [Connections -> Seq(Message)]
    BY <1>1, <1>3
  <2>4. \A n \in Connections : \A i \in DOMAIN toClient'[n] :
          \E j \in DOMAIN toClient[n] : toClient'[n][i] = toClient[n][j]
    BY <1>3
  <2>5. reading'.packet.name # "EncryptionRequest"
    BY <1>2, <1>3, NothingFacts
  <2>6. QED
    BY <1>2, <1>3, <2>1, <2>2, <2>3, <2>4, <2>5, ThreadSteps
<1>4. reactor \in Reactors
  BY <1>1 DEF StreamsType
<1>5. CASE ReactEncryptionRequest
  <2>1. thread' \in Thread /\ thread'.at = "join" /\ reading' = Nothing
    BY <1>1, <1>5 DEF ReactEncryptionRequest, Thread, Places, Encrypting
  <2>2. StreamsType'
    BY <1>1, <1>5, <2>1, NothingFacts DEF ReactEncryptionRequest, StreamsType
  <2>3. reading.packet.name = "EncryptionRequest"
    BY <1>5 DEF ReactEncryptionRequest, Reacts
  <2>4. QED
    BY <1>5, <2>1, <2>2, <2>3, LocalSteps DEF ReactEncryptionRequest
<1>6. CASE ReactSetCompression
  BY <1>1, <1>3, <1>4, <1>6 DEF ReactSetCompression
<1>7. CASE ReactsNot
  BY <1>1, <1>3, <1>4, <1>7 DEF ReactsNot
<1>8. CASE ReactPluginRequest
  <2>1. "PluginResponse" \in ClientPackets /\ "PluginResponse" # "PlayerSession"
    BY DEF ClientPackets
  <2>2. /\ queue' \in Seq(ClientPackets)
        /\ \A i \in DOMAIN queue' : queue'[i] = "PlayerSession" => Asked
    BY <1>8, <2>1, QueueGrows DEF ReactPluginRequest
  <2>3. QED
    BY <1>3, <1>4, <1>8, <2>2 DEF ReactPluginRequest
<1>9. CASE ReactLoginSuccess
  <2>1. /\ LoginReplies \in Seq(ClientPackets)
        /\ \A i \in DOMAIN LoginReplies : LoginReplies[i] # "PlayerSession"
    <3>1. "LoginAcknowledged" \in ClientPackets
          /\ "ClientInformation" \in ClientPackets
      BY DEF ClientPackets
    <3>2. CASE LoginReplies = <<>>
      BY <3>2
    <3>3. CASE LoginReplies = <<"LoginAcknowledged", "ClientInformation">>
      BY <3>1, <3>3
    <3>4. QED
      BY <3>2, <3>3 DEF LoginReplies
  <2>2. queue' = queue \o LoginReplies /\ reactor' \in Reactors
    BY <1>9 DEF ReactLoginSuccess, Reactors
  <2>3. /\ queue' \in Seq(ClientPackets)
        /\ \A i \in DOMAIN queue' :
             \/ i \in DOMAIN queue /\ queue'[i] = queue[i]
             \/ \E j \in DOMAIN LoginReplies : queue'[i] = LoginReplies[j]
    <3>1. \A i \in DOMAIN queue' :
             \/ i \in DOMAIN queue /\ queue'[i] = queue[i]
             \/ /\ i - Len(queue) \in DOMAIN LoginReplies
                /\ queue'[i] = LoginReplies[i - Len(queue)]
      BY <1>1, <2>1, <2>2
    <3>2. QED
      BY <1>1, <2>1, <2>2, <3>1
  <2>4. \A i \in DOMAIN queue' : queue'[i] = "PlayerSession" => Asked
    BY <1>1, <2>1, <2>3
  <2>5. QED
    BY <1>3, <1>9, <2>2, <2>3, <2>4 DEF ReactLoginSuccess
<1>10. CASE ReactFinishConfiguration
  <2>1. /\ "FinishConfiguration" \in ClientPackets
        /\ "FinishConfiguration" # "PlayerSession"
    BY DEF ClientPackets
  <2>2. /\ queue' \in Seq(ClientPackets) /\ reactor' \in Reactors
        /\ \A i \in DOMAIN queue' : queue'[i] = "PlayerSession" => Asked
    BY <1>10, <2>1, QueueGrows DEF ReactFinishConfiguration, Reactors
  <2>3. QED
    BY <1>3, <1>10, <2>2 DEF ReactFinishConfiguration
<1>11. CASE ReactJoinGame
  <2>1. "PlayerSession" \in ClientPackets
    BY DEF ClientPackets
  <2>2. StartsSession => Asked
    BY DEF StartsSession, SessionInv, Justified
  <2>3. /\ queue' \in Seq(ClientPackets)
        /\ \A i \in DOMAIN queue' : queue'[i] = "PlayerSession" => Asked
    <3>1. CASE StartsSession
      BY <1>11, <2>1, <2>2, <3>1, QueueGrows DEF ReactJoinGame
    <3>2. CASE ~StartsSession
      BY <1>1, <1>11, <3>2 DEF ReactJoinGame
    <3>3. QED
      BY <3>1, <3>2
  <2>4. QED
    BY <1>3, <1>4, <1>11, <2>3 DEF ReactJoinGame
<1>12. CASE ReactDisconnect
  <2>1. UNCHANGED <<connections, server, encryption, reactor, toClient>>
    BY <1>12 DEF ReactDisconnect
  <2>2. CASE Fails /\ UNCHANGED <<queue, announced>>
    <3>1. StreamsType' /\ thread'.at \notin Encrypting /\ reading' = Nothing
      BY <2>1, <2>2, FailsStreams
    <3>2. QED
      BY <2>1, <2>2, <3>1, LocalSteps
  <2>3. CASE /\ Closes
             /\ thread' = [Interrupted(thread) EXCEPT !.at = "loop"]
             /\ reading' = Nothing
    <3>1. /\ socket' \in Stream /\ socket'.number \in {0, connections}
          /\ file' \in Stream /\ file'.number \in {0, connections}
          /\ queue' \in Seq(ClientPackets)
          /\ \A i \in DOMAIN queue' : queue'[i] = "PlayerSession" => Asked
          /\ Announced
      BY <2>1, <2>3, ClosesFacts
    <3>2. /\ thread' \in Thread /\ thread'.at = "loop"
          /\ thread'.at \notin Encrypting
      BY <1>1, <2>3 DEF Interrupted, Thread, Places, Encrypting
    <3>3. StreamsType'
      BY <1>1, <2>1, <2>3, <3>1, <3>2, NothingFacts DEF StreamsType
    <3>4. toClient' \in [Connections -> Seq(Message)]
      BY <1>1, <2>1
    <3>5. \A n \in Connections : \A i \in DOMAIN toClient'[n] :
            \E j \in DOMAIN toClient[n] : toClient'[n][i] = toClient[n][j]
      BY <2>1
    <3>6. reading'.packet.name # "EncryptionRequest"
      BY <2>3, NothingFacts
    <3>7. QED
      BY <2>1, <3>1, <3>2, <3>3, <3>4, <3>5, <3>6, ThreadSteps
  <2>4. QED
    BY <1>12, <2>2, <2>3 DEF ReactDisconnect
<1>13. QED
  BY <1>5, <1>6, <1>7, <1>8, <1>9, <1>10, <1>11, <1>12 DEF React

-----------------------------------------------------------------------------
\* The steps in which the thread reads.
ReadStep ==
  \/ BeginsRead \/ BindsStream \/ StreamCloses \/ TimesOut \/ ReadsBytes
  \/ ReadsEnd \/ ReadsPart \/ SpinEnds \/ ReadsGarbage \/ Parses
  \/ ParsesGarbage

LEMMA ReadStepInv == SessionInv /\ ReadStep => SessionInv'
<1> SUFFICES ASSUME SessionInv, ReadStep PROVE SessionInv'
  OBVIOUS
<1>1. /\ StreamsType /\ socket \in Stream /\ file \in Stream
      /\ thread \in Thread /\ reading \in Reading /\ reactor \in Reactors
  BY DEF SessionInv, StreamsType
<1>2. ASSUME Fails,
             UNCHANGED <<connections, reactor, server, announced, encryption,
                         queue, toClient>>
      PROVE  SessionInv'
  <2>1. StreamsType' /\ thread'.at \notin Encrypting /\ reading' = Nothing
    BY <1>2, FailsStreams
  <2>2. QED
    BY <1>2, <2>1, LocalSteps
<1>3. ASSUME UNCHANGED <<connections, reactor, server, announced, encryption,
                         queue, toClient, socket, file>>,
             thread' \in Thread, thread'.at \notin Encrypting,
             reading' \in Reading,
             thread'.at = "select" => reading'.number # 0,
             reading'.packet \in {reading.packet, Nothing.packet}
      PROVE  SessionInv'
  <2>1. StreamsType'
    BY <1>1, <1>3 DEF StreamsType
  <2>2. QED
    BY <1>3, <2>1, LocalSteps
<1>4. ASSUME Turns
      PROVE  /\ thread' \in Thread /\ thread'.at = "loop"
             /\ thread'.at \notin Encrypting
             /\ reading' \in Reading /\ reading'.packet = Nothing.packet
  BY <1>1, <1>4, NothingFacts DEF Turns, Thread, Places, Encrypting
<1>5. CASE BeginsRead
  <2>1. thread' \in Thread /\ thread'.at \notin Encrypting \cup {"select"}
    BY <1>1, <1>5 DEF BeginsRead, Thread, Places, Encrypting
  <2>2. QED
    BY <1>1, <1>3, <1>5, <2>1 DEF BeginsRead
<1>6. CASE BindsStream
  <2>1. CASE file.number # 0
    <3>1. thread' \in Thread /\ thread'.at \notin Encrypting
      BY <1>1, <1>6, <2>1 DEF BindsStream, Thread, Places, Encrypting
    <3>2. /\ reading' = [Nothing EXCEPT !.reactor = reactor,
                                        !.number = file.number]
          /\ UNCHANGED <<connections, reactor, server, announced, encryption,
                         queue, toClient, socket, file>>
      BY <1>6, <2>1 DEF BindsStream
    <3>3. file.number \in Nat
      BY <1>1 DEF Stream
    <3>4. /\ reading' \in Reading /\ reading'.packet = Nothing.packet
          /\ reading'.number # 0
      BY <1>1, <2>1, <3>2, <3>3, NothingFacts DEF Reading
    <3>5. QED
      BY <1>3, <3>1, <3>2, <3>4
  <2>2. CASE file.number = 0
    BY <1>2, <1>6, <2>2 DEF BindsStream
  <2>3. QED
    BY <2>1, <2>2
<1>7. CASE StreamCloses \/ ReadsEnd \/ SpinEnds \/ ReadsGarbage
  BY <1>2, <1>7 DEF StreamCloses, ReadsEnd, SpinEnds, ReadsGarbage
<1>8. CASE TimesOut
  BY <1>3, <1>4, <1>8 DEF TimesOut
<1>9. CASE ReadsPart
  <2>1. thread' \in Thread /\ thread'.at \notin Encrypting \cup {"select"}
    BY <1>1, <1>9 DEF ReadsPart, Thread, Places, Encrypting
  <2>2. QED
    BY <1>3, <1>9, <2>1, NothingFacts DEF ReadsPart
<1>10. CASE Parses
  <2>1. thread' \in Thread /\ thread'.at \notin Encrypting \cup {"select"}
    BY <1>1, <1>10 DEF Parses, Thread, Places, Encrypting
  <2>2. QED
    BY <1>1, <1>3, <1>10, <2>1 DEF Parses
<1>11. CASE ParsesGarbage
  BY <1>2, <1>3, <1>4, <1>11 DEF ParsesGarbage
<1>12. CASE ReadsBytes
  <2> DEFINE f == file.number
             s == toClient[f]
  <2>1. /\ s # <<>> /\ reading' = [reading EXCEPT !.packet = Head(s)]
        /\ thread' = [thread EXCEPT !.at = "parse"]
        /\ toClient' = [toClient EXCEPT ![f] = Tail(s)]
        /\ UNCHANGED <<connections, server, encryption, announced, socket,
                       file, reactor, queue>>
        /\ Head(s).name \notin {"End", "Part"}
        /\ thread.at = "select" /\ reading.number = f
    BY <1>12 DEF ReadsBytes, Arrived, First, Ends
  <2>2. f \in {0, connections} /\ connections \in 0..MaxConnections
    BY <1>1 DEF StreamsType
  <2>3. toClient \in [Connections -> Seq(Message)]
    BY DEF SessionInv, ChannelType
  <2>4. f \in Connections
    BY <1>1, <2>1, <2>2 DEF StreamsType, Connections
  <2>5. SessionInv'
    <3>1. s \in Seq(Message)
      BY <2>3, <2>4
    <3>2. /\ Tail(s) \in Seq(Message) /\ Head(s) \in Message
          /\ 1 \in DOMAIN s /\ Head(s) = s[1]
          /\ \A i \in DOMAIN Tail(s) :
               i + 1 \in DOMAIN s /\ Tail(s)[i] = s[i + 1]
      BY <2>1, <3>1, TailElement
    <3>3. /\ toClient' \in [Connections -> Seq(Message)]
          /\ toClient'[f] = Tail(s)
          /\ \A n \in Connections : n # f => toClient'[n] = toClient[n]
      BY <2>1, <2>3, <2>4, <3>2
    <3>4. ASSUME NEW n \in Connections, NEW i \in DOMAIN toClient'[n]
          PROVE  \E j \in DOMAIN toClient[n] : toClient'[n][i] = toClient[n][j]
      <4>1. CASE n = f
        <5>1. i \in DOMAIN Tail(s) /\ toClient'[n][i] = Tail(s)[i]
          BY <3>3, <3>4, <4>1
        <5>2. i + 1 \in DOMAIN s /\ Tail(s)[i] = s[i + 1]
          BY <3>2, <5>1
        <5>3. QED
          BY <4>1, <5>1, <5>2
      <4>2. CASE n # f
        BY <3>3, <3>4, <4>2
      <4>3. QED
        BY <4>1, <4>2
    <3>5. /\ thread' \in Thread /\ thread'.at \notin Encrypting \cup {"select"}
          /\ reading' \in Reading /\ reading'.packet = Head(s)
      BY <1>1, <2>1, <3>2 DEF Thread, Places, Encrypting, Reading
    <3>6. StreamsType'
      BY <1>1, <2>1, <3>5 DEF StreamsType
    <3>7. Head(s).name = "EncryptionRequest" => Asked
      BY <2>4, <3>2 DEF SessionInv, Justified
    <3>8. /\ queue \in Seq(ClientPackets)
          /\ \A i \in DOMAIN queue : queue[i] = "PlayerSession" => Asked
      BY DEF SessionInv, ChannelType, Justified
    <3>9. Announced
      BY <2>1 DEF Announced
    <3> HIDE DEF s, f
    <3>10. QED
      BY <2>1, <3>3, <3>4, <3>5, <3>6, <3>7, <3>8, <3>9, ThreadSteps
  <2>6. QED
    BY <2>5
<1>13. QED
  BY <1>5, <1>6, <1>7, <1>8, <1>9, <1>10, <1>11, <1>12 DEF ReadStep

\* The other steps of the networking thread.
LEMMA ThreadStepInv == SessionInv /\ ThreadStep => SessionInv'
<1> SUFFICES ASSUME SessionInv, ThreadStep PROVE SessionInv'
  OBVIOUS
<1>1. /\ queue \in Seq(ClientPackets) /\ StreamsType
      /\ \A i \in DOMAIN queue : queue[i] = "PlayerSession" => Asked
      /\ socket \in Stream /\ file \in Stream /\ thread \in Thread
      /\ toClient \in [Connections -> Seq(Message)]
  BY DEF SessionInv, ChannelType, StreamsType, Justified
<1>2. CASE NetworkWrites
  <2>1. queue # <<>> /\ 1 \in DOMAIN queue /\ Head(queue) = queue[1]
    BY <1>1, <1>2, TailElement DEF NetworkWrites
  <2>2. /\ queue' \in Seq(ClientPackets)
        /\ \A i \in DOMAIN queue' : queue'[i] = "PlayerSession" => Asked
    BY <1>1, <1>2, <2>1, TailElement DEF NetworkWrites
  <2>3. StreamsType'
    BY <1>1, <1>2 DEF NetworkWrites, StreamsType
  <2>4. Announced
    <3>1. \A i \in DOMAIN <<Head(queue)>> : <<Head(queue)>>[i] = Head(queue)
      OBVIOUS
    <3>2. QED
      BY <1>1, <1>2, <2>1, <3>1 DEF NetworkWrites, Announced
  <2>5. /\ UNCHANGED <<connections, server, encryption, thread, reading,
                       toClient>>
        /\ reading.packet.name = "EncryptionRequest" => Asked
    BY <1>2 DEF NetworkWrites, SessionInv, Justified
  <2>6. /\ toClient' \in [Connections -> Seq(Message)]
        /\ \A n \in Connections : \A i \in DOMAIN toClient'[n] :
             \E j \in DOMAIN toClient[n] : toClient'[n][i] = toClient[n][j]
        /\ thread'.at = thread.at
        /\ reading'.packet.name = reading.packet.name
    BY <1>1, <2>5
  <2>7. QED
    BY <2>2, <2>3, <2>4, <2>5, <2>6, ThreadSteps
<1>3. ASSUME UNCHANGED <<connections, server, announced, encryption, queue,
                         toClient, reading>>,
             StreamsType', thread'.at \in Encrypting => thread.at \in Encrypting
      PROVE  SessionInv'
  BY <1>3, LocalSteps
<1>4. CASE TakesOver
  <2>1. thread' \in Thread /\ thread'.at = "loop"
    BY <1>4 DEF TakesOver, Thread, Places
  <2>2. QED
    BY <1>1, <1>3, <1>4, <2>1 DEF TakesOver, StreamsType, Encrypting
<1>5. CASE Exits
  <2>1. thread' \in Thread /\ thread'.at = "ended"
    BY <1>1, <1>5 DEF Exits, Thread, Places
  <2>2. QED
    BY <1>1, <1>3, <1>5, <2>1 DEF Exits, StreamsType, Encrypting
<1>6. CASE React
  BY <1>6, ReactInv
<1>7. ASSUME Fails, UNCHANGED <<connections, reactor, server, announced,
                                encryption, queue, toClient>>
      PROVE  SessionInv'
  BY <1>7, FailsStreams, LocalSteps
<1>8. CASE Join
  <2>1. CASE Fails
    BY <1>7, <1>8, <2>1 DEF Join
  <2>2. CASE /\ thread' = [thread EXCEPT !.at = "respond"]
             /\ UNCHANGED <<reading, socket, file>>
    <3>1. thread' \in Thread
      BY <1>1, <2>2 DEF Thread, Places, Encrypting
    <3>2. QED
      BY <1>1, <1>3, <1>8, <2>2, <3>1 DEF Join, StreamsType, Encrypting
  <2>3. QED
    BY <1>8, <2>1, <2>2 DEF Join
<1>9. CASE Respond
  <2>1. CASE socket.number # 0
    <3>1. thread' \in Thread /\ thread'.at = "wrapSocket"
      BY <1>1, <1>9, <2>1 DEF Respond, Thread, Places, Encrypting
    <3>2. /\ UNCHANGED <<connections, server, announced, encryption, queue,
                          toClient, reading, socket, file, reactor>>
          /\ thread.at \in Encrypting
      BY <1>9, <2>1 DEF Respond, Encrypting
    <3>3. StreamsType'
      BY <1>1, <3>1, <3>2 DEF StreamsType
    <3>4. QED
      BY <1>3, <3>1, <3>2, <3>3
  <2>2. CASE socket.number = 0
    BY <1>7, <1>9, <2>2 DEF Respond
  <2>3. QED
    BY <2>1, <2>2
<1>10. CASE WrapSocket
  <2>1. /\ thread' \in Thread /\ socket' \in Stream
        /\ socket'.number = socket.number
    BY <1>1, <1>10 DEF WrapSocket, Thread, Places, Encrypting, Stream
  <2>2. QED
    BY <1>1, <1>3, <1>10, <2>1 DEF WrapSocket, StreamsType, Encrypting
<1>11. CASE WrapFile
  <2>1. thread' \in Thread /\ file' \in Stream /\ file'.number = file.number
    BY <1>1, <1>11 DEF WrapFile, Thread, Places, Encrypting, Stream
  <2>2. QED
    BY <1>1, <1>3, <1>11, <2>1 DEF WrapFile, StreamsType, Encrypting
<1>12. CASE SetFlag
  <2>1. thread' \in Thread /\ thread'.at = "loop"
    BY <1>1, <1>12 DEF SetFlag, Thread, Places
  <2>2. /\ StreamsType' /\ ChannelType' /\ Asked' = Asked
        /\ Asked
    BY <1>1, <1>12, <2>1
    DEF SetFlag, SessionInv, StreamsType, ChannelType, Asked, Justified,
        Encrypting
  <2>3. Justified'
    BY <1>1, <1>12, <2>1, <2>2 DEF SetFlag, SessionInv, Justified
  <2>4. Announced
    BY <1>12 DEF SetFlag, Announced
  <2>5. QED
    BY <1>12, <2>2, <2>3, <2>4, ClientSteps DEF SetFlag
<1>13. CASE ReadStep
  BY <1>13, ReadStepInv
<1>14. QED
  BY <1>2, <1>4, <1>5, <1>6, <1>8, <1>9, <1>10, <1>11, <1>12, <1>13
  DEF ThreadStep, ReadStep

-----------------------------------------------------------------------------
\* The steps of the user.
LEMMA UserInv ==
  SessionInv /\ (Connect \/ Disconnect \/ UserQueues \/ UserForces) =>
    SessionInv'
<1> SUFFICES ASSUME SessionInv,
                    Connect \/ Disconnect \/ UserQueues \/ UserForces
             PROVE  SessionInv'
  OBVIOUS
<1>1. /\ queue \in Seq(ClientPackets) /\ ChannelType /\ Justified /\ ServerType
      /\ StreamsType /\ thread \in Thread /\ connections \in Nat
  BY DEF SessionInv, ChannelType, StreamsType
<1>2. CASE UserQueues
  <2>1. "Chat" \in ClientPackets /\ "Chat" # "PlayerSession"
    BY DEF ClientPackets
  <2>2. /\ queue' \in Seq(ClientPackets)
        /\ \A i \in DOMAIN queue' : queue'[i] = "PlayerSession" => Asked
    BY <1>2, <2>1, QueueGrows DEF UserQueues
  <2>3. StreamsType' /\ ChannelType' /\ Asked' = Asked /\ Announced
    BY <1>1, <1>2, <2>2
    DEF UserQueues, StreamsType, ChannelType, Asked, Announced
  <2>4. Justified'
    BY <1>1, <1>2, <2>2, <2>3 DEF UserQueues, Justified
  <2>5. QED
    BY <1>2, <2>3, <2>4, ClientSteps DEF UserQueues
<1>3. CASE UserForces
  <2>1. StreamsType' /\ ChannelType' /\ Asked' = Asked /\ Announced
    BY <1>1, <1>3 DEF UserForces, StreamsType, ChannelType, Asked, Announced
  <2>2. Justified'
    BY <1>1, <1>3, <2>1 DEF UserForces, Justified
  <2>3. QED
    BY <1>3, <2>1, <2>2, ClientSteps DEF UserForces
<1>4. CASE Disconnect
  <2>1. /\ socket' \in Stream /\ socket'.number \in {0, connections}
        /\ file' \in Stream /\ file'.number \in {0, connections}
        /\ queue' \in Seq(ClientPackets)
        /\ \A i \in DOMAIN queue' : queue'[i] = "PlayerSession" => Asked
        /\ Announced
    BY <1>4, ClosesFacts DEF Disconnect
  <2>2. thread' \in Thread /\ thread'.at = thread.at
    BY <1>1, <1>4 DEF Disconnect, Interrupted, Thread
  <2>3. StreamsType' /\ ChannelType' /\ Asked' = Asked
    BY <1>1, <1>4, <2>1, <2>2 DEF Disconnect, StreamsType, ChannelType, Asked
  <2>4. Justified'
    BY <1>1, <1>4, <2>1, <2>2, <2>3 DEF Disconnect, Justified
  <2>5. QED
    BY <1>4, <2>1, <2>3, <2>4, ClientSteps DEF Disconnect
<1>5. CASE Connect
  <2>1. /\ connections' = connections + 1 /\ connections' \in Connections
        /\ socket' = [number |-> connections', encrypted |-> FALSE]
        /\ file' = socket'
        /\ queue' = <<"HandShake", "LoginStart">>
        /\ UNCHANGED <<encryption, announced>>
    BY <1>5 DEF Connect
  <2>2. thread' \in Thread /\ thread'.at \in {thread.at, "loop"}
    BY <1>1, <1>5 DEF Connect, Thread, Places
  <2>3. StreamsType'
    <3>1. reactor' \in Reactors /\ reading' = reading
      BY <1>5 DEF Connect, Reactors
    <3>2. QED
      BY <1>1, <2>1, <2>2, <3>1 DEF StreamsType, Stream, Connections
  <2>4. ServerType' /\ \A m \in Connections : server'[m].asked = server[m].asked
    <3>1. "hello" \in States /\ "none" \in States
      BY DEF States
    <3>2. ASSUME NEW m \in Connections
          PROVE  /\ [NoServer EXCEPT !.asked = server[m].asked,
                       !.state = IF m = connections' THEN "hello" ELSE "none"]
                      \in Server
                 /\ [NoServer EXCEPT !.asked = server[m].asked,
                       !.state = IF m = connections' THEN "hello" ELSE "none"]
                      .asked = server[m].asked
      BY <1>1, <3>1 DEF ServerType, Server, NoServer
    <3>3. server' = [m \in Connections |->
                       [NoServer EXCEPT !.asked = server[m].asked,
                          !.state = IF m = connections' THEN "hello" ELSE "none"]]
      BY <1>5 DEF Connect
    <3>4. QED
      BY <3>2, <3>3 DEF ServerType
  <2>5. 1..connections \subseteq Connections
    BY <1>1 DEF StreamsType, Connections
  <2>6. /\ Asked => Asked'
        /\ announced' \subseteq 1..connections' /\ SessionsAreEncrypted'
    BY <2>1, <2>4, <2>5, AskedStays
  <2>7. /\ queue' \in Seq(ClientPackets)
        /\ \A i \in DOMAIN queue' : queue'[i] # "PlayerSession"
    <3>1. "HandShake" \in ClientPackets /\ "LoginStart" \in ClientPackets
      BY DEF ClientPackets
    <3>2. QED
      BY <2>1, <3>1
  <2>8. toClient' = [m \in Connections |-> <<>>]
    BY <1>5 DEF Connect
  <2>9. ChannelType'
    BY <2>7, <2>8 DEF ChannelType
  <2>10. Justified'
    <3>1. reading' = reading
      BY <1>5 DEF Connect
    <3>2. QED
      BY <1>1, <2>1, <2>2, <2>6, <2>7, <2>8, <3>1 DEF Justified, Encrypting
  <2>11. QED
    BY <2>3, <2>4, <2>6, <2>9, <2>10 DEF SessionInv
<1>6. QED
  BY <1>2, <1>3, <1>4, <1>5

-----------------------------------------------------------------------------
\* The steps of a server, by what they send and what they have asked for.
LEMMA ServerSteps ==
  ASSUME SessionInv, UNCHANGED client, ServerType',
         \A m \in Connections : server[m].asked \subseteq server'[m].asked,
         NEW n \in Connections, NEW name \in ServerPackets,
         Sends(n, name) \/ UNCHANGED toClient,
         name = "EncryptionRequest" => Asked'
  PROVE  SessionInv'
<1>1. /\ StreamsType' /\ queue' \in Seq(ClientPackets) /\ connections \in Nat
      /\ UNCHANGED <<connections, thread, reading, queue, encryption, announced>>
      /\ 1..connections \subseteq Connections
  BY DEF SessionInv, StreamsType, ChannelType, client, Connections
<1>2. /\ Asked => Asked'
      /\ announced' \subseteq 1..connections' /\ SessionsAreEncrypted'
  BY <1>1, AskedStays
<1>3. /\ toClient' \in [Connections -> Seq(Message)]
      /\ \A m \in Connections : \A i \in DOMAIN toClient'[m] :
           \/ toClient'[m][i].name = name
           \/ \E j \in DOMAIN toClient[m] : toClient'[m][i] = toClient[m][j]
  <2>1. CASE Sends(n, name)
    BY <2>1, SendsChannel
  <2>2. CASE UNCHANGED toClient
    BY <2>2 DEF SessionInv, ChannelType
  <2>3. QED
    BY <2>1, <2>2
<1>4. ChannelType'
  BY <1>1, <1>3 DEF ChannelType
<1>5. Justified'
  BY <1>1, <1>2, <1>3 DEF SessionInv, Justified
<1>6. QED
  BY <1>1, <1>2, <1>4, <1>5 DEF SessionInv

\* The steps of the servers.
LEMMA ServerInv ==
  ASSUME SessionInv, NEW n \in Connections, ServerStep(n) \/ ServerCloses(n)
  PROVE  SessionInv'
<1> DEFINE s == server[n]
<1>1. /\ server \in [Connections -> Server] /\ s \in Server
      /\ StreamsType
  BY DEF SessionInv, ServerType
\* A server that changes in its state and its modes only.
<1>2. ASSUME NEW t \in Server, server' = [server EXCEPT ![n] = t],
             s.asked \subseteq t.asked
      PROVE  /\ ServerType'
             /\ \A m \in Connections :
                  server[m].asked \subseteq server'[m].asked
  BY <1>1, <1>2 DEF ServerType
<1>3. /\ \A name \in States : [s EXCEPT !.state = name] \in Server
      /\ \A name \in States : [s EXCEPT !.state = name].asked = s.asked
  BY <1>1 DEF Server
<1>4. CASE ServerAsks(n)
  <2>1. n \in 1..connections
    BY <1>1, <1>4 DEF ServerAsks, StreamsType, Connections
  <2>2. UNCHANGED client
    BY <1>4 DEF ServerAsks
  <2>3. CASE /\ Sends(n, "PluginRequest")
             /\ server' = [server EXCEPT ![n].state = "awaitPlugin",
                                         ![n].asked = @ \cup {"plugin"}]
    <3>1. PICK t \in Server : /\ server' = [server EXCEPT ![n] = t]
                              /\ s.asked \subseteq t.asked
      <4> DEFINE t == [s EXCEPT !.state = "awaitPlugin",
                                !.asked = @ \cup {"plugin"}]
      <4>1. t \in Server /\ s.asked \subseteq t.asked
        BY <1>1 DEF Server, States
      <4>2. server' = [server EXCEPT ![n] = t]
        BY <1>1, <2>3
      <4>3. QED
        BY <4>1, <4>2
    <3>2. "PluginRequest" \in ServerPackets
      BY DEF ServerPackets
    <3>3. QED
      BY <1>2, <2>2, <2>3, <3>1, <3>2, ServerSteps
  <2>4. CASE /\ Sends(n, "EncryptionRequest")
             /\ server' = [server EXCEPT ![n].state = "awaitEncryption",
                                         ![n].asked = @ \cup {"encryption"}]
    <3>1. PICK t \in Server : /\ server' = [server EXCEPT ![n] = t]
                              /\ s.asked \subseteq t.asked
                              /\ "encryption" \in t.asked
      <4> DEFINE t == [s EXCEPT !.state = "awaitEncryption",
                                !.asked = @ \cup {"encryption"}]
      <4>1. /\ t \in Server /\ s.asked \subseteq t.asked
            /\ "encryption" \in t.asked
        BY <1>1 DEF Server, States
      <4>2. server' = [server EXCEPT ![n] = t]
        BY <1>1, <2>4
      <4>3. QED
        BY <4>1, <4>2
    <3>2. "EncryptionRequest" \in ServerPackets
      BY DEF ServerPackets
    <3>3. Asked'
      BY <1>1, <2>1, <2>2, <3>1 DEF Asked, client
    <3>4. QED
      BY <1>2, <2>2, <2>4, <3>1, <3>2, <3>3, ServerSteps
  <2>5. CASE /\ Sends(n, "SetCompression")
             /\ server' = [server EXCEPT ![n].compressed = TRUE]
    <3>1. PICK t \in Server : /\ server' = [server EXCEPT ![n] = t]
                              /\ s.asked \subseteq t.asked
      <4> DEFINE t == [s EXCEPT !.compressed = TRUE]
      <4>1. t \in Server /\ s.asked \subseteq t.asked
        BY <1>1 DEF Server
      <4>2. server' = [server EXCEPT ![n] = t]
        BY <1>1, <2>5
      <4>3. QED
        BY <4>1, <4>2
    <3>2. "SetCompression" \in ServerPackets
      BY DEF ServerPackets
    <3>3. QED
      BY <1>2, <2>2, <2>5, <3>1, <3>2, ServerSteps
  <2>6. CASE /\ Sends(n, "LoginSuccess")
             /\ server' = [server EXCEPT ![n].state =
                             IF version >= 764 THEN "awaitLogin" ELSE "join"]
    <3>1. PICK t \in Server : /\ server' = [server EXCEPT ![n] = t]
                              /\ s.asked \subseteq t.asked
      <4> DEFINE name == IF version >= 764 THEN "awaitLogin" ELSE "join"
      <4>1. name \in States
        BY DEF States
      <4>2. server' = [server EXCEPT ![n] = [s EXCEPT !.state = name]]
        BY <1>1, <2>6
      <4>3. QED
        BY <1>3, <4>1, <4>2
    <3>2. "LoginSuccess" \in ServerPackets
      BY DEF ServerPackets
    <3>3. QED
      BY <1>2, <2>2, <2>6, <3>1, <3>2, ServerSteps
  <2>7. QED
    BY <1>4, <2>3, <2>4, <2>5, <2>6 DEF ServerAsks
<1>5. ASSUME NEW name \in ServerPackets, NEW state \in States,
             UNCHANGED client, Sends(n, name), name # "EncryptionRequest",
             server' = [server EXCEPT ![n].state = state]
      PROVE  SessionInv'
  <2>1. server' = [server EXCEPT ![n] = [s EXCEPT !.state = state]]
    BY <1>1, <1>5
  <2>2. QED
    BY <1>2, <1>3, <1>5, <2>1, ServerSteps
<1>6. CASE ServerGoesOn(n)
  <2>1. /\ {"FinishConfiguration", "JoinGame"} \subseteq ServerPackets
        /\ {"awaitFinish", "play"} \subseteq States
    BY DEF ServerPackets, States
  <2>2. QED
    BY <1>5, <1>6, <2>1 DEF ServerGoesOn
<1>7. CASE ServerCloses(n)
  <2>1. /\ {"Disconnect", "End", "Part"} \subseteq ServerPackets
        /\ "closed" \in States
    BY DEF ServerPackets, States
  <2>2. QED
    BY <1>5, <1>7, <2>1 DEF ServerCloses
<1>8. CASE ServerReads(n)
  <2> DEFINE head == Head(toServer[n])
             answered == s.encrypted \/ (s.state = "awaitEncryption"
                                         /\ head.name = "EncryptionResponse")
  <2>1. "End" \in ServerPackets /\ "closed" \in States
    BY DEF ServerPackets, States
  <2>2. UNCHANGED client
    BY <1>8 DEF ServerReads
  <2>3. CASE head.encrypted = s.encrypted /\ head.compressed = s.compressed
    <3>1. /\ server' = [server EXCEPT ![n].state = Steps(s.state, head.name),
                                      ![n].encrypted = answered]
          /\ UNCHANGED toClient
      BY <1>1, <1>8, <2>3 DEF ServerReads
    <3>2. Steps(s.state, head.name) \in States
      BY <1>1 DEF Steps, States, Server
    <3>3. PICK t \in Server : /\ server' = [server EXCEPT ![n] = t]
                              /\ s.asked \subseteq t.asked
      <4>1. PICK b \in BOOLEAN : b = answered
        <5>1. answered \in BOOLEAN
          BY <1>1 DEF Server
        <5>2. QED
          BY <5>1
      <4> DEFINE t == [s EXCEPT !.state = Steps(s.state, head.name),
                                !.encrypted = b]
      <4>2. t \in Server /\ s.asked \subseteq t.asked
        BY <1>1, <3>2 DEF Server
      <4>3. server' = [server EXCEPT ![n] = t]
        BY <1>1, <3>1, <4>1
      <4>4. QED
        BY <4>2, <4>3
    <3>4. QED
      BY <1>2, <2>1, <2>2, <3>1, <3>3, ServerSteps
  <2>4. CASE ~(head.encrypted = s.encrypted /\ head.compressed = s.compressed)
    BY <1>5, <1>8, <2>1, <2>2, <2>4 DEF ServerReads
  <2>5. QED
    BY <2>3, <2>4
<1>9. QED
  BY <1>4, <1>6, <1>7, <1>8 DEF ServerStep

\* Every step.
LEMMA SessionNextInv == SessionInv /\ [Next]_vars => SessionInv'
<1> SUFFICES ASSUME SessionInv, [Next]_vars PROVE SessionInv'
  OBVIOUS
<1>1. CASE ThreadStep
  BY <1>1, ThreadStepInv
<1>2. CASE Connect \/ Disconnect \/ UserQueues \/ UserForces
  BY <1>2, UserInv
<1>3. CASE \E n \in Connections : ServerStep(n) \/ ServerCloses(n)
  BY <1>3, ServerInv
<1>4. CASE UNCHANGED vars
  BY <1>4 DEF vars, client, SessionInv, StreamsType, ServerType, ChannelType,
     Justified, SessionsAreEncrypted, Asked
<1>5. QED
  BY <1>1, <1>2, <1>3, <1>4 DEF Next

\* For all versions, any number of connections and of packets of the user: a
\* chat session is announced only by a Connection that some server, this one
\* or an earlier one, has asked for encryption.
THEOREM SessionsEncrypted == Spec => []SessionsAreEncrypted
<1>1. SessionInv => SessionsAreEncrypted
  BY DEF SessionInv
<1>2. QED
  BY <1>1, SessionInitInv, SessionNextInv, PTL DEF Spec

-----------------------------------------------------------------------------
(* That both sides read each packet under the modes it was written under.   *)

HIDE LoginAssumption

\* The steps in which the thread switches on encryption for the two streams.
Switching == {"join", "respond", "wrapSocket", "wrapFile"}
After == {"awaitLogin", "configuration", "awaitFinish", "join", "play"}
LoginNames ==
  {"EncryptionRequest", "SetCompression", "PluginRequest", "LoginSuccess"}
Letter == [name : ClientPackets, encrypted : BOOLEAN, compressed : BOOLEAN]

\* The queue q, apart from the packets of the user, during the login.
AllChat(q) == \A i \in DOMAIN q : q[i] = "Chat"
HasOne(q, x) ==
  \E i \in DOMAIN q : q[i] = x /\ \A j \in DOMAIN q : j # i => q[j] = "Chat"
HasTwo(q) ==
  /\ Len(q) >= 2 /\ q[1] = "HandShake" /\ q[2] = "LoginStart"
  /\ \A i \in 3..Len(q) : q[i] = "Chat"

\* What the client has yet to write, or the server to read (ts): nothing, the
\* packet x, the two packets that open the login.
Idle(ts, q) == ts = <<>> /\ AllChat(q)
Owing(ts, q, x) ==
  \/ ts = <<>> /\ HasOne(q, x)
  \/ Len(ts) = 1 /\ ts[1].name = x /\ AllChat(q)
Opening(ts, q) ==
  \/ ts = <<>> /\ HasTwo(q)
  \/ Len(ts) = 1 /\ ts[1].name = "HandShake" /\ HasOne(q, "LoginStart")
  \/ /\ Len(ts) = 2 /\ ts[1].name = "HandShake" /\ ts[2].name = "LoginStart"
     /\ AllChat(q)

\* The client reads encrypted, or will before it reads on.
Ciphered(at, fe) == fe \/ at \in {"wrapSocket", "wrapFile"}

\* One of the first n packets to the client switches on compression.
Compresses(tc, n) == \E j \in 1..n : tc[j].name = "SetCompression"

\* The packets tc can be read one after the other, while the modes change.
Readable(tc, at, fe, k) ==
  /\ \A i \in DOMAIN tc : tc[i].name \notin Ends =>
       /\ tc[i].encrypted <=> Ciphered(at, fe)
       /\ tc[i].compressed <=> k \/ Compresses(tc, i - 1)
  /\ \A i \in DOMAIN tc : \A j \in 1..i - 1 :
       tc[j].name = "EncryptionRequest" => tc[i].name \in Ends
  /\ at \in {"join", "respond"} => \A i \in DOMAIN tc : tc[i].name \in Ends

\* The server can read the packets ts under its modes of now.
Agrees(s, ts) ==
  \A i \in DOMAIN ts : /\ ts[i].encrypted <=> s.encrypted
                       /\ ts[i].compressed <=> s.compressed

\* The stages of the login: what is under way while the server is in a state.
Starting(s, ts, tc, q, at, e) ==
  /\ s.encrypted <=> e
  /\ at \notin Switching /\ tc = <<>>
  /\ s.state = "hello" => Opening(ts, q)
  /\ s.state = "start" => Owing(ts, q, "LoginStart")
Compressing(tc) == \A i \in DOMAIN tc : tc[i].name = "SetCompression"
Choosing(s, ts, tc, q, at, e) ==
  /\ s.encrypted <=> e
  /\ at \notin {"join", "respond"}
  /\ Idle(ts, q) /\ Compressing(tc)
AsksPlugin(tc) ==
  /\ tc # <<>> /\ tc[Len(tc)].name = "PluginRequest"
  /\ \A i \in 1..Len(tc) - 1 : tc[i].name = "SetCompression"
AwaitingPlugin(s, ts, tc, q, at, e) ==
  /\ s.encrypted <=> e
  /\ at \notin {"join", "respond"}
  /\ \/ Idle(ts, q) /\ AsksPlugin(tc)
     \/ at \notin Switching /\ tc = <<>> /\ Owing(ts, q, "PluginResponse")
AwaitingEncryption(s, ts, tc, q, at, e) ==
  \/ /\ at \notin {"join", "respond"} /\ Idle(ts, q)
     /\ s.encrypted <=> e
     /\ Len(tc) = 1 /\ tc[1].name = "EncryptionRequest"
  \/ /\ at \in {"join", "respond"} /\ Idle(ts, q)
     /\ s.encrypted <=> e
     /\ tc = <<>>
  \/ /\ at \notin {"join", "respond"} /\ e /\ AllChat(q)
     /\ Len(ts) = 1 /\ ts[1].name = "EncryptionResponse"
     /\ tc = <<>>
Succeeds(tc) ==
  \E i \in DOMAIN tc :
    /\ tc[i].name = "LoginSuccess"
    /\ \A j \in 1..i - 1 : tc[j].name = "SetCompression"
    /\ \A j \in i + 1..Len(tc) : tc[j].name \notin LoginNames
Settles(tc) == \A i \in DOMAIN tc : tc[i].name \notin LoginNames
Afterwards(s, ts, tc, q, at, e, re) ==
  /\ s.encrypted <=> e
  /\ at \notin {"join", "respond"}
  /\ \/ re = "login" /\ Idle(ts, q) /\ Succeeds(tc)
     \/ re # "login" /\ at \notin Switching /\ Settles(tc)

Stage(s, ts, tc, q, at, e, re) ==
  /\ s.state \in After => Afterwards(s, ts, tc, q, at, e, re)
  /\ s.state \notin After => re = "login"
  /\ s.state \in {"hello", "start"} => Starting(s, ts, tc, q, at, e)
  /\ s.state = "login" => Choosing(s, ts, tc, q, at, e)
  /\ s.state = "awaitPlugin" => AwaitingPlugin(s, ts, tc, q, at, e)
  /\ s.state = "awaitEncryption" => AwaitingEncryption(s, ts, tc, q, at, e)

Gone(s) == s.state \in {"none", "closed"}

\* Nothing switches on compression any more when the login has succeeded.
Ordered(tc, re) ==
  /\ re # "login" => \A i \in DOMAIN tc : tc[i].name # "SetCompression"
  /\ \A i \in DOMAIN tc : \A j \in 1..i - 1 :
       tc[j].name = "LoginSuccess" => tc[i].name # "SetCompression"

\* A connection on which the client and the server s agree: ts and tc are
\* under way, q is the queue, 'at' the place of the thread, we and fe say
\* whether socket and file are encrypted, k whether packets are compressed
\* and re is the reactor.
Open(s, ts, tc, q, at, we, fe, k, re) ==
  /\ at # "wrapFile" => (we <=> fe)
  /\ at = "wrapFile" => we
  /\ Readable(tc, at, fe, k) /\ Ordered(tc, re)
  /\ ~Gone(s) =>
       /\ Agrees(s, ts)
       /\ s.compressed <=> k \/ Compresses(tc, Len(tc))
       /\ Stage(s, ts, tc, q, at, Ciphered(at, fe), re)

\* One that the client has closed.
Shut(s, ts) ==
  ~Gone(s) => Agrees(s, ts) /\ (s.state = "awaitEncryption" => Len(ts) <= 1)

\* The types of all this.
ViewType(s, ts, tc, q, at, we, fe, k, re) ==
  /\ s \in Server /\ ts \in Seq(Letter) /\ tc \in Seq(Message)
  /\ q \in Seq(ClientPackets) /\ at \in Places
  /\ we \in BOOLEAN /\ fe \in BOOLEAN /\ k \in BOOLEAN /\ re \in Reactors
-----------------------------------------------------------------------------
(* The queue.                                                               *)

\* One packet is written.
LEMMA QueuePops ==
  ASSUME NEW q \in Seq(ClientPackets), q # <<>>
  PROVE  /\ AllChat(q) => Head(q) = "Chat"
         /\ \A x : HasOne(q, x) /\ Head(q) # "Chat" =>
              Head(q) = x /\ AllChat(Tail(q))
         /\ HasTwo(q) => Head(q) = "HandShake" /\ HasOne(Tail(q), "LoginStart")
<1>1. /\ Len(q) \in Nat /\ Len(q) >= 1 /\ DOMAIN q = 1..Len(q)
      /\ Head(q) = q[1]
      /\ DOMAIN Tail(q) = 1..Len(q) - 1
      /\ \A i \in 1..Len(q) - 1 : Tail(q)[i] = q[i + 1]
  OBVIOUS
<1>2. AllChat(q) => Head(q) = "Chat"
  BY <1>1 DEF AllChat
<1>3. ASSUME NEW x, HasOne(q, x), Head(q) # "Chat"
      PROVE  Head(q) = x /\ AllChat(Tail(q))
  <2>1. PICK i \in DOMAIN q :
          q[i] = x /\ \A j \in DOMAIN q : j # i => q[j] = "Chat"
    BY <1>3 DEF HasOne
  <2>2. i = 1
    BY <1>1, <1>3, <2>1
  <2>3. \A j \in 1..Len(q) - 1 : j + 1 \in DOMAIN q /\ j + 1 # i
    BY <1>1, <2>2
  <2>4. QED
    BY <1>1, <2>1, <2>2, <2>3 DEF AllChat
<1>4. ASSUME HasTwo(q)
      PROVE  Head(q) = "HandShake" /\ HasOne(Tail(q), "LoginStart")
  <2>1. 1 \in DOMAIN Tail(q) /\ Tail(q)[1] = "LoginStart"
    BY <1>1, <1>4 DEF HasTwo
  <2>2. \A j \in DOMAIN Tail(q) : j # 1 => Tail(q)[j] = "Chat"
    BY <1>1, <1>4 DEF HasTwo
  <2>3. QED
    BY <1>1, <1>4, <2>1, <2>2 DEF HasTwo, HasOne
<1>5. QED
  BY <1>2, <1>3, <1>4

\* The user queues a packet, or the reactor one.
LEMMA QueueAppends ==
  ASSUME NEW q \in Seq(ClientPackets), NEW y \in ClientPackets
  PROVE  /\ AllChat(q) => HasOne(Append(q, y), y)
         /\ y = "Chat" =>
              /\ AllChat(q) => AllChat(Append(q, y))
              /\ \A x : HasOne(q, x) => HasOne(Append(q, y), x)
              /\ HasTwo(q) => HasTwo(Append(q, y))
<1> DEFINE r == Append(q, y)
<1>1. /\ Len(q) \in Nat /\ DOMAIN q = 1..Len(q)
      /\ DOMAIN r = 1..Len(q) + 1 /\ Len(r) = Len(q) + 1
      /\ \A i \in 1..Len(q) : r[i] = q[i]
      /\ r[Len(q) + 1] = y
  OBVIOUS
<1> HIDE DEF r
<1>2. AllChat(q) => HasOne(r, y)
  <2>1. SUFFICES ASSUME AllChat(q) PROVE HasOne(r, y)
    OBVIOUS
  <2>2. \A j \in DOMAIN r : j # Len(q) + 1 => r[j] = "Chat"
    BY <1>1, <2>1 DEF AllChat
  <2>3. Len(q) + 1 \in DOMAIN r
    BY <1>1
  <2>4. QED
    BY <1>1, <2>2, <2>3 DEF HasOne
<1>3. ASSUME y = "Chat", AllChat(q) PROVE AllChat(r)
  BY <1>1, <1>3 DEF AllChat
<1>4. ASSUME y = "Chat", NEW x, HasOne(q, x) PROVE HasOne(r, x)
  <2>1. PICK i \in DOMAIN q :
          q[i] = x /\ \A j \in DOMAIN q : j # i => q[j] = "Chat"
    BY <1>4 DEF HasOne
  <2>2. i \in DOMAIN r /\ r[i] = x
    BY <1>1, <2>1
  <2>3. \A j \in DOMAIN r : j # i => r[j] = "Chat"
    BY <1>1, <1>4, <2>1
  <2>4. QED
    BY <2>2, <2>3 DEF HasOne
<1>5. ASSUME y = "Chat", HasTwo(q) PROVE HasTwo(r)
  BY <1>1, <1>5 DEF HasTwo
<1>6. QED
  BY <1>2, <1>3, <1>4, <1>5 DEF r

-----------------------------------------------------------------------------
(* What the client writes.                                                  *)

\* A packet more for the server.
LEMMA LetterAppended ==
  ASSUME NEW ts \in Seq(Letter), NEW l \in Letter
  PROVE  /\ Append(ts, l) \in Seq(Letter)
         /\ Len(Append(ts, l)) = Len(ts) + 1
         /\ \A i \in 1..Len(ts) : Append(ts, l)[i] = ts[i]
         /\ Append(ts, l)[Len(ts) + 1] = l
         /\ ts = <<>> => Len(Append(ts, l)) = 1 /\ Append(ts, l)[1] = l
OBVIOUS

\* Under which it is read.
LEMMA AgreesAppended ==
  ASSUME NEW s, NEW ts \in Seq(Letter), NEW l \in Letter,
         Agrees(s, ts), l.encrypted <=> s.encrypted,
         l.compressed <=> s.compressed
  PROVE  Agrees(s, Append(ts, l))
<1>1. \A i \in DOMAIN Append(ts, l) :
        (i \in DOMAIN ts /\ Append(ts, l)[i] = ts[i]) \/ Append(ts, l)[i] = l
  OBVIOUS
<1>2. QED
  BY <1>1 DEF Agrees

\* Some packet is owed once the login has begun and before it is over.
LEMMA OwingPops ==
  ASSUME NEW ts \in Seq(Letter), NEW q \in Seq(ClientPackets), q # <<>>,
         Head(q) # "Chat", NEW l \in Letter, l.name = Head(q)
  PROVE  /\ \A x : Owing(ts, q, x) => Owing(Append(ts, l), Tail(q), x)
         /\ Opening(ts, q) => Opening(Append(ts, l), Tail(q))
<1>1. ~AllChat(q)
  BY QueuePops
<1>2. ASSUME NEW x, Owing(ts, q, x)
      PROVE  Owing(Append(ts, l), Tail(q), x)
  <2>1. ts = <<>> /\ HasOne(q, x)
    BY <1>1, <1>2 DEF Owing
  <2>2. Head(q) = x /\ AllChat(Tail(q))
    BY <2>1, QueuePops
  <2>3. QED
    BY <2>1, <2>2, LetterAppended DEF Owing
<1>3. ASSUME Opening(ts, q) PROVE Opening(Append(ts, l), Tail(q))
  <2>1. CASE ts = <<>> /\ HasTwo(q)
    <3>1. Head(q) = "HandShake" /\ HasOne(Tail(q), "LoginStart")
      BY <2>1, QueuePops
    <3>2. QED
      BY <2>1, <3>1, LetterAppended DEF Opening
  <2>2. CASE /\ Len(ts) = 1 /\ ts[1].name = "HandShake"
             /\ HasOne(q, "LoginStart")
    <3>1. Head(q) = "LoginStart" /\ AllChat(Tail(q))
      BY <2>2, QueuePops
    <3>2. /\ Len(Append(ts, l)) = 2 /\ Append(ts, l)[1] = ts[1]
          /\ Append(ts, l)[2] = l
      <4>1. Len(ts) + 1 = 2 /\ 1 \in 1..Len(ts)
        BY <2>2
      <4>2. QED
        BY <4>1, LetterAppended
    <3>3. QED
      BY <2>2, <3>1, <3>2 DEF Opening
  <2>3. QED
    BY <1>1, <1>3, <2>1, <2>2 DEF Opening
<1>4. QED
  BY <1>2, <1>3

\* When nothing of the login is owed, only the user has queued packets.
LEMMA StagePops ==
  ASSUME NEW s \in Server, NEW ts \in Seq(Letter), NEW tc \in Seq(Message),
         NEW q \in Seq(ClientPackets), NEW at, NEW e \in BOOLEAN,
         NEW re \in Reactors, ~Gone(s), at \notin {"join", "respond"},
         Stage(s, ts, tc, q, at, e, re), q # <<>>,
         Head(q) = "Chat" => re # "login"
  PROVE  /\ s.encrypted <=> e
         /\ at \notin Switching /\ ~Compresses(tc, Len(tc))
         /\ \A l \in Letter : l.name = Head(q) =>
              Stage(s, Append(ts, l), tc, Tail(q), at, e, re)
<1>1. AllChat(q) => Head(q) = "Chat"
  BY QueuePops
<1>2. s.state \in States
  BY DEF Server
<1>3. CASE s.state \in After
  <2>1. Afterwards(s, ts, tc, q, at, e, re)
    BY <1>3 DEF Stage
  <2>2. re # "login" /\ at \notin Switching /\ Settles(tc)
    BY <1>1, <2>1 DEF Afterwards, Idle
  <2>3. ~Compresses(tc, Len(tc))
    <3>1. DOMAIN tc = 1..Len(tc)
      OBVIOUS
    <3>2. QED
      BY <2>2, <3>1 DEF Settles, Compresses, LoginNames
  <2>4. QED
    BY <1>3, <2>1, <2>2, <2>3 DEF Stage, Afterwards, After
<1>4. ASSUME tc = <<>> PROVE ~Compresses(tc, Len(tc))
  BY <1>4 DEF Compresses
<1>5. CASE s.state \in {"hello", "start"}
  <2>1. Starting(s, ts, tc, q, at, e) /\ re = "login"
    BY <1>5 DEF Stage, After
  <2>2. ASSUME NEW l \in Letter, l.name = Head(q)
        PROVE  Starting(s, Append(ts, l), tc, Tail(q), at, e)
    BY <2>1, <2>2, OwingPops DEF Starting
  <2>3. QED
    BY <1>4, <1>5, <2>1, <2>2 DEF Stage, Starting, After
<1>6. CASE s.state = "login"
  BY <1>1, <1>6 DEF Stage, After, Choosing, Idle
<1>7. CASE s.state = "awaitPlugin"
  <2>1. AwaitingPlugin(s, ts, tc, q, at, e) /\ re = "login"
    BY <1>7 DEF Stage, After
  <2>2. at \notin Switching /\ tc = <<>> /\ Owing(ts, q, "PluginResponse")
    BY <1>1, <2>1 DEF AwaitingPlugin, Idle
  <2>3. ASSUME NEW l \in Letter, l.name = Head(q)
        PROVE  AwaitingPlugin(s, Append(ts, l), tc, Tail(q), at, e)
    <3>1. Owing(Append(ts, l), Tail(q), "PluginResponse")
      BY <2>1, <2>2, <2>3, OwingPops
    <3>2. QED
      BY <2>1, <2>2, <3>1 DEF AwaitingPlugin
  <2>4. QED
    BY <1>4, <1>7, <2>1, <2>2, <2>3 DEF Stage, AwaitingPlugin, After
<1>8. CASE s.state = "awaitEncryption"
  BY <1>1, <1>8 DEF Stage, After, AwaitingEncryption, Idle
<1>9. QED
  BY <1>2, <1>3, <1>5, <1>6, <1>7, <1>8 DEF States, Gone, After

\* _pop_packet.
LEMMA OpenPops ==
  ASSUME NEW s, NEW ts, NEW tc, NEW q, NEW at, NEW we, NEW fe, NEW k, NEW re,
         ViewType(s, ts, tc, q, at, we, fe, k, re),
         Open(s, ts, tc, q, at, we, fe, k, re),
         at = "loop", q # <<>>, Head(q) = "Chat" => re # "login",
         NEW l, l = [name |-> Head(q), encrypted |-> we, compressed |-> k]
  PROVE  Open(s, Append(ts, l), tc, Tail(q), at, we, fe, k, re)
<1>1. l \in Letter /\ l.name = Head(q) /\ l.encrypted = we /\ l.compressed = k
  BY DEF Letter, ViewType
<1>2. ASSUME ~Gone(s)
      PROVE  /\ Agrees(s, Append(ts, l))
             /\ Stage(s, Append(ts, l), tc, Tail(q), at, Ciphered(at, fe), re)
  <2> DEFINE e == Ciphered(at, fe)
  <2>1. e \in BOOLEAN /\ (e <=> fe) /\ (we <=> fe)
    BY DEF Ciphered, ViewType, Open
  <2>2. Stage(s, ts, tc, q, at, e, re) /\ Agrees(s, ts)
        /\ (s.compressed <=> k \/ Compresses(tc, Len(tc)))
    BY <1>2 DEF Open
  <2> HIDE DEF e
  <2>3. /\ s.encrypted <=> e
        /\ ~Compresses(tc, Len(tc))
        /\ Stage(s, Append(ts, l), tc, Tail(q), at, e, re)
    <3>1. /\ s \in Server /\ ts \in Seq(Letter) /\ tc \in Seq(Message)
          /\ q \in Seq(ClientPackets) /\ re \in Reactors
          /\ at \notin {"join", "respond"}
      BY DEF ViewType
    <3>2. QED
      BY <1>1, <1>2, <2>1, <2>2, <3>1, StagePops
  <2>4. Agrees(s, Append(ts, l))
    BY <1>1, <2>1, <2>2, <2>3, AgreesAppended DEF ViewType
  <2>5. QED
    BY <2>3, <2>4 DEF e
<1>3. QED
  BY <1>2 DEF Open

\* write_packet with 'force', after the login.
LEMMA OpenForces ==
  ASSUME NEW s, NEW ts, NEW tc, NEW q, NEW at, NEW we, NEW fe, NEW k, NEW re,
         ViewType(s, ts, tc, q, at, we, fe, k, re),
         Open(s, ts, tc, q, at, we, fe, k, re), re # "login",
         NEW l, l = [name |-> "Chat", encrypted |-> we, compressed |-> k]
  PROVE  Open(s, Append(ts, l), tc, q, at, we, fe, k, re)
<1>1. l \in Letter /\ l.encrypted = we /\ l.compressed = k
  BY DEF Letter, ViewType, ClientPackets
<1>2. ASSUME ~Gone(s)
      PROVE  /\ Agrees(s, Append(ts, l))
             /\ Stage(s, Append(ts, l), tc, q, at, Ciphered(at, fe), re)
  <2> DEFINE e == Ciphered(at, fe)
  <2>1. /\ Stage(s, ts, tc, q, at, e, re) /\ Agrees(s, ts)
        /\ s.compressed <=> k \/ Compresses(tc, Len(tc))
    BY <1>2 DEF Open
  <2> HIDE DEF e
  <2>2. s.state \in After /\ Afterwards(s, ts, tc, q, at, e, re)
    BY <2>1 DEF Stage
  <2>3. (s.encrypted <=> e) /\ at \notin Switching /\ Settles(tc)
    BY <2>2 DEF Afterwards
  <2>4. (e <=> fe) /\ (we <=> fe)
    BY <2>3 DEF e, Ciphered, Switching, Open
  <2>5. ~Compresses(tc, Len(tc))
    <3>1. DOMAIN tc = 1..Len(tc)
      BY DEF ViewType
    <3>2. QED
      BY <2>3, <3>1 DEF Settles, Compresses, LoginNames
  <2>6. Agrees(s, Append(ts, l))
    BY <1>1, <2>1, <2>3, <2>4, <2>5, AgreesAppended DEF ViewType
  <2>7. Stage(s, Append(ts, l), tc, q, at, e, re)
    BY <2>1, <2>2 DEF Stage, Afterwards, After
  <2>8. QED
    BY <2>6, <2>7 DEF e
<1>3. QED
  BY <1>2 DEF Open

\* write_packet.
LEMMA OpenQueues ==
  ASSUME NEW s, NEW ts, NEW tc, NEW q, NEW at, NEW we, NEW fe, NEW k, NEW re,
         ViewType(s, ts, tc, q, at, we, fe, k, re),
         Open(s, ts, tc, q, at, we, fe, k, re)
  PROVE  Open(s, ts, tc, Append(q, "Chat"), at, we, fe, k, re)
<1> DEFINE r == Append(q, "Chat")
<1>1. /\ AllChat(q) => AllChat(r)
      /\ \A x : HasOne(q, x) => HasOne(r, x)
      /\ HasTwo(q) => HasTwo(r)
  <2>1. "Chat" \in ClientPackets
    BY DEF ClientPackets
  <2>2. QED
    BY <2>1, QueueAppends DEF ViewType
<1> HIDE DEF r
<1>2. /\ Idle(ts, q) => Idle(ts, r)
      /\ \A x : Owing(ts, q, x) => Owing(ts, r, x)
      /\ Opening(ts, q) => Opening(ts, r)
  BY <1>1 DEF Idle, Owing, Opening
<1>3. ASSUME NEW e, Stage(s, ts, tc, q, at, e, re)
      PROVE  Stage(s, ts, tc, r, at, e, re)
  BY <1>1, <1>2, <1>3 DEF Stage, Starting, Choosing, AwaitingPlugin,
     AwaitingEncryption, Afterwards
<1>4. QED
  BY <1>3 DEF Open, r

\* However the client closes the connection without writing.
LEMMA OpenShuts ==
  ASSUME NEW s, NEW ts, NEW tc, NEW q, NEW at, NEW we, NEW fe, NEW k, NEW re,
         ViewType(s, ts, tc, q, at, we, fe, k, re),
         Open(s, ts, tc, q, at, we, fe, k, re)
  PROVE  Shut(s, ts)
<1> SUFFICES ASSUME ~Gone(s)
             PROVE  /\ Agrees(s, ts)
                    /\ s.state = "awaitEncryption" => Len(ts) <= 1
  BY DEF Shut
<1>1. Agrees(s, ts) /\ Stage(s, ts, tc, q, at, Ciphered(at, fe), re)
  BY DEF Open
<1>2. s.state = "awaitEncryption" => ts = <<>> \/ Len(ts) = 1
  BY <1>1 DEF Stage, AwaitingEncryption, Idle
<1>3. Len(ts) \in Nat /\ (ts = <<>> <=> Len(ts) = 0)
  BY DEF ViewType
<1>4. s.state = "awaitEncryption" => Len(ts) = 0 \/ Len(ts) = 1
  BY <1>2, <1>3
<1>5. s.state = "awaitEncryption" => Len(ts) <= 1
  <2>1. \A n \in Nat : n = 0 \/ n = 1 => n <= 1
    OBVIOUS
  <2>2. QED
    BY <1>3, <1>4, <2>1, Zenon
<1>6. QED
  BY <1>1, <1>5, Zenon

\* disconnect(): the queue is written, then the connection is closed.
LEMMA OpenFlushes ==
  ASSUME NEW s, NEW ts, NEW tc, NEW q, NEW at, NEW we, NEW fe, NEW k, NEW re,
         ViewType(s, ts, tc, q, at, we, fe, k, re),
         Open(s, ts, tc, q, at, we, fe, k, re),
         re = "login" => \A i \in DOMAIN q : q[i] # "Chat"
  PROVE  Shut(s, ts \o [i \in DOMAIN q |->
                  [name |-> q[i], encrypted |-> we, compressed |-> k]])
<1> DEFINE ls == [i \in DOMAIN q |->
                    [name |-> q[i], encrypted |-> we, compressed |-> k]]
<1>1. /\ ls \in Seq(Letter) /\ Len(ls) = Len(q)
      /\ \A i \in 1..Len(ls) : ls[i].encrypted = we /\ ls[i].compressed = k
  <2>1. \A i \in DOMAIN q :
          [name |-> q[i], encrypted |-> we, compressed |-> k] \in Letter
    BY DEF ViewType, Letter
  <2>2. DOMAIN q = 1..Len(q) /\ Len(q) \in Nat
    BY DEF ViewType
  <2>3. ls \in Seq(Letter) /\ Len(ls) = Len(q)
    BY <2>1, <2>2
  <2>4. QED
    BY <2>2, <2>3
<1> HIDE DEF ls
<1>2. CASE q = <<>>
  <2>1. ts \o ls = ts
    BY <1>1, <1>2 DEF ViewType
  <2>2. QED
    BY <2>1, OpenShuts DEF ls
<1>3. CASE Gone(s)
  BY <1>3 DEF Shut
<1>4. CASE q # <<>> /\ ~Gone(s)
  <2> DEFINE e == Ciphered(at, fe)
  <2>1. /\ Stage(s, ts, tc, q, at, e, re) /\ Agrees(s, ts)
        /\ s.compressed <=> k \/ Compresses(tc, Len(tc))
    BY <1>4 DEF Open
  <2>2. e \in BOOLEAN
    BY DEF ViewType, Ciphered
  <2> HIDE DEF e
  <2>3. Head(q) = "Chat" => re # "login"
    BY <1>4 DEF ViewType
  <2>4. at \notin {"join", "respond"}
    <3>1. AllChat(q) => re # "login"
      BY <1>4, <2>3, QueuePops DEF ViewType
    <3>2. s.state \in States
      BY DEF ViewType, Server
    <3>3. QED
      BY <1>4, <2>1, <3>1, <3>2 DEF Stage, Starting, Choosing, AwaitingPlugin,
         AwaitingEncryption, Afterwards, Idle, Switching, States, Gone, After
  <2>5. /\ s.encrypted <=> e
        /\ at \notin Switching /\ ~Compresses(tc, Len(tc))
    BY <1>4, <2>1, <2>2, <2>3, <2>4, StagePops DEF ViewType
  <2>6. (e <=> fe) /\ (we <=> fe)
    BY <2>5 DEF e, Ciphered, Switching, Open
  <2>7. Agrees(s, ts \o ls)
    <3>1. \A i \in DOMAIN (ts \o ls) :
            \/ i \in DOMAIN ts /\ (ts \o ls)[i] = ts[i]
            \/ i - Len(ts) \in 1..Len(ls) /\ (ts \o ls)[i] = ls[i - Len(ts)]
      BY <1>1 DEF ViewType
    <3>2. QED
      BY <1>1, <2>1, <2>5, <2>6, <3>1 DEF Agrees
  <2>8. s.state # "awaitEncryption"
    <3>1. AllChat(q) => re # "login"
      BY <1>4, <2>3, QueuePops DEF ViewType
    <3>2. QED
      BY <2>1, <3>1 DEF Stage, AwaitingEncryption, Idle, After
  <2>9. QED
    BY <2>7, <2>8 DEF Shut, ls
<1>5. QED
  BY <1>2, <1>3, <1>4
-----------------------------------------------------------------------------
(* Where the thread is.                                                     *)

\* Steps that have nothing to do with the two streams.
LEMMA OpenMoves ==
  ASSUME NEW s, NEW ts, NEW tc, NEW q, NEW at, NEW we, NEW fe, NEW k, NEW re,
         Open(s, ts, tc, q, at, we, fe, k, re), at \notin Switching,
         NEW bt, bt \notin Switching
  PROVE  Open(s, ts, tc, q, bt, we, fe, k, re)
<1>1. /\ Ciphered(at, fe) = Ciphered(bt, fe)
      /\ at \notin {"join", "respond"} /\ bt \notin {"join", "respond"}
      /\ at # "wrapFile" /\ bt # "wrapFile"
  BY DEF Switching, Ciphered
<1>2. Readable(tc, bt, fe, k)
  BY <1>1 DEF Open, Readable
<1>3. ASSUME NEW e, Stage(s, ts, tc, q, at, e, re)
      PROVE  Stage(s, ts, tc, q, bt, e, re)
  BY <1>1, <1>3 DEF Stage, Starting, Choosing, AwaitingPlugin,
     AwaitingEncryption, Afterwards
<1>4. QED
  BY <1>1, <1>2, <1>3 DEF Open

\* The account joins the session.
LEMMA OpenJoins ==
  ASSUME NEW s, NEW ts, NEW tc, NEW q, NEW we, NEW fe, NEW k, NEW re,
         Open(s, ts, tc, q, "join", we, fe, k, re)
  PROVE  Open(s, ts, tc, q, "respond", we, fe, k, re)
<1>1. Ciphered("respond", fe) = Ciphered("join", fe)
  BY DEF Ciphered
<1>2. Readable(tc, "respond", fe, k)
  BY <1>1 DEF Open, Readable
<1>3. ASSUME NEW e, Stage(s, ts, tc, q, "join", e, re)
      PROVE  Stage(s, ts, tc, q, "respond", e, re)
  BY <1>3 DEF Stage, Starting, Choosing, AwaitingPlugin, Switching,
     AwaitingEncryption, Afterwards
<1>4. QED
  BY <1>1, <1>2, <1>3 DEF Open

\* The answer is written before the modes change.
LEMMA OpenResponds ==
  ASSUME NEW s, NEW ts, NEW tc, NEW q, NEW we, NEW fe, NEW k, NEW re,
         ViewType(s, ts, tc, q, "respond", we, fe, k, re),
         Open(s, ts, tc, q, "respond", we, fe, k, re),
         NEW l,
         l = [name |-> "EncryptionResponse", encrypted |-> we, compressed |-> k]
  PROVE  Open(s, Append(ts, l), tc, q, "wrapSocket", we, fe, k, re)
<1>1. l \in Letter /\ l.name = "EncryptionResponse"
      /\ l.encrypted = we /\ l.compressed = k
  BY DEF Letter, ViewType, ClientPackets
<1>2. Readable(tc, "wrapSocket", fe, k)
  BY DEF Open, Readable
<1>3. /\ we <=> fe
      /\ Ciphered("respond", fe) <=> fe
      /\ Ciphered("wrapSocket", fe)
  BY DEF Open, Ciphered
<1>4. ASSUME ~Gone(s)
      PROVE  /\ Agrees(s, Append(ts, l))
             /\ Stage(s, Append(ts, l), tc, q, "wrapSocket",
                      Ciphered("wrapSocket", fe), re)
             /\ s.compressed <=> k \/ Compresses(tc, Len(tc))
  <2> DEFINE e == Ciphered("respond", fe)
  <2>1. /\ Stage(s, ts, tc, q, "respond", e, re) /\ Agrees(s, ts)
        /\ s.compressed <=> k \/ Compresses(tc, Len(tc))
        /\ e <=> fe
    BY <1>3, <1>4 DEF Open
  <2> HIDE DEF e
  <2>2. s.state = "awaitEncryption" /\ re = "login"
    <3>1. s.state \in States
      BY DEF ViewType, Server
    <3>2. QED
      BY <1>4, <2>1, <3>1 DEF Stage, Starting, Choosing, AwaitingPlugin,
         Afterwards, Switching, States, Gone, After
  <2>3. Idle(ts, q) /\ (s.encrypted <=> e) /\ tc = <<>>
    BY <2>1, <2>2 DEF Stage, AwaitingEncryption
  <2>4. ~Compresses(tc, Len(tc))
    BY <2>3 DEF Compresses
  <2>5. ts \in Seq(Letter) /\ ts = <<>>
    BY <2>3 DEF ViewType, Idle
  <2>6. Agrees(s, Append(ts, l))
    BY <1>1, <1>3, <2>1, <2>3, <2>4, <2>5, AgreesAppended
  <2>7. Len(Append(ts, l)) = 1 /\ Append(ts, l)[1] = l
    BY <1>1, <2>5, LetterAppended
  <2>8. Stage(s, Append(ts, l), tc, q, "wrapSocket",
              Ciphered("wrapSocket", fe), re)
    <3>1. AwaitingEncryption(s, Append(ts, l), tc, q, "wrapSocket",
                             Ciphered("wrapSocket", fe))
      BY <1>1, <1>3, <2>3, <2>7 DEF AwaitingEncryption, Idle
    <3>2. QED
      BY <2>2, <3>1 DEF Stage, After
  <2>9. QED
    BY <2>1, <2>6, <2>8
<1>5. QED
  BY <1>2, <1>3, <1>4 DEF Open

\* The socket is wrapped.
LEMMA OpenWrapsSocket ==
  ASSUME NEW s, NEW ts, NEW tc, NEW q, NEW we, NEW fe, NEW k, NEW re,
         Open(s, ts, tc, q, "wrapSocket", we, fe, k, re)
  PROVE  Open(s, ts, tc, q, "wrapFile", TRUE, fe, k, re)
<1>1. Ciphered("wrapFile", fe) = Ciphered("wrapSocket", fe)
  BY DEF Ciphered
<1>2. Readable(tc, "wrapFile", fe, k)
  BY <1>1 DEF Open, Readable
<1>3. ASSUME NEW e, Stage(s, ts, tc, q, "wrapSocket", e, re)
      PROVE  Stage(s, ts, tc, q, "wrapFile", e, re)
  BY <1>3 DEF Stage, Starting, Choosing, AwaitingPlugin, Switching,
     AwaitingEncryption, Afterwards
<1>4. QED
  BY <1>1, <1>2, <1>3 DEF Open

\* The file is wrapped.
LEMMA OpenWrapsFile ==
  ASSUME NEW s, NEW ts, NEW tc, NEW q, NEW we, NEW fe, NEW k, NEW re,
         Open(s, ts, tc, q, "wrapFile", we, fe, k, re)
  PROVE  Open(s, ts, tc, q, "setFlag", we, TRUE, k, re)
<1>1. Ciphered("wrapFile", fe) /\ Ciphered("setFlag", TRUE) /\ we
  BY DEF Ciphered, Open
<1>2. Readable(tc, "setFlag", TRUE, k)
  BY <1>1 DEF Open, Readable
<1>3. ASSUME NEW e, NEW f, e, f, Stage(s, ts, tc, q, "wrapFile", e, re)
      PROVE  Stage(s, ts, tc, q, "setFlag", f, re)
  BY <1>3 DEF Stage, Starting, Choosing, AwaitingPlugin, Switching,
     AwaitingEncryption, Afterwards
<1>4. QED
  BY <1>1, <1>2, <1>3 DEF Open
-----------------------------------------------------------------------------
(* What the client reads.                                                   *)

\* The first packet to the client and the others.
LEMMA TailFacts ==
  ASSUME NEW S, NEW tc \in Seq(S), tc # <<>>
  PROVE  /\ Len(tc) \in Nat /\ Len(tc) >= 1 /\ 1 \in DOMAIN tc
         /\ DOMAIN tc = 1..Len(tc)
         /\ Tail(tc) \in Seq(S) /\ Len(Tail(tc)) = Len(tc) - 1
         /\ DOMAIN Tail(tc) = 1..Len(tc) - 1
         /\ \A i \in 1..Len(tc) - 1 : Tail(tc)[i] = tc[i + 1]
         /\ Head(tc) = tc[1]
         /\ Tail(tc) = <<>> <=> Len(tc) = 1
<1>1. Tail(tc) \in Seq(S) /\ Len(Tail(tc)) = Len(tc) - 1 /\ Len(tc) \in Nat
  OBVIOUS
<1>2. \A t \in Seq(S) : t = <<>> <=> Len(t) = 0
  OBVIOUS
<1>3. Tail(tc) = <<>> <=> Len(tc) = 1
  <2>1. Tail(tc) = <<>> <=> Len(Tail(tc)) = 0
    BY <1>1, <1>2, Zenon
  <2>2. QED
    BY <1>1, <2>1
<1>4. QED
  BY <1>3

\* The compression that is still to come.
LEMMA CompressesTail ==
  ASSUME NEW tc \in Seq(Message), tc # <<>>
  PROVE  \A n \in 1..Len(tc) :
           Compresses(tc, n) <=> \/ Head(tc).name = "SetCompression"
                                 \/ Compresses(Tail(tc), n - 1)
<1> DEFINE t == Tail(tc)
<1>1. /\ Len(tc) \in Nat /\ Head(tc) = tc[1]
      /\ \A i \in 1..Len(tc) - 1 : t[i] = tc[i + 1]
  BY TailFacts
<1> HIDE DEF t
<1>2. ASSUME NEW n \in 1..Len(tc)
      PROVE  Compresses(tc, n) <=> \/ Head(tc).name = "SetCompression"
                                   \/ Compresses(t, n - 1)
  <2>1. ASSUME Compresses(tc, n), Head(tc).name # "SetCompression"
        PROVE  Compresses(t, n - 1)
    <3>1. PICK j \in 1..n : tc[j].name = "SetCompression"
      BY <2>1 DEF Compresses
    <3>2. j # 1
      BY <1>1, <2>1, <3>1
    <3>3. j - 1 \in 1..n - 1 /\ t[j - 1] = tc[j]
      BY <1>1, <3>2
    <3>4. QED
      BY <3>1, <3>3 DEF Compresses
  <2>2. ASSUME Head(tc).name = "SetCompression" PROVE Compresses(tc, n)
    <3>1. 1 \in 1..n
      BY <1>1
    <3>2. QED
      BY <1>1, <2>2, <3>1 DEF Compresses
  <2>3. ASSUME Compresses(t, n - 1) PROVE Compresses(tc, n)
    <3>1. PICK j \in 1..n - 1 : t[j].name = "SetCompression"
      BY <2>3 DEF Compresses
    <3>2. j + 1 \in 1..n /\ t[j] = tc[j + 1]
      BY <1>1
    <3>3. QED
      BY <3>1, <3>2 DEF Compresses
  <2>4. QED
    BY <2>1, <2>2, <2>3
<1>3. QED
  BY <1>2 DEF t

\* The others can be read after the first one.
LEMMA ReadableTail ==
  ASSUME NEW tc \in Seq(Message), tc # <<>>, NEW at, NEW fe, NEW k, NEW h,
         Readable(tc, at, fe, k),
         h <=> k \/ Head(tc).name = "SetCompression"
  PROVE  Readable(Tail(tc), at, fe, h)
<1> DEFINE t == Tail(tc)
<1>1. /\ Len(tc) \in Nat /\ Head(tc) = tc[1] /\ DOMAIN tc = 1..Len(tc)
      /\ DOMAIN t = 1..Len(tc) - 1
      /\ \A i \in 1..Len(tc) - 1 : t[i] = tc[i + 1]
  BY TailFacts
<1>2. \A n \in 1..Len(tc) :
        Compresses(tc, n) <=> \/ Head(tc).name = "SetCompression"
                              \/ Compresses(t, n - 1)
  BY CompressesTail
<1> HIDE DEF t
<1>3. ASSUME NEW i \in DOMAIN t, t[i].name \notin Ends
      PROVE  /\ t[i].encrypted <=> Ciphered(at, fe)
             /\ t[i].compressed <=> h \/ Compresses(t, i - 1)
  <2>1. i + 1 \in DOMAIN tc /\ t[i] = tc[i + 1] /\ i \in 1..Len(tc)
        /\ i + 1 - 1 = i
    BY <1>1
  <2>2. /\ t[i].encrypted <=> Ciphered(at, fe)
        /\ t[i].compressed <=> k \/ Compresses(tc, i)
    BY <1>3, <2>1 DEF Readable
  <2>3. QED
    BY <1>2, <2>1, <2>2
<1>4. ASSUME NEW i \in DOMAIN t, NEW j \in 1..i - 1,
             t[j].name = "EncryptionRequest"
      PROVE  t[i].name \in Ends
  <2>1. i + 1 \in DOMAIN tc /\ t[i] = tc[i + 1]
    BY <1>1
  <2>2. j + 1 \in 1..i + 1 - 1 /\ t[j] = tc[j + 1]
    BY <1>1
  <2>3. QED
    BY <1>4, <2>1, <2>2 DEF Readable
<1>5. ASSUME at \in {"join", "respond"}, NEW i \in DOMAIN t
      PROVE  t[i].name \in Ends
  <2>1. i + 1 \in DOMAIN tc /\ t[i] = tc[i + 1]
    BY <1>1
  <2>2. QED
    BY <1>5, <2>1 DEF Readable
<1>6. Readable(t, at, fe, h)
  BY <1>3, <1>4, <1>5 DEF Readable
<1>7. QED
  BY <1>6 DEF t

\* What the first packet tells of the others.
LEMMA HeadTells ==
  ASSUME NEW tc \in Seq(Message), tc # <<>>
  PROVE  /\ Compressing(tc) => Head(tc).name = "SetCompression"
                               /\ Compressing(Tail(tc))
         /\ AsksPlugin(tc) =>
              \/ Head(tc).name = "PluginRequest" /\ Tail(tc) = <<>>
              \/ Head(tc).name = "SetCompression" /\ AsksPlugin(Tail(tc))
         /\ Succeeds(tc) =>
              \/ Head(tc).name = "LoginSuccess" /\ Settles(Tail(tc))
              \/ Head(tc).name = "SetCompression" /\ Succeeds(Tail(tc))
         /\ Settles(tc) => Head(tc).name \notin LoginNames /\ Settles(Tail(tc))
<1> DEFINE t == Tail(tc)
<1>1. /\ Len(tc) \in Nat /\ Len(tc) >= 1 /\ 1 \in DOMAIN tc
      /\ Head(tc) = tc[1] /\ DOMAIN tc = 1..Len(tc)
      /\ DOMAIN t = 1..Len(tc) - 1 /\ Len(t) = Len(tc) - 1
      /\ \A i \in 1..Len(tc) - 1 : t[i] = tc[i + 1]
  BY TailFacts
<1>2. Len(tc) = 1 <=> t = <<>>
  BY TailFacts
<1> HIDE DEF t
<1>3. Compressing(tc) => Head(tc).name = "SetCompression" /\ Compressing(t)
  <2>1. \A i \in DOMAIN t : i + 1 \in DOMAIN tc /\ t[i] = tc[i + 1]
    BY <1>1
  <2>2. QED
    BY <1>1, <2>1 DEF Compressing
<1>4. Settles(tc) => Head(tc).name \notin LoginNames /\ Settles(t)
  <2>1. \A i \in DOMAIN t : i + 1 \in DOMAIN tc /\ t[i] = tc[i + 1]
    BY <1>1
  <2>2. QED
    BY <1>1, <2>1 DEF Settles
<1>5. ASSUME AsksPlugin(tc)
      PROVE  \/ Head(tc).name = "PluginRequest" /\ t = <<>>
             \/ Head(tc).name = "SetCompression" /\ AsksPlugin(t)
  <2>1. CASE Len(tc) = 1
    BY <1>1, <1>2, <1>5, <2>1 DEF AsksPlugin
  <2>2. CASE Len(tc) # 1
    <3>1. 1 \in 1..Len(tc) - 1 /\ t # <<>>
      BY <1>1, <1>2, <2>2
    <3>2. Head(tc).name = "SetCompression"
      BY <1>1, <1>5, <3>1 DEF AsksPlugin
    <3>3. t[Len(t)] = tc[Len(tc)]
      BY <1>1, <2>2
    <3>4. \A i \in 1..Len(t) - 1 :
            i + 1 \in 1..Len(tc) - 1 /\ t[i] = tc[i + 1]
      BY <1>1
    <3>5. AsksPlugin(t)
      BY <1>5, <3>1, <3>3, <3>4 DEF AsksPlugin
    <3>6. QED
      BY <3>2, <3>5
  <2>3. QED
    BY <2>1, <2>2
<1>6. ASSUME Succeeds(tc)
      PROVE  \/ Head(tc).name = "LoginSuccess" /\ Settles(t)
             \/ Head(tc).name = "SetCompression" /\ Succeeds(t)
  <2>1. PICK i \in DOMAIN tc :
          /\ tc[i].name = "LoginSuccess"
          /\ \A j \in 1..i - 1 : tc[j].name = "SetCompression"
          /\ \A j \in i + 1..Len(tc) : tc[j].name \notin LoginNames
    BY <1>6 DEF Succeeds
  <2>2. CASE i = 1
    <3>1. \A j \in DOMAIN t : j + 1 \in i + 1..Len(tc) /\ t[j] = tc[j + 1]
      BY <1>1, <2>2
    <3>2. QED
      BY <1>1, <2>1, <2>2, <3>1 DEF Settles
  <2>3. CASE i # 1
    <3>1. 1 \in 1..i - 1
      BY <1>1, <2>3
    <3>2. i - 1 \in DOMAIN t /\ t[i - 1] = tc[i]
      BY <1>1, <2>3
    <3>3. \A j \in 1..i - 1 - 1 : j + 1 \in 1..i - 1 /\ t[j] = tc[j + 1]
      BY <1>1
    <3>4. \A j \in i - 1 + 1..Len(t) :
            j + 1 \in i + 1..Len(tc) /\ t[j] = tc[j + 1]
      BY <1>1, <2>3
    <3>5. Succeeds(t)
      BY <2>1, <3>2, <3>3, <3>4 DEF Succeeds
    <3>6. QED
      BY <1>1, <2>1, <3>1, <3>5
  <2>4. QED
    BY <2>2, <2>3
<1>7. QED
  BY <1>3, <1>4, <1>5, <1>6 DEF t

\* The order of the others.
LEMMA OrderedTail ==
  ASSUME NEW tc \in Seq(Message), tc # <<>>, NEW re, NEW g, Ordered(tc, re),
         g = re \/ re # "login" \/ Head(tc).name = "LoginSuccess"
  PROVE  Ordered(Tail(tc), g)
<1> DEFINE t == Tail(tc)
<1>1. /\ Len(tc) \in Nat /\ Head(tc) = tc[1] /\ DOMAIN tc = 1..Len(tc)
      /\ DOMAIN t = 1..Len(tc) - 1
      /\ \A i \in 1..Len(tc) - 1 : t[i] = tc[i + 1]
  BY TailFacts
<1> HIDE DEF t
<1>2. \A i \in DOMAIN t :
        i + 1 \in DOMAIN tc /\ t[i] = tc[i + 1] /\ 1 \in 1..i + 1 - 1
  BY <1>1
<1>3. ASSUME NEW i \in DOMAIN t, g # "login"
      PROVE  t[i].name # "SetCompression"
  <2>1. CASE re # "login"
    BY <1>2, <2>1 DEF Ordered
  <2>2. CASE Head(tc).name = "LoginSuccess"
    BY <1>1, <1>2, <2>2 DEF Ordered
  <2>3. QED
    BY <1>3, <2>1, <2>2
<1>4. ASSUME NEW i \in DOMAIN t, NEW j \in 1..i - 1,
             t[j].name = "LoginSuccess"
      PROVE  t[i].name # "SetCompression"
  <2>1. PICK a \in DOMAIN tc : a = i + 1 /\ t[i] = tc[a]
    BY <1>2
  <2>2. PICK b \in 1..a - 1 : b = j + 1 /\ t[j] = tc[b]
    BY <1>1, <2>1
  <2>3. tc[b].name = "LoginSuccess" => tc[a].name # "SetCompression"
    BY DEF Ordered
  <2>4. QED
    BY <1>4, <2>1, <2>2, <2>3
<1>5. QED
  BY <1>3, <1>4 DEF Ordered, t

\* What the stages say when a packet is read, for each packet.
LEMMA StageReads ==
  ASSUME NEW s \in Server, NEW ts \in Seq(Letter), NEW tc \in Seq(Message),
         NEW q \in Seq(ClientPackets), NEW e, NEW re, ~Gone(s), tc # <<>>,
         Stage(s, ts, tc, q, "loop", e, re)
  PROVE  LET name == Head(tc).name IN
         /\ name = "EncryptionRequest" =>
              Stage(s, ts, Tail(tc), q, "join", e, re)
         /\ name = "SetCompression" =>
              Stage(s, ts, Tail(tc), q, "loop", e, re)
         /\ name = "PluginRequest" =>
              Stage(s, ts, Tail(tc), Append(q, "PluginResponse"), "loop", e, re)
         /\ name = "LoginSuccess" =>
              \A r, g : g # "login" => Stage(s, ts, Tail(tc), r, "loop", e, g)
         /\ re # "login" =>
              \A r, g : g # "login" => Stage(s, ts, Tail(tc), r, "loop", e, g)
         /\ re = "login" => name \in LoginNames
<1> DEFINE t == Tail(tc)
           name == Head(tc).name
<1>1. /\ Compressing(tc) => name = "SetCompression" /\ Compressing(t)
      /\ AsksPlugin(tc) => \/ name = "PluginRequest" /\ t = <<>>
                           \/ name = "SetCompression" /\ AsksPlugin(t)
      /\ Succeeds(tc) => \/ name = "LoginSuccess" /\ Settles(t)
                         \/ name = "SetCompression" /\ Succeeds(t)
      /\ Settles(tc) => name \notin LoginNames /\ Settles(t)
  BY HeadTells
<1>2. Len(tc) = 1 => t = <<>> /\ Head(tc) = tc[1]
  BY TailFacts
<1>3. s.state \in States /\ "loop" \notin Switching
  BY DEF Server, Switching
<1> HIDE DEF t, name
<1>4. CASE s.state \in After
  <2>1. /\ s.encrypted <=> e
        /\ \/ re = "login" /\ Idle(ts, q) /\ Succeeds(tc)
           \/ re # "login" /\ Settles(tc)
    BY <1>4 DEF Stage, Afterwards
  <2>2. ASSUME re = "login", Idle(ts, q), Succeeds(t)
        PROVE  Stage(s, ts, t, q, "loop", e, re)
    BY <1>3, <1>4, <2>1, <2>2 DEF Stage, Afterwards, After
  <2>3. ASSUME NEW r, NEW g, g # "login", Settles(t)
        PROVE  Stage(s, ts, t, r, "loop", e, g)
    BY <1>3, <1>4, <2>1, <2>3 DEF Stage, Afterwards, After
  <2>4. CASE re = "login"
    BY <1>1, <2>1, <2>2, <2>3, <2>4 DEF t, name, LoginNames
  <2>5. CASE re # "login"
    <3>1. Settles(t) /\ name \notin LoginNames
      BY <1>1, <2>1, <2>5
    <3>2. QED
      BY <2>3, <2>5, <3>1 DEF LoginNames, t, name
  <2>6. QED
    BY <2>4, <2>5
<1>5. CASE s.state \notin After
  <2>1. re = "login" /\ tc # <<>>
    BY <1>5 DEF Stage
  <2>2. CASE s.state = "login"
    <3>1. Choosing(s, ts, tc, q, "loop", e)
      BY <2>2 DEF Stage
    <3>2. name = "SetCompression" /\ Choosing(s, ts, t, q, "loop", e)
      BY <1>1, <3>1 DEF Choosing
    <3>3. Stage(s, ts, t, q, "loop", e, re)
      BY <2>1, <2>2, <3>2 DEF Stage, After
    <3>4. QED
      BY <2>1, <3>2, <3>3 DEF t, name, LoginNames
  <2>3. CASE s.state = "awaitPlugin"
    <3>1. (s.encrypted <=> e) /\ Idle(ts, q) /\ AsksPlugin(tc)
      BY <2>1, <2>3 DEF Stage, AwaitingPlugin
    <3>2. CASE name = "SetCompression" /\ AsksPlugin(t)
      <4>1. AwaitingPlugin(s, ts, t, q, "loop", e)
        BY <3>1, <3>2 DEF AwaitingPlugin
      <4>2. Stage(s, ts, t, q, "loop", e, re)
        BY <2>1, <2>3, <4>1 DEF Stage, After
      <4>3. QED
        BY <2>1, <3>2, <4>2 DEF t, name, LoginNames
    <3>3. CASE name = "PluginRequest" /\ t = <<>>
      <4> DEFINE r == Append(q, "PluginResponse")
      <4>1. HasOne(r, "PluginResponse")
        <5>1. "PluginResponse" \in ClientPackets
          BY DEF ClientPackets
        <5>2. QED
          BY <3>1, <5>1, QueueAppends DEF Idle
      <4> HIDE DEF r
      <4>2. AwaitingPlugin(s, ts, t, r, "loop", e)
        BY <1>3, <3>1, <3>3, <4>1 DEF AwaitingPlugin, Owing, Idle
      <4>3. Stage(s, ts, t, r, "loop", e, re)
        BY <2>1, <2>3, <4>2 DEF Stage, After
      <4>4. QED
        BY <2>1, <3>3, <4>3 DEF t, name, r, LoginNames
    <3>4. QED
      BY <1>1, <3>1, <3>2, <3>3
  <2>4. CASE s.state = "awaitEncryption"
    <3>1. /\ (s.encrypted <=> e) /\ Idle(ts, q)
          /\ Len(tc) = 1 /\ tc[1].name = "EncryptionRequest"
      BY <2>1, <2>4 DEF Stage, AwaitingEncryption
    <3>2. t = <<>> /\ name = "EncryptionRequest"
      BY <1>2, <3>1 DEF name
    <3>3. AwaitingEncryption(s, ts, t, q, "join", e)
      BY <3>1, <3>2 DEF AwaitingEncryption
    <3>4. Stage(s, ts, t, q, "join", e, re)
      BY <2>1, <2>4, <3>3 DEF Stage, After
    <3>5. QED
      BY <2>1, <3>2, <3>4 DEF t, name, LoginNames
  <2>5. QED
    BY <1>3, <1>5, <2>1, <2>2, <2>3, <2>4
    DEF States, Gone, After, Stage, Starting
<1>6. QED
  BY <1>4, <1>5

\* One packet is read: what is common to all of them.
LEMMA OpenReads ==
  ASSUME NEW s, NEW ts, NEW tc, NEW q, NEW we, NEW fe, NEW k, NEW re,
         ViewType(s, ts, tc, q, "loop", we, fe, k, re),
         Open(s, ts, tc, q, "loop", we, fe, k, re), tc # <<>>,
         NEW at \in {"loop", "join"}, NEW r, NEW h, NEW g,
         h <=> k \/ Head(tc).name = "SetCompression",
         at = "join" => Head(tc).name = "EncryptionRequest",
         g = re \/ re # "login" \/ Head(tc).name = "LoginSuccess",
         ~Gone(s) => Stage(s, ts, Tail(tc), r, at, Ciphered("loop", fe), g)
  PROVE  Open(s, ts, Tail(tc), r, at, we, fe, h, g)
<1> DEFINE t == Tail(tc)
<1>1. /\ Len(tc) \in Nat /\ Len(tc) >= 1 /\ Len(t) = Len(tc) - 1
      /\ DOMAIN t = 1..Len(tc) - 1 /\ Head(tc) = tc[1]
      /\ \A i \in 1..Len(tc) - 1 : t[i] = tc[i + 1]
      /\ DOMAIN tc = 1..Len(tc)
  BY TailFacts DEF ViewType
<1>2. Ciphered(at, fe) = Ciphered("loop", fe)
  BY DEF Ciphered
<1>3. Readable(t, "loop", fe, h) /\ Ordered(t, g)
  BY ReadableTail, OrderedTail DEF ViewType, Open
<1> HIDE DEF t
<1>4. ASSUME at = "join", NEW i \in DOMAIN t PROVE t[i].name \in Ends
  <2>1. i + 1 \in DOMAIN tc /\ 1 \in 1..i + 1 - 1 /\ t[i] = tc[i + 1]
    BY <1>1
  <2>2. QED
    BY <1>1, <1>4, <2>1 DEF Open, Readable
<1>5. Readable(t, at, fe, h)
  BY <1>2, <1>3, <1>4 DEF Readable
<1>6. ASSUME ~Gone(s)
      PROVE  /\ Agrees(s, ts)
             /\ s.compressed <=> h \/ Compresses(t, Len(t))
  <2>1. /\ Agrees(s, ts)
        /\ s.compressed <=> k \/ Compresses(tc, Len(tc))
    BY <1>6 DEF Open
  <2>2. Len(tc) \in 1..Len(tc)
    BY <1>1
  <2>3. Compresses(tc, Len(tc)) <=> \/ Head(tc).name = "SetCompression"
                                    \/ Compresses(t, Len(tc) - 1)
    BY <2>2, CompressesTail DEF ViewType, t
  <2>4. QED
    BY <1>1, <2>1, <2>3
<1>7. (we <=> fe) /\ at # "wrapFile"
  BY DEF Open
<1>8. QED
  BY <1>2, <1>3, <1>5, <1>6, <1>7 DEF Open, t
-----------------------------------------------------------------------------
(* What the server does.                                                    *)

\* A packet more for the client, that ends the stream or is written under
\* the modes that the client will have when it reads it.
LEMMA ReadableAppended ==
  ASSUME NEW tc \in Seq(Message), NEW at, NEW fe, NEW k, NEW m \in Message,
         Readable(tc, at, fe, k),
         \/ m.name \in Ends
         \/ /\ m.encrypted <=> Ciphered(at, fe)
            /\ m.compressed <=> k \/ Compresses(tc, Len(tc))
            /\ at \notin {"join", "respond"}
            /\ \A i \in DOMAIN tc : tc[i].name # "EncryptionRequest"
  PROVE  /\ Readable(Append(tc, m), at, fe, k)
         /\ Compresses(Append(tc, m), Len(Append(tc, m))) <=>
              Compresses(tc, Len(tc)) \/ m.name = "SetCompression"
<1> DEFINE t == Append(tc, m)
           n == Len(tc)
<1>1. /\ n \in Nat /\ DOMAIN tc = 1..n
      /\ DOMAIN t = 1..n + 1 /\ Len(t) = n + 1
      /\ \A i \in 1..n : t[i] = tc[i]
      /\ t[n + 1] = m
  OBVIOUS
<1> HIDE DEF t, n
<1>2. \A i \in 0..n : Compresses(t, i) <=> Compresses(tc, i)
  BY <1>1 DEF Compresses
<1>3. ASSUME NEW i \in DOMAIN t, t[i].name \notin Ends
      PROVE  /\ t[i].encrypted <=> Ciphered(at, fe)
             /\ t[i].compressed <=> k \/ Compresses(t, i - 1)
  <2>1. CASE i \in 1..n
    <3>1. t[i] = tc[i] /\ i - 1 \in 0..n /\ i \in DOMAIN tc
      BY <1>1, <2>1
    <3>2. QED
      BY <1>2, <1>3, <3>1 DEF Readable
  <2>2. CASE i = n + 1
    <3>1. t[i] = m /\ i - 1 = n /\ n \in 0..n
      BY <1>1, <2>2
    <3>2. QED
      BY <1>2, <1>3, <3>1 DEF n
  <2>3. QED
    BY <1>1, <2>1, <2>2
<1>4. ASSUME NEW i \in DOMAIN t, NEW j \in 1..i - 1,
             t[j].name = "EncryptionRequest"
      PROVE  t[i].name \in Ends
  <2>1. j \in DOMAIN tc /\ t[j] = tc[j]
    BY <1>1
  <2>2. CASE i \in 1..n
    <3>1. t[i] = tc[i] /\ i \in DOMAIN tc
      BY <1>1, <2>2
    <3>2. QED
      BY <1>4, <2>1, <3>1 DEF Readable
  <2>3. CASE i = n + 1
    BY <1>1, <1>4, <2>1, <2>3
  <2>4. QED
    BY <1>1, <2>2, <2>3
<1>5. ASSUME at \in {"join", "respond"}, NEW i \in DOMAIN t
      PROVE  t[i].name \in Ends
  BY <1>1, <1>5 DEF Readable
<1>6. Readable(t, at, fe, k)
  BY <1>3, <1>4, <1>5 DEF Readable
<1>7. Compresses(t, n + 1) <=>
        Compresses(tc, n) \/ m.name = "SetCompression"
  <2>1. 1..n + 1 = 1..n \cup {n + 1}
    BY <1>1
  <2>2. QED
    BY <1>1, <2>1 DEF Compresses
<1>8. QED
  BY <1>1, <1>6, <1>7 DEF t, n

\* The order with a packet more.
LEMMA OrderedAppended ==
  ASSUME NEW tc \in Seq(Message), NEW m \in Message, NEW re, Ordered(tc, re),
         m.name = "SetCompression" =>
           /\ re = "login"
           /\ \A i \in DOMAIN tc : tc[i].name # "LoginSuccess"
  PROVE  Ordered(Append(tc, m), re)
<1> DEFINE t == Append(tc, m)
           n == Len(tc)
<1>1. /\ n \in Nat /\ DOMAIN tc = 1..n
      /\ DOMAIN t = 1..n + 1
      /\ \A i \in 1..n : t[i] = tc[i]
      /\ t[n + 1] = m
  OBVIOUS
<1> HIDE DEF t, n
<1>2. ASSUME NEW i \in DOMAIN t, NEW j \in 1..i - 1,
             t[j].name = "LoginSuccess"
      PROVE  t[i].name # "SetCompression"
  <2>1. j \in DOMAIN tc /\ t[j] = tc[j]
    BY <1>1
  <2>2. CASE i \in 1..n
    BY <1>1, <1>2, <2>1, <2>2 DEF Ordered
  <2>3. CASE i = n + 1
    BY <1>1, <1>2, <2>1, <2>3
  <2>4. QED
    BY <1>1, <2>2, <2>3
<1>3. ASSUME NEW i \in DOMAIN t, re # "login"
      PROVE  t[i].name # "SetCompression"
  <2>1. CASE i \in 1..n
    BY <1>1, <1>3, <2>1 DEF Ordered
  <2>2. CASE i = n + 1
    BY <1>1, <1>3, <2>2
  <2>3. QED
    BY <1>1, <2>1, <2>2
<1>4. QED
  BY <1>2, <1>3 DEF Ordered, t

\* Its shape with a packet more.
LEMMA ShapesAppended ==
  ASSUME NEW tc \in Seq(Message), NEW m \in Message
  PROVE  /\ Compressing(tc) /\ m.name = "SetCompression" =>
              Compressing(Append(tc, m))
         /\ Compressing(tc) /\ m.name = "PluginRequest" =>
              AsksPlugin(Append(tc, m))
         /\ Compressing(tc) /\ m.name = "LoginSuccess" =>
              Succeeds(Append(tc, m))
         /\ Succeeds(tc) /\ m.name \notin LoginNames =>
              Succeeds(Append(tc, m))
         /\ Settles(tc) /\ m.name \notin LoginNames =>
              Settles(Append(tc, m))
<1> DEFINE t == Append(tc, m)
           n == Len(tc)
<1>1. /\ n \in Nat /\ DOMAIN tc = 1..n /\ t # <<>>
      /\ DOMAIN t = 1..n + 1 /\ Len(t) = n + 1
      /\ \A i \in 1..n : t[i] = tc[i]
      /\ t[n + 1] = m
  OBVIOUS
<1> HIDE DEF t, n
<1>2. Compressing(tc) /\ m.name = "SetCompression" => Compressing(t)
  BY <1>1 DEF Compressing
<1>3. Compressing(tc) /\ m.name = "PluginRequest" => AsksPlugin(t)
  BY <1>1 DEF Compressing, AsksPlugin
<1>4. ASSUME Compressing(tc), m.name = "LoginSuccess" PROVE Succeeds(t)
  <2>1. PICK i \in DOMAIN t : i = n + 1 /\ t[i].name = "LoginSuccess"
    BY <1>1, <1>4
  <2>2. \A j \in 1..i - 1 : t[j].name = "SetCompression"
    BY <1>1, <1>4, <2>1 DEF Compressing
  <2>3. \A j \in i + 1..Len(t) : t[j].name \notin LoginNames
    BY <1>1, <2>1
  <2>4. QED
    BY <2>1, <2>2, <2>3 DEF Succeeds
<1>5. ASSUME Succeeds(tc), m.name \notin LoginNames PROVE Succeeds(t)
  <2>1. PICK i \in DOMAIN tc :
          /\ tc[i].name = "LoginSuccess"
          /\ \A j \in 1..i - 1 : tc[j].name = "SetCompression"
          /\ \A j \in i + 1..n : tc[j].name \notin LoginNames
    BY <1>5 DEF Succeeds, n
  <2>2. i \in DOMAIN t /\ t[i] = tc[i]
    BY <1>1
  <2>3. \A j \in 1..i - 1 : t[j] = tc[j]
    BY <1>1
  <2>4. \A j \in i + 1..Len(t) : t[j].name \notin LoginNames
    <3>1. \A j \in i + 1..Len(t) : j = n + 1 \/ (j \in i + 1..n /\ t[j] = tc[j])
      BY <1>1
    <3>2. QED
      BY <1>1, <1>5, <2>1, <3>1
  <2>5. QED
    BY <2>1, <2>2, <2>3, <2>4 DEF Succeeds
<1>6. Settles(tc) /\ m.name \notin LoginNames => Settles(t)
  BY <1>1 DEF Settles
<1>7. QED
  BY <1>2, <1>3, <1>4, <1>5, <1>6 DEF t

\* What else is under way when the server sends a packet that is no end.
LEMMA StageSends ==
  ASSUME NEW s \in Server, NEW ts, NEW tc \in Seq(Message), NEW q, NEW at,
         NEW e, NEW re, Stage(s, ts, tc, q, at, e, re), ~Gone(s),
         s.state \notin {"hello", "start", "awaitEncryption"}
  PROVE  /\ s.encrypted <=> e
         /\ at \notin {"join", "respond"}
         /\ \A i \in DOMAIN tc : tc[i].name # "EncryptionRequest"
<1>1. s.state \in States /\ DOMAIN tc = 1..Len(tc) /\ Len(tc) \in Nat
  BY DEF Server
<1>2. Settles(tc) => \A i \in DOMAIN tc : tc[i].name # "EncryptionRequest"
  BY DEF Settles, LoginNames
<1>3. ASSUME Succeeds(tc)
      PROVE  \A i \in DOMAIN tc : tc[i].name # "EncryptionRequest"
  <2>1. PICK i \in DOMAIN tc :
          /\ tc[i].name = "LoginSuccess"
          /\ \A j \in 1..i - 1 : tc[j].name = "SetCompression"
          /\ \A j \in i + 1..Len(tc) : tc[j].name \notin LoginNames
    BY <1>3 DEF Succeeds
  <2>2. \A j \in DOMAIN tc : j = i \/ j \in 1..i - 1 \/ j \in i + 1..Len(tc)
    BY <1>1
  <2>3. QED
    BY <2>1, <2>2 DEF LoginNames
<1>4. AsksPlugin(tc) => \A i \in DOMAIN tc : tc[i].name # "EncryptionRequest"
  <2>1. \A i \in DOMAIN tc : i \in 1..Len(tc) - 1 \/ i = Len(tc)
    BY <1>1
  <2>2. QED
    BY <2>1 DEF AsksPlugin
<1>5. CASE s.state \in After
  BY <1>2, <1>3, <1>5 DEF Stage, Afterwards
<1>6. CASE s.state = "login"
  BY <1>6 DEF Stage, Choosing, Compressing
<1>7. CASE s.state = "awaitPlugin"
  BY <1>4, <1>7 DEF Stage, AwaitingPlugin, Switching
<1>8. QED
  BY <1>1, <1>5, <1>6, <1>7 DEF States, Gone, After

\* The server changes to the state and modes t and sends m.
LEMMA OpenSends ==
  ASSUME NEW s, NEW ts, NEW tc, NEW q, NEW at, NEW we, NEW fe, NEW k, NEW re,
         ViewType(s, ts, tc, q, at, we, fe, k, re),
         Open(s, ts, tc, q, at, we, fe, k, re), ~Gone(s),
         s.state \notin {"hello", "start", "awaitEncryption"},
         NEW m \in Message, m.encrypted = s.encrypted,
         m.compressed = s.compressed,
         NEW t \in Server, t.encrypted = s.encrypted, Agrees(t, ts),
         t.compressed <=> s.compressed \/ m.name = "SetCompression",
         m.name = "SetCompression" => s.state = "login",
         Stage(t, ts, Append(tc, m), q, at, Ciphered(at, fe), re)
  PROVE  Open(t, ts, Append(tc, m), q, at, we, fe, k, re)
<1>1. /\ Stage(s, ts, tc, q, at, Ciphered(at, fe), re)
      /\ s.compressed <=> k \/ Compresses(tc, Len(tc))
      /\ Readable(tc, at, fe, k) /\ Ordered(tc, re)
  BY DEF Open
<1>2. s \in Server /\ tc \in Seq(Message)
  BY DEF ViewType
<1>3. /\ s.encrypted <=> Ciphered(at, fe)
      /\ at \notin {"join", "respond"}
      /\ \A i \in DOMAIN tc : tc[i].name # "EncryptionRequest"
  BY <1>1, <1>2, StageSends
<1>4. /\ m.encrypted <=> Ciphered(at, fe)
      /\ m.compressed <=> k \/ Compresses(tc, Len(tc))
  BY <1>1, <1>3
<1>5. /\ Readable(Append(tc, m), at, fe, k)
      /\ Compresses(Append(tc, m), Len(Append(tc, m))) <=>
           Compresses(tc, Len(tc)) \/ m.name = "SetCompression"
  BY <1>1, <1>2, <1>3, <1>4, ReadableAppended
<1>6. t.compressed <=>
        k \/ Compresses(Append(tc, m), Len(Append(tc, m)))
  BY <1>1, <1>5
<1>7. Ordered(Append(tc, m), re)
  <2>1. ASSUME m.name = "SetCompression"
        PROVE  /\ re = "login"
               /\ \A i \in DOMAIN tc : tc[i].name # "LoginSuccess"
    <3>1. re = "login" /\ Compressing(tc)
      BY <1>1, <2>1 DEF Stage, Choosing, After
    <3>2. QED
      BY <3>1 DEF Compressing
  <2>2. QED
    BY <1>1, <1>2, <2>1, OrderedAppended
<1>8. QED
  BY <1>5, <1>6, <1>7 DEF Open

\* The server closes the stream to the client.
LEMMA OpenCloses ==
  ASSUME NEW s, NEW ts, NEW tc, NEW q, NEW at, NEW we, NEW fe, NEW k, NEW re,
         ViewType(s, ts, tc, q, at, we, fe, k, re),
         Open(s, ts, tc, q, at, we, fe, k, re), ~Gone(s),
         NEW m \in Message, m.encrypted = s.encrypted,
         m.compressed = s.compressed,
         m.name \notin Ends =>
           s.state \notin {"hello", "start", "awaitEncryption"},
         m.name # "SetCompression", NEW t, Gone(t)
  PROVE  Open(t, ts, Append(tc, m), q, at, we, fe, k, re)
<1>1. /\ Stage(s, ts, tc, q, at, Ciphered(at, fe), re)
      /\ s.compressed <=> k \/ Compresses(tc, Len(tc))
      /\ Readable(tc, at, fe, k)
  BY DEF Open
<1>2. s \in Server /\ tc \in Seq(Message)
  BY DEF ViewType
<1>3. ASSUME m.name \notin Ends
      PROVE  /\ m.encrypted <=> Ciphered(at, fe)
             /\ m.compressed <=> k \/ Compresses(tc, Len(tc))
             /\ at \notin {"join", "respond"}
             /\ \A i \in DOMAIN tc : tc[i].name # "EncryptionRequest"
  <2>1. /\ s.encrypted <=> Ciphered(at, fe)
        /\ at \notin {"join", "respond"}
        /\ \A i \in DOMAIN tc : tc[i].name # "EncryptionRequest"
    BY <1>1, <1>2, <1>3, StageSends
  <2>2. QED
    BY <1>1, <2>1
<1>4. Readable(Append(tc, m), at, fe, k) /\ Ordered(Append(tc, m), re)
  <2>1. Ordered(tc, re)
    BY DEF Open
  <2>2. QED
    BY <1>1, <1>2, <1>3, <2>1, ReadableAppended, OrderedAppended
<1>5. QED
  BY <1>4 DEF Open

\* What the server asks in the login state, and what it sends after the login.
LEMMA StageAsks ==
  ASSUME NEW s \in Server, NEW ts \in Seq(Letter), NEW tc \in Seq(Message),
         NEW q, NEW at, NEW e, NEW re, Stage(s, ts, tc, q, at, e, re),
         NEW m \in Message, NEW t \in Server, t.encrypted = s.encrypted
  PROVE  /\ s.state = "login" /\ m.name = "PluginRequest"
                /\ t.state = "awaitPlugin" =>
              Stage(t, ts, Append(tc, m), q, at, e, re)
         /\ s.state = "login" /\ m.name = "SetCompression"
                /\ t.state = "login" =>
              ts = <<>> /\ Stage(t, ts, Append(tc, m), q, at, e, re)
         /\ s.state = "login" /\ m.name = "EncryptionRequest"
                /\ t.state = "awaitEncryption" /\ ~Compresses(tc, Len(tc)) =>
              Stage(t, ts, Append(tc, m), q, at, e, re)
         /\ s.state = "login" /\ m.name = "LoginSuccess"
                /\ t.state \in After =>
              Stage(t, ts, Append(tc, m), q, at, e, re)
         /\ s.state \in After /\ m.name \notin LoginNames
                /\ t.state \in After =>
              Stage(t, ts, Append(tc, m), q, at, e, re)
<1> DEFINE r == Append(tc, m)
<1>1. /\ Compressing(tc) /\ m.name = "SetCompression" => Compressing(r)
      /\ Compressing(tc) /\ m.name = "PluginRequest" => AsksPlugin(r)
      /\ Compressing(tc) /\ m.name = "LoginSuccess" => Succeeds(r)
      /\ Succeeds(tc) /\ m.name \notin LoginNames => Succeeds(r)
      /\ Settles(tc) /\ m.name \notin LoginNames => Settles(r)
  BY ShapesAppended
<1>2. Compressing(tc) /\ ~Compresses(tc, Len(tc)) =>
        Len(r) = 1 /\ r[1] = m
  <2>1. SUFFICES ASSUME Compressing(tc), ~Compresses(tc, Len(tc))
                 PROVE  Len(r) = 1 /\ r[1] = m
    OBVIOUS
  <2>2. DOMAIN tc = 1..Len(tc) /\ Len(tc) \in Nat
    OBVIOUS
  <2>3. Len(tc) = 0
    <3>1. Len(tc) \notin 1..Len(tc)
      BY <2>1, <2>2 DEF Compressing, Compresses
    <3>2. QED
      BY <2>2, <3>1
  <2>4. Len(r) = Len(tc) + 1 /\ r[Len(tc) + 1] = m
    OBVIOUS
  <2>5. QED
    BY <2>3, <2>4
<1> HIDE DEF r
<1>3. CASE s.state = "login"
  <2>1. /\ re = "login" /\ Compressing(tc) /\ Idle(ts, q)
        /\ (t.encrypted <=> e) /\ at \notin {"join", "respond"}
    BY <1>3 DEF Stage, After, Choosing
  <2>2. CASE m.name = "PluginRequest" /\ t.state = "awaitPlugin"
    <3>1. AwaitingPlugin(t, ts, r, q, at, e)
      BY <1>1, <2>1, <2>2 DEF AwaitingPlugin
    <3>2. QED
      BY <1>3, <2>1, <2>2, <3>1 DEF Stage, After, r
  <2>3. CASE m.name = "SetCompression" /\ t.state = "login"
    <3>1. Choosing(t, ts, r, q, at, e)
      BY <1>1, <2>1, <2>3 DEF Choosing
    <3>2. QED
      BY <1>3, <2>1, <2>3, <3>1 DEF Stage, After, Idle, r
  <2>4. CASE /\ m.name = "EncryptionRequest" /\ t.state = "awaitEncryption"
             /\ ~Compresses(tc, Len(tc))
    <3>1. AwaitingEncryption(t, ts, r, q, at, e)
      BY <1>2, <2>1, <2>4 DEF AwaitingEncryption
    <3>2. QED
      BY <1>3, <2>1, <2>4, <3>1 DEF Stage, After, r
  <2>5. CASE m.name = "LoginSuccess" /\ t.state \in After
    <3>1. Afterwards(t, ts, r, q, at, e, re)
      BY <1>1, <2>1, <2>5 DEF Afterwards
    <3>2. QED
      BY <1>3, <2>1, <2>5, <3>1 DEF Stage, After, r
  <2>6. QED
    BY <1>3, <2>2, <2>3, <2>4, <2>5 DEF After
<1>4. CASE s.state \in After
  <2>1. Afterwards(s, ts, tc, q, at, e, re)
    BY <1>4 DEF Stage
  <2>2. ASSUME m.name \notin LoginNames, t.state \in After
        PROVE  Stage(t, ts, r, q, at, e, re)
    <3>1. Afterwards(t, ts, r, q, at, e, re)
      BY <1>1, <2>1, <2>2 DEF Afterwards
    <3>2. QED
      BY <2>2, <3>1 DEF Stage, After
  <2>3. QED
    BY <1>4, <2>2 DEF After, r
<1>5. QED
  BY <1>3, <1>4

\* The server reads a packet under the modes it was written under.
LEMMA HeadAgrees ==
  ASSUME NEW s \in Server, NEW ts \in Seq(Letter), ts # <<>>, Agrees(s, ts)
  PROVE  /\ Head(ts).encrypted = s.encrypted
         /\ Head(ts).compressed = s.compressed
<1>1. Head(ts) \in Letter /\ Head(ts) = ts[1] /\ 1 \in DOMAIN ts
  OBVIOUS
<1>2. /\ Head(ts).encrypted \in BOOLEAN /\ Head(ts).compressed \in BOOLEAN
      /\ s.encrypted \in BOOLEAN /\ s.compressed \in BOOLEAN
  BY <1>1 DEF Letter, Server
<1>3. /\ Head(ts).encrypted <=> s.encrypted
      /\ Head(ts).compressed <=> s.compressed
  BY <1>1 DEF Agrees
<1>4. QED
  BY <1>2, <1>3

\* The modes of the server t that has read it.
Served(s, name, t) ==
  /\ t.state = Steps(s.state, name) /\ t.compressed = s.compressed
  /\ t.encrypted <=> s.encrypted \/ (s.state = "awaitEncryption"
                                       /\ name = "EncryptionResponse")

\* The other packets can be read as before, when the modes do not change.
LEMMA AgreesTail ==
  ASSUME NEW s, NEW t, NEW ts \in Seq(Letter), ts # <<>>, Agrees(s, ts),
         \/ t.encrypted <=> s.encrypted
         \/ Len(ts) <= 1,
         t.compressed = s.compressed
  PROVE  Agrees(t, Tail(ts))
<1>1. /\ Len(ts) \in Nat /\ DOMAIN ts = 1..Len(ts)
      /\ DOMAIN Tail(ts) = 1..Len(ts) - 1
      /\ \A i \in 1..Len(ts) - 1 : Tail(ts)[i] = ts[i + 1]
  BY TailFacts
<1>2. CASE t.encrypted <=> s.encrypted
  <2>1. \A i \in DOMAIN Tail(ts) :
          i + 1 \in DOMAIN ts /\ Tail(ts)[i] = ts[i + 1]
    BY <1>1
  <2>2. QED
    BY <1>2, <2>1 DEF Agrees
<1>3. CASE Len(ts) <= 1
  <2>1. \A i \in DOMAIN Tail(ts) : FALSE
    BY <1>1, <1>3
  <2>2. QED
    BY <2>1 DEF Agrees
<1>4. QED
  BY <1>2, <1>3

\* The stages go on with each packet that the server reads.
LEMMA StageServed ==
  ASSUME NEW s \in Server, NEW ts \in Seq(Letter), NEW tc, NEW q, NEW at,
         NEW e, NEW re, Stage(s, ts, tc, q, at, e, re), ~Gone(s), ts # <<>>,
         NEW t, Served(s, Head(ts).name, t)
  PROVE  /\ Stage(t, Tail(ts), tc, q, at, e, re)
         /\ s.state = "awaitEncryption" => Len(ts) = 1
<1> DEFINE r == Tail(ts)
           x == Head(ts).name
<1>1. /\ Len(ts) \in Nat /\ x = ts[1].name
      /\ Len(ts) = 1 => r = <<>>
      /\ Len(ts) = 2 => Len(r) = 1 /\ r[1] = ts[2]
  <2>1. /\ Len(ts) \in Nat /\ Head(ts) = ts[1]
        /\ Len(ts) = 1 => Tail(ts) = <<>>
        /\ Len(Tail(ts)) = Len(ts) - 1
        /\ \A i \in 1..Len(ts) - 1 : Tail(ts)[i] = ts[i + 1]
    BY TailFacts
  <2>2. QED
    BY <2>1
<1>2. s.state \in States
  BY DEF Server
<1>3. Served(s, x, t)
  OBVIOUS
<1> HIDE DEF r, x
<1>4. CASE s.state \in After
  <2>1. Afterwards(s, ts, tc, q, at, e, re)
    BY <1>4 DEF Stage
  <2>2. t.state \in After /\ (t.encrypted <=> s.encrypted)
    BY <1>3, <1>4 DEF Served, Steps, After
  <2>3. Afterwards(t, r, tc, q, at, e, re)
    BY <2>1, <2>2 DEF Afterwards, Idle
  <2>4. Stage(t, r, tc, q, at, e, re)
    BY <2>2, <2>3 DEF Stage, After
  <2>5. QED
    BY <1>4, <2>4 DEF After, r
<1>5. CASE s.state = "hello"
  <2>1. Starting(s, ts, tc, q, at, e) /\ re = "login" /\ Opening(ts, q)
    BY <1>5 DEF Stage, Starting, After
  <2>2. x = "HandShake" /\ Owing(r, q, "LoginStart")
    BY <1>1, <2>1 DEF Opening, Owing
  <2>3. t.state = "start" /\ (t.encrypted <=> s.encrypted)
    BY <1>3, <1>5, <2>2 DEF Served, Steps
  <2>4. Starting(t, r, tc, q, at, e)
    BY <2>1, <2>2, <2>3 DEF Starting
  <2>5. QED
    BY <1>5, <2>1, <2>3, <2>4 DEF Stage, After, r
<1>6. CASE s.state = "start"
  <2>1. Starting(s, ts, tc, q, at, e) /\ re = "login"
        /\ Owing(ts, q, "LoginStart")
    BY <1>6 DEF Stage, Starting, After
  <2>2. x = "LoginStart" /\ Idle(r, q)
    BY <1>1, <2>1 DEF Owing, Idle
  <2>3. t.state = "login" /\ (t.encrypted <=> s.encrypted)
    BY <1>3, <1>6, <2>2 DEF Served, Steps
  <2>4. Choosing(t, r, tc, q, at, e)
    BY <2>1, <2>2, <2>3 DEF Starting, Choosing, Compressing, Switching
  <2>5. QED
    BY <1>6, <2>1, <2>3, <2>4 DEF Stage, After, r
<1>7. CASE s.state = "login"
  BY <1>7 DEF Stage, Choosing, Idle
<1>8. CASE s.state = "awaitPlugin"
  <2>1. /\ re = "login" /\ at \notin Switching /\ tc = <<>>
        /\ Owing(ts, q, "PluginResponse") /\ (s.encrypted <=> e)
    BY <1>8 DEF Stage, AwaitingPlugin, Idle, After
  <2>2. x = "PluginResponse" /\ Idle(r, q)
    BY <1>1, <2>1 DEF Owing, Idle
  <2>3. t.state = "login" /\ (t.encrypted <=> s.encrypted)
    BY <1>3, <1>8, <2>2 DEF Served, Steps
  <2>4. Choosing(t, r, tc, q, at, e)
    BY <2>1, <2>2, <2>3 DEF Choosing, Compressing, Switching
  <2>5. QED
    BY <1>8, <2>1, <2>3, <2>4 DEF Stage, After, r
<1>9. CASE s.state = "awaitEncryption"
  <2>1. /\ re = "login" /\ at \notin {"join", "respond"} /\ e /\ AllChat(q)
        /\ Len(ts) = 1 /\ ts[1].name = "EncryptionResponse" /\ tc = <<>>
    BY <1>9 DEF Stage, AwaitingEncryption, Idle, After
  <2>2. x = "EncryptionResponse" /\ Idle(r, q)
    BY <1>1, <2>1 DEF Idle
  <2>3. t.state = "login" /\ t.encrypted
    BY <1>3, <1>9, <2>2 DEF Served, Steps
  <2>4. Choosing(t, r, tc, q, at, e)
    BY <2>1, <2>2, <2>3 DEF Choosing, Compressing
  <2>5. QED
    BY <2>1, <2>3, <2>4 DEF Stage, After, r
<1>10. QED
  BY <1>2, <1>4, <1>5, <1>6, <1>7, <1>8, <1>9 DEF States, Gone, After

\* The server reads on a connection that is open.
LEMMA OpenServed ==
  ASSUME NEW s, NEW ts, NEW tc, NEW q, NEW at, NEW we, NEW fe, NEW k, NEW re,
         ViewType(s, ts, tc, q, at, we, fe, k, re),
         Open(s, ts, tc, q, at, we, fe, k, re), ~Gone(s), ts # <<>>,
         NEW t, Served(s, Head(ts).name, t)
  PROVE  Open(t, Tail(ts), tc, q, at, we, fe, k, re)
<1>1. /\ Stage(s, ts, tc, q, at, Ciphered(at, fe), re)
      /\ Agrees(s, ts)
      /\ s.compressed <=> k \/ Compresses(tc, Len(tc))
  BY DEF Open
<1>2. s \in Server /\ ts \in Seq(Letter)
  BY DEF ViewType
<1>3. /\ Stage(t, Tail(ts), tc, q, at, Ciphered(at, fe), re)
      /\ s.state = "awaitEncryption" => Len(ts) = 1
  BY <1>1, <1>2, StageServed
<1>4. /\ t.compressed = s.compressed
      /\ s.state # "awaitEncryption" => (t.encrypted <=> s.encrypted)
  BY DEF Served
<1>5. Agrees(t, Tail(ts))
  <2>1. CASE s.state # "awaitEncryption"
    BY <1>1, <1>2, <1>4, <2>1, AgreesTail
  <2>2. CASE s.state = "awaitEncryption"
    <3>1. Len(ts) = 1 /\ 1 <= 1
      BY <1>3, <2>2
    <3>2. Len(ts) <= 1
      BY <3>1, Zenon
    <3>3. QED
      BY <1>1, <1>2, <1>4, <3>2, AgreesTail
  <2>3. QED
    BY <2>1, <2>2
<1>6. QED
  BY <1>1, <1>3, <1>4, <1>5 DEF Open

\* The server reads on a connection that the client has closed.
LEMMA ShutServed ==
  ASSUME NEW s \in Server, NEW ts \in Seq(Letter), Shut(s, ts), ~Gone(s),
         ts # <<>>, NEW t, Served(s, Head(ts).name, t)
  PROVE  Shut(t, Tail(ts))
<1>1. Agrees(s, ts) /\ (s.state = "awaitEncryption" => Len(ts) <= 1)
  BY DEF Shut
<1>2. /\ t.compressed = s.compressed
      /\ s.state # "awaitEncryption" => (t.encrypted <=> s.encrypted)
      /\ t.state = "awaitEncryption" => s.state = "awaitEncryption"
  <2>1. s.state \in States
    BY DEF Server
  <2>2. QED
    BY <2>1 DEF Served, Steps, States
<1>3. Agrees(t, Tail(ts))
  BY <1>1, <1>2, AgreesTail
<1>4. t.state = "awaitEncryption" => Len(Tail(ts)) <= 1
  <2>1. Len(ts) \in Nat /\ Len(Tail(ts)) = Len(ts) - 1
    BY TailFacts
  <2>2. QED
    BY <1>1, <1>2, <2>1
<1>5. QED
  BY <1>3, <1>4 DEF Shut
-----------------------------------------------------------------------------
(* The steps of the system.                                                 *)

ModesType ==
  /\ toServer \in [Connections -> Seq(Letter)]
  /\ compression \in BOOLEAN /\ reactor \in Reactors

\* A packet that the thread has read and does not react to yet counts as one
\* that it has still to read.
At == IF thread.at \in {"bind", "select", "parse", "react"}
      THEN "loop" ELSE thread.at
Incoming ==
  IF thread.at \in {"parse", "react"}
  THEN <<reading.packet>> \o toClient[connections]
  ELSE toClient[connections]

OpenNow ==
  Open(server[connections], toServer[connections], Incoming, queue, At,
       socket.encrypted, file.encrypted, compression, reactor)
ShutNow == Shut(server[connections], toServer[connections])

\* The thread of the connection before is still there: nothing of the login
\* has been written yet.
Unopened ==
  /\ thread.at \notin Switching \cup {"parse", "react"}
  /\ reactor = "login"
  /\ server[connections].state \in {"hello", "closed"}
  /\ toServer[connections] = <<>>
  /\ \A i \in DOMAIN toClient[connections] :
       toClient[connections][i].name \in Ends

\* The thread reads from the last connection, for the reactor of now.
Attends ==
  /\ thread.at \in {"parse", "react"} =>
       reading.number = connections /\ reading.reactor = reactor
  /\ thread.at = "select" /\ reading.number = connections =>
       reading.reactor = reactor

\* The packet that it is about to parse has the format of now.
Parsable ==
  thread.at = "parse" /\ reading.number \notin overtaken =>
    (reading.packet.compressed <=> compression)

LastAgreed ==
  /\ thread.next = "waiting" => Unopened
  /\ Attends
  /\ socket.number # 0 => OpenNow
  /\ socket.number = 0 => ShutNow

\* The client and the server of the last connection agree, unless it has been
\* overtaken.
Agreed ==
  /\ ModesType
  /\ socket.number = file.number
  /\ \A m \in Connections : m # connections => server[m].state = "none"
  /\ thread.next # "none" => thread.interrupt
  /\ reading.number \in 0..connections
  /\ Parsable
  /\ connections # 0 /\ connections \notin overtaken => LastAgreed
  /\ NothingGarbled

\* A packet in front of others.
LEMMA FrontFacts ==
  ASSUME NEW S, NEW p \in S, NEW s \in Seq(S)
  PROVE  /\ <<p>> \o s \in Seq(S) /\ <<p>> \o s # <<>>
         /\ Head(<<p>> \o s) = p
         /\ Tail(<<p>> \o s) = s
         /\ \A m \in S : <<p>> \o Append(s, m) = Append(<<p>> \o s, m)
<1> DEFINE q == <<p>> \o s
<1>1. /\ <<p>> \in Seq(S) /\ Len(<<p>>) = 1 /\ <<p>>[1] = p
      /\ Len(s) \in Nat
  OBVIOUS
<1>2. /\ q \in Seq(S) /\ Len(q) = Len(s) + 1 /\ q[1] = p
      /\ \A i \in 1..Len(s) : q[i + 1] = s[i]
  BY <1>1
<1> HIDE DEF q
<1>3. q # <<>> /\ Head(q) = p
  BY <1>1, <1>2
<1>4. Tail(q) = s
  <2>1. /\ Tail(q) \in Seq(S) /\ Len(Tail(q)) = Len(s)
        /\ \A i \in 1..Len(s) : Tail(q)[i] = s[i]
    BY <1>1, <1>2, <1>3
  <2>2. QED
    BY <2>1
<1>5. ASSUME NEW m \in S PROVE <<p>> \o Append(s, m) = Append(q, m)
  <2> DEFINE l == <<p>> \o Append(s, m)
             r == Append(q, m)
  <2>1. /\ Append(s, m) \in Seq(S) /\ Len(Append(s, m)) = Len(s) + 1
        /\ Append(s, m)[Len(s) + 1] = m
        /\ \A i \in 1..Len(s) : Append(s, m)[i] = s[i]
    OBVIOUS
  <2>2. /\ l \in Seq(S) /\ Len(l) = Len(s) + 2 /\ l[1] = p
        /\ \A i \in 1..Len(s) + 1 : l[i + 1] = Append(s, m)[i]
    BY <1>1, <2>1
  <2>3. /\ r \in Seq(S) /\ Len(r) = Len(s) + 2 /\ r[1] = p
        /\ r[Len(s) + 2] = m
        /\ \A i \in 1..Len(s) : r[i + 1] = s[i]
    BY <1>1, <1>2
  <2> HIDE DEF l, r
  <2>4. \A i \in 1..Len(s) + 2 :
          i = 1 \/ i = Len(s) + 2 \/ (i - 1 \in 1..Len(s) /\ i - 1 + 1 = i)
    BY <1>1
  <2>5. l[Len(s) + 2] = m /\ \A i \in 1..Len(s) : l[i + 1] = s[i]
    <3>1. Len(s) + 1 \in 1..Len(s) + 1 /\ Len(s) + 1 + 1 = Len(s) + 2
      BY <1>1
    <3>2. \A i \in 1..Len(s) : i \in 1..Len(s) + 1
      BY <1>1
    <3>3. QED
      BY <2>1, <2>2, <3>1, <3>2
  <2>6. \A i \in 1..Len(s) + 2 : l[i] = r[i]
    BY <2>2, <2>3, <2>4, <2>5
  <2>7. QED
    BY <2>2, <2>3, <2>6 DEF l, r
<1>6. QED
  BY <1>2, <1>3, <1>4, <1>5 DEF q

\* The types of what is there now.
LEMMA NowFacts ==
  ASSUME SessionInv, Agreed
  PROVE  /\ socket \in Stream /\ file \in Stream /\ thread \in Thread
         /\ socket.number \in {0, connections} /\ file.number = socket.number
         /\ connections \in Nat
         /\ queue \in Seq(ClientPackets)
         /\ thread.interrupt \in BOOLEAN /\ reading.packet \in Message
         /\ At \in Places /\ (At \in Switching <=> thread.at \in Switching)
         /\ connections # 0 =>
              /\ connections \in Connections
              /\ toServer[connections] \in Seq(Letter)
              /\ toClient[connections] \in Seq(Message)
              /\ server[connections] \in Server
              /\ ViewType(server[connections], toServer[connections],
                          Incoming, queue, At, socket.encrypted,
                          file.encrypted, compression, reactor)
<1>1. /\ socket \in Stream /\ file \in Stream /\ thread \in Thread
      /\ socket.number \in {0, connections} /\ connections \in 0..MaxConnections
      /\ connections \in Nat /\ reading \in Reading
  BY DEF SessionInv, StreamsType
<1>2. /\ socket.encrypted \in BOOLEAN /\ file.encrypted \in BOOLEAN
      /\ thread.at \in Places /\ thread.interrupt \in BOOLEAN
      /\ reading.packet \in Message
  BY <1>1 DEF Stream, Thread, Reading
<1>3. queue \in Seq(ClientPackets) /\ file.number = socket.number
  BY DEF SessionInv, ChannelType, Agreed
<1>4. connections # 0 => connections \in Connections
  BY <1>1 DEF Connections
<1>5. ASSUME connections \in Connections
      PROVE  /\ toServer[connections] \in Seq(Letter)
             /\ toClient[connections] \in Seq(Message)
             /\ server[connections] \in Server
             /\ Incoming \in Seq(Message)
  <2>1. /\ toServer[connections] \in Seq(Letter)
        /\ toClient[connections] \in Seq(Message)
        /\ server[connections] \in Server
    BY <1>5 DEF SessionInv, ServerType, ChannelType, Agreed, ModesType
  <2>2. <<reading.packet>> \o toClient[connections] \in Seq(Message)
    BY <1>2, <2>1, FrontFacts
  <2>3. QED
    BY <2>1, <2>2 DEF Incoming
<1>6. compression \in BOOLEAN /\ reactor \in Reactors
  BY DEF Agreed, ModesType
<1>7. At \in Places /\ (At \in Switching <=> thread.at \in Switching)
  BY <1>2 DEF At, Places, Switching
<1>8. QED
  BY <1>1, <1>2, <1>3, <1>4, <1>5, <1>6, <1>7 DEF ViewType

\* A packet that the thread has in its hands.
LEMMA HeldFacts ==
  ASSUME SessionInv, Agreed, connections # 0, thread.at \in {"parse", "react"}
  PROVE  /\ At = "loop" /\ Incoming # <<>>
         /\ Head(Incoming) = reading.packet
         /\ Tail(Incoming) = toClient[connections]
<1>1. reading.packet \in Message /\ toClient[connections] \in Seq(Message)
  BY NowFacts
<1>2. Incoming = <<reading.packet>> \o toClient[connections] /\ At = "loop"
  BY DEF Incoming, At
<1>3. QED
  BY <1>1, <1>2, FrontFacts

\* What is written is under way.
LEMMA WrittenFacts ==
  ASSUME SessionInv, Agreed, socket.number # 0,
         NEW names \in Seq(ClientPackets), Written(names)
  PROVE  /\ toServer' \in [Connections -> Seq(Letter)]
         /\ toServer'[connections] = toServer[connections] \o
              [i \in DOMAIN names |->
                [name |-> names[i], encrypted |-> socket.encrypted,
                 compressed |-> compression]]
<1> DEFINE ls == [i \in DOMAIN names |->
                   [name |-> names[i], encrypted |-> socket.encrypted,
                    compressed |-> compression]]
<1>1. /\ socket.number = connections /\ connections \in Connections
      /\ toServer[connections] \in Seq(Letter)
      /\ socket.encrypted \in BOOLEAN /\ compression \in BOOLEAN
  BY NowFacts DEF Stream, Agreed, ModesType
<1>2. toServer \in [Connections -> Seq(Letter)]
  BY DEF Agreed, ModesType
<1>3. toServer' = [toServer EXCEPT ![connections] =
                     toServer[connections] \o ls]
  BY <1>1 DEF Written, Packet
<1>4. ls \in Seq(Letter)
  <2>1. \A i \in DOMAIN names :
          [name |-> names[i], encrypted |-> socket.encrypted,
           compressed |-> compression] \in Letter
    BY <1>1 DEF Letter
  <2>2. DOMAIN names = 1..Len(names) /\ Len(names) \in Nat
    OBVIOUS
  <2>3. QED
    BY <2>1, <2>2
<1> HIDE DEF ls
<1>5. toServer[connections] \o ls \in Seq(Letter)
  BY <1>1, <1>4
<1>6. QED
  BY <1>1, <1>2, <1>3, <1>5 DEF ls

\* One packet.
LEMMA WrittenOne ==
  ASSUME SessionInv, Agreed, socket.number # 0,
         NEW x \in ClientPackets, Written(<<x>>)
  PROVE  /\ toServer' \in [Connections -> Seq(Letter)]
         /\ toServer'[connections] = Append(toServer[connections],
              [name |-> x, encrypted |-> socket.encrypted,
               compressed |-> compression])
<1> DEFINE l == [name |-> x, encrypted |-> socket.encrypted,
                 compressed |-> compression]
           ls == [i \in DOMAIN <<x>> |->
                   [name |-> <<x>>[i], encrypted |-> socket.encrypted,
                    compressed |-> compression]]
<1>1. /\ toServer' \in [Connections -> Seq(Letter)]
      /\ toServer'[connections] = toServer[connections] \o ls
  <2>1. <<x>> \in Seq(ClientPackets)
    OBVIOUS
  <2>2. QED
    BY <2>1, WrittenFacts
<1>2. /\ connections \in Connections
      /\ toServer[connections] \in Seq(Letter)
      /\ l \in Letter
  BY NowFacts DEF Stream, Agreed, ModesType, Letter
<1>3. ls = <<l>>
  <2>1. DOMAIN <<x>> = 1..1 /\ \A i \in 1..1 : <<x>>[i] = x
    OBVIOUS
  <2>2. ls = [i \in 1..1 |-> l]
    BY <2>1
  <2>3. <<l>> = [i \in 1..1 |-> l]
    OBVIOUS
  <2>4. QED
    BY <2>2, <2>3
<1> HIDE DEF l, ls
<1>4. toServer[connections] \o <<l>> = Append(toServer[connections], l)
  BY <1>2
<1>5. QED
  BY <1>1, <1>3, <1>4 DEF l

\* A step that changes no server but the last one, by what it does to the
\* last connection.
LEMMA AgreedCarries ==
  ASSUME SessionInv, Agreed, connections' = connections,
         ModesType', socket'.number = file'.number,
         \A m \in Connections : m # connections => server'[m] = server[m],
         thread'.next # "none" => thread'.interrupt,
         reading'.number \in 0..connections, Parsable',
         overtaken \subseteq overtaken',
         garbled' \subseteq garbled \cup overtaken',
         connections # 0 /\ connections \notin overtaken' => LastAgreed'
  PROVE  Agreed'
<1>1. \A m \in Connections : m # connections => server'[m].state = "none"
  BY DEF Agreed
<1>2. NothingGarbled'
  BY DEF Agreed, NothingGarbled
<1>3. QED
  BY <1>1, <1>2 DEF Agreed

\* What the thread reads is left as it is, or the thread is done with it.
LEMMA AttendsOn ==
  ASSUME SessionInv, Agreed, connections' = connections,
         overtaken \subseteq overtaken',
         \/ /\ UNCHANGED <<compression, reactor, reading>>
            /\ thread'.at = thread.at
         \/ /\ reading' \in {reading, Nothing}
            /\ thread'.at \notin {"select", "parse", "react"}
  PROVE  /\ reading'.number \in 0..connections
         /\ Parsable'
         /\ connections # 0 /\ connections \notin overtaken' => Attends'
<1>1. Nothing.number = 0 /\ connections \in Nat /\ reading.number \in 0..connections
  BY NowFacts DEF Nothing, Agreed
<1>2. reading'.number \in 0..connections
  BY <1>1
<1>3. CASE thread'.at \notin {"select", "parse", "react"}
  BY <1>2, <1>3 DEF Parsable, Attends
<1>4. CASE /\ UNCHANGED <<compression, reactor, reading>>
           /\ thread'.at = thread.at
  <2>1. Parsable'
    BY <1>4 DEF Parsable, Agreed
  <2>2. connections # 0 /\ connections \notin overtaken' => Attends'
    BY <1>4 DEF Attends, Agreed, LastAgreed
  <2>3. QED
    BY <1>2, <2>1, <2>2
<1>5. QED
  BY <1>3, <1>4

\* The thread comes to an end, for whatever reason.
LEMMA FailsAgreed ==
  ASSUME SessionInv, Agreed, Fails,
         UNCHANGED <<connections, compression, reactor, queue, server, toServer,
                     toClient, overtaken>>,
         garbled' \subseteq garbled \cup overtaken
  PROVE  Agreed'
<1>1. /\ socket.number \in {0, connections} /\ file.number = socket.number
      /\ thread \in Thread
      /\ connections # 0 =>
           ViewType(server[connections], toServer[connections],
                    Incoming, queue, At, socket.encrypted,
                    file.encrypted, compression, reactor)
  BY NowFacts
<1>2. /\ thread'.at = "ended" /\ thread'.interrupt
      /\ thread'.next = thread.next /\ reading' = Nothing
  BY <1>1 DEF Fails, Thread
<1>3. ModesType'
  BY DEF Agreed, ModesType
<1>4. "ended" \notin Switching
  BY DEF Switching
<1>5. /\ reading'.number \in 0..connections
      /\ Parsable'
      /\ connections # 0 /\ connections \notin overtaken' => Attends'
  BY <1>2, AttendsOn
<1>6. CASE thread.next = "waiting"
  <2>1. UNCHANGED <<socket, file>>
    BY <1>6 DEF Fails
  <2>2. ASSUME connections # 0, connections \notin overtaken
        PROVE  /\ Unopened'
               /\ socket'.number # 0 => OpenNow'
               /\ socket'.number = 0 => ShutNow'
    <3>1. Unopened
      BY <1>6, <2>2 DEF Agreed, LastAgreed
    <3>2. Unopened'
      BY <1>2, <1>4, <3>1 DEF Unopened
    <3>3. socket.number # 0 => OpenNow
      BY <2>2 DEF Agreed, LastAgreed
    <3>4. At \notin Switching /\ Incoming = toClient[connections]
      BY <3>1, NowFacts DEF Unopened, Incoming
    <3>5. socket.number # 0 =>
            Open(server[connections], toServer[connections], Incoming, queue,
                 "ended", socket.encrypted, file.encrypted, compression,
                 reactor)
      BY <1>4, <3>3, <3>4, OpenMoves DEF OpenNow
    <3>6. At' = "ended" /\ Incoming' = toClient[connections]
      BY <1>2 DEF At, Incoming
    <3>7. socket'.number = 0 => ShutNow'
      BY <2>1, <2>2 DEF Agreed, LastAgreed, ShutNow
    <3>8. QED
      BY <2>1, <3>2, <3>4, <3>5, <3>6, <3>7 DEF OpenNow
  <2>3. socket'.number = file'.number
    BY <1>1, <2>1
  <2>4. connections # 0 /\ connections \notin overtaken' => LastAgreed'
    BY <1>5, <2>2 DEF LastAgreed
  <2>5. QED
    BY <1>2, <1>3, <1>5, <2>3, <2>4, AgreedCarries
<1>7. CASE thread.next # "waiting"
  <2>1. socket' = None /\ file' = None /\ None.number = 0
    BY <1>7 DEF Fails, None
  <2>2. ASSUME connections # 0, connections \notin overtaken
        PROVE  ShutNow'
    <3>1. ShutNow
      <4>1. CASE socket.number = 0
        BY <2>2, <4>1 DEF Agreed, LastAgreed
      <4>2. CASE socket.number # 0
        <5>1. OpenNow
          BY <2>2, <4>2 DEF Agreed, LastAgreed
        <5>2. QED
          BY <1>1, <2>2, <5>1, OpenShuts DEF OpenNow, ShutNow
      <4>3. QED
        BY <4>1, <4>2
    <3>2. QED
      BY <3>1 DEF ShutNow
  <2>3. connections # 0 /\ connections \notin overtaken' => LastAgreed'
    BY <1>2, <1>5, <1>7, <2>1, <2>2 DEF LastAgreed
  <2>4. QED
    BY <1>2, <1>3, <1>5, <2>1, <2>3, AgreedCarries
<1>8. QED
  BY <1>6, <1>7

\* The steps of the thread that have to do neither with the streams nor with
\* what is under way.
LEMMA MovesAgreed ==
  ASSUME SessionInv, Agreed,
         UNCHANGED <<connections, socket, file, compression, reactor, queue,
                     server, toServer, garbled, overtaken>>,
         thread'.next # "none" => thread'.interrupt,
         reading'.number \in 0..connections, Parsable',
         thread.at \notin Switching, At' \notin Switching,
         connections # 0 /\ connections \notin overtaken =>
           /\ thread'.next = "waiting" => Unopened'
           /\ Attends' /\ Incoming' = Incoming
  PROVE  Agreed'
<1>1. ModesType' /\ socket'.number = file'.number
  BY DEF Agreed, ModesType
<1>2. ASSUME connections # 0, connections \notin overtaken
      PROVE  LastAgreed'
  <2>1. /\ socket.number # 0 => OpenNow
        /\ socket.number = 0 => ShutNow
    BY <1>2 DEF Agreed, LastAgreed
  <2>2. At \notin Switching
    BY NowFacts
  <2>3. PICK at : at = At'
    OBVIOUS
  <2>4. OpenNow =>
          Open(server[connections], toServer[connections], Incoming, queue, at,
               socket.encrypted, file.encrypted, compression, reactor)
    BY <2>2, <2>3, OpenMoves DEF OpenNow
  <2>5. (socket'.number # 0 => OpenNow') /\ (socket'.number = 0 => ShutNow')
    BY <1>2, <2>1, <2>3, <2>4 DEF OpenNow, ShutNow
  <2>6. QED
    BY <1>2, <2>5 DEF LastAgreed
<1>3. QED
  BY <1>1, <1>2, AgreedCarries

\* The networking thread writes a packet of the queue.
LEMMA WritesAgreed ==
  ASSUME SessionInv, Agreed, NetworkWrites
  PROVE  Agreed'
<1>1. /\ thread.at = "loop" /\ ~thread.interrupt /\ socket.number # 0
      /\ queue # <<>>
      /\ Written(<<Head(queue)>>) /\ Overtakes(<<Head(queue)>>)
      /\ queue' = Tail(queue)
      /\ UNCHANGED <<connections, socket, file, compression, reactor, thread,
                     reading, server, toClient, garbled>>
  BY DEF NetworkWrites
<1>2. /\ socket.number = connections /\ file.number = socket.number
      /\ queue \in Seq(ClientPackets) /\ At = "loop"
      /\ connections # 0 =>
           ViewType(server[connections], toServer[connections],
                    Incoming, queue, At, socket.encrypted,
                    file.encrypted, compression, reactor)
  BY <1>1, NowFacts DEF At
<1>3. Head(queue) \in ClientPackets
  BY <1>1, <1>2
<1>4. /\ toServer' \in [Connections -> Seq(Letter)]
      /\ toServer'[connections] = Append(toServer[connections],
           [name |-> Head(queue), encrypted |-> socket.encrypted,
            compressed |-> compression])
  BY <1>1, <1>3, WrittenOne
<1>5. ModesType' /\ (thread'.next # "none" => thread'.interrupt)
  BY <1>1, <1>4 DEF Agreed, ModesType
<1>6. /\ overtaken \subseteq overtaken'
      /\ reactor = "login" /\ Head(queue) = "Chat" => connections \in overtaken'
  <2>1. 1 \in DOMAIN <<Head(queue)>> /\ <<Head(queue)>>[1] = Head(queue)
    OBVIOUS
  <2>2. QED
    BY <1>1, <1>2, <2>1 DEF Overtakes
<1>7. /\ reading'.number \in 0..connections
      /\ Parsable'
      /\ connections # 0 /\ connections \notin overtaken' => Attends'
  BY <1>1, <1>6, AttendsOn
<1>8. ASSUME connections # 0, connections \notin overtaken' PROVE LastAgreed'
  <2>1. OpenNow
    BY <1>1, <1>6, <1>8 DEF Agreed, LastAgreed
  <2>2. Head(queue) = "Chat" => reactor # "login"
    BY <1>6, <1>8
  <2> DEFINE l == [name |-> Head(queue), encrypted |-> socket.encrypted,
                   compressed |-> compression]
  <2>3. Open(server[connections], Append(toServer[connections], l),
             Incoming, Tail(queue), At, socket.encrypted,
             file.encrypted, compression, reactor)
    BY <1>1, <1>2, <1>8, <2>1, <2>2, OpenPops DEF OpenNow
  <2>4. At' = At /\ Incoming' = Incoming
    BY <1>1 DEF At, Incoming
  <2>5. OpenNow'
    BY <1>1, <1>4, <2>3, <2>4 DEF OpenNow
  <2>6. thread'.next # "waiting"
    BY <1>1, <1>5
  <2>7. QED
    BY <1>1, <1>7, <1>8, <2>5, <2>6 DEF LastAgreed
<1>9. QED
  BY <1>1, <1>2, <1>5, <1>6, <1>7, <1>8, AgreedCarries

\* The user queues a packet.
LEMMA QueuesAgreed ==
  ASSUME SessionInv, Agreed, UserQueues
  PROVE  Agreed'
<1>1. /\ UNCHANGED <<connections, socket, file, compression, reactor, thread,
                     reading, server, toServer, toClient, garbled, overtaken>>
      /\ queue' = Append(queue, "Chat")
  BY DEF UserQueues
<1>2. /\ ModesType' /\ socket'.number = file'.number
      /\ thread'.next # "none" => thread'.interrupt
  BY <1>1 DEF Agreed, ModesType
<1>3. /\ reading'.number \in 0..connections
      /\ Parsable'
      /\ connections # 0 /\ connections \notin overtaken' => Attends'
  BY <1>1, AttendsOn
<1>4. ASSUME connections # 0, connections \notin overtaken
      PROVE  LastAgreed'
  <2>1. /\ thread.next = "waiting" => Unopened
        /\ socket.number # 0 => OpenNow
        /\ socket.number = 0 => ShutNow
    BY <1>4 DEF Agreed, LastAgreed
  <2>2. OpenNow =>
          Open(server[connections], toServer[connections], Incoming,
               Append(queue, "Chat"), At, socket.encrypted, file.encrypted,
               compression, reactor)
    BY <1>4, NowFacts, OpenQueues DEF OpenNow
  <2>3. At' = At /\ Incoming' = Incoming /\ Unopened' = Unopened
    BY <1>1 DEF At, Incoming, Unopened
  <2>4. /\ socket'.number # 0 => OpenNow'
        /\ socket'.number = 0 => ShutNow'
    BY <1>1, <2>1, <2>2, <2>3 DEF OpenNow, ShutNow
  <2>5. QED
    BY <1>1, <1>3, <1>4, <2>1, <2>3, <2>4 DEF LastAgreed
<1>5. QED
  BY <1>1, <1>2, <1>3, <1>4, AgreedCarries

\* The user forces a packet out: during the login this overtakes it.
LEMMA ForcesAgreed ==
  ASSUME SessionInv, Agreed, UserForces
  PROVE  Agreed'
<1>1. /\ socket.number # 0
      /\ Written(<<"Chat">>) /\ Overtakes(<<"Chat">>)
      /\ UNCHANGED <<connections, socket, file, compression, reactor, queue,
                     thread, reading, server, toClient, garbled>>
  BY DEF UserForces
<1>2. /\ socket.number = connections /\ file.number = socket.number
      /\ connections # 0 =>
           ViewType(server[connections], toServer[connections],
                    Incoming, queue, At, socket.encrypted,
                    file.encrypted, compression, reactor)
  BY <1>1, NowFacts
<1>3. "Chat" \in ClientPackets
  BY DEF ClientPackets
<1>4. /\ toServer' \in [Connections -> Seq(Letter)]
      /\ toServer'[connections] = Append(toServer[connections],
           [name |-> "Chat", encrypted |-> socket.encrypted,
            compressed |-> compression])
  BY <1>1, <1>3, WrittenOne
<1>5. ModesType' /\ (thread'.next # "none" => thread'.interrupt)
  BY <1>1, <1>4 DEF Agreed, ModesType
<1>6. /\ overtaken \subseteq overtaken'
      /\ reactor = "login" => connections \in overtaken'
  <2>1. 1 \in DOMAIN <<"Chat">> /\ <<"Chat">>[1] = "Chat"
    OBVIOUS
  <2>2. QED
    BY <1>1, <1>2, <2>1 DEF Overtakes
<1>7. /\ reading'.number \in 0..connections
      /\ Parsable'
      /\ connections # 0 /\ connections \notin overtaken' => Attends'
  BY <1>1, <1>6, AttendsOn
<1>8. ASSUME connections # 0, connections \notin overtaken'
      PROVE  LastAgreed'
  <2>1. OpenNow /\ (thread.next = "waiting" => Unopened)
    BY <1>1, <1>6, <1>8 DEF Agreed, LastAgreed
  <2>2. reactor # "login" /\ thread.next # "waiting"
    BY <1>6, <1>8, <2>1 DEF Unopened
  <2> DEFINE l == [name |-> "Chat", encrypted |-> socket.encrypted,
                   compressed |-> compression]
  <2>3. Open(server[connections], Append(toServer[connections], l),
             Incoming, queue, At, socket.encrypted,
             file.encrypted, compression, reactor)
    BY <1>1, <1>2, <1>8, <2>1, <2>2, OpenForces DEF OpenNow
  <2>4. At' = At /\ Incoming' = Incoming
    BY <1>1 DEF At, Incoming
  <2>5. OpenNow'
    BY <1>1, <1>4, <2>3, <2>4 DEF OpenNow
  <2>6. QED
    BY <1>1, <1>7, <1>8, <2>2, <2>5 DEF LastAgreed
<1>9. QED
  BY <1>1, <1>2, <1>5, <1>6, <1>7, <1>8, AgreedCarries

\* disconnect(), by the user or by the reactor: the queue is written, unless
\* it holds a packet that a user wrote during the login.
LEMMA FlushesAgreed ==
  ASSUME SessionInv, Agreed, Closes,
         UNCHANGED <<connections, compression, reactor, server, toClient,
                     garbled>>,
         thread'.next = Interrupted(thread).next,
         thread'.interrupt = Interrupted(thread).interrupt,
         \/ UNCHANGED reading /\ thread'.at = thread.at
         \/ reading' = Nothing /\ thread'.at = "loop"
  PROVE  Agreed'
<1> DEFINE ls == [i \in DOMAIN queue |->
                   [name |-> queue[i], encrypted |-> socket.encrypted,
                    compressed |-> compression]]
<1>1. /\ socket.number \in {0, connections} /\ thread \in Thread
      /\ file.number = socket.number
      /\ queue \in Seq(ClientPackets)
      /\ connections # 0 =>
           ViewType(server[connections], toServer[connections],
                    Incoming, queue, At, socket.encrypted,
                    file.encrypted, compression, reactor)
  BY NowFacts
<1>2. /\ thread'.next # "waiting"
      /\ thread'.next # "none" => thread'.interrupt
  BY <1>1 DEF Interrupted, Thread, Agreed
<1>3. overtaken \subseteq overtaken'
  BY DEF Closes, Overtakes
<1>4. /\ reading'.number \in 0..connections
      /\ Parsable'
      /\ connections # 0 /\ connections \notin overtaken' => Attends'
  BY <1>3, AttendsOn
<1>5. /\ socket'.number = 0 /\ file'.number = 0
  BY <1>1 DEF Closes, None
<1>6. CASE socket.number # 0
  <2>1. Written(queue) /\ Overtakes(queue) /\ socket.number = connections
    BY <1>1, <1>6 DEF Closes
  <2>2. /\ toServer' \in [Connections -> Seq(Letter)]
        /\ toServer'[connections] = toServer[connections] \o ls
    BY <1>1, <1>6, <2>1, WrittenFacts
  <2>3. ModesType'
    BY <2>2 DEF Agreed, ModesType
  <2>4. ASSUME connections # 0, connections \notin overtaken' PROVE ShutNow'
    <3>1. OpenNow
      BY <1>3, <1>6, <2>4 DEF Agreed, LastAgreed
    <3>2. reactor = "login" => \A i \in DOMAIN queue : queue[i] # "Chat"
      BY <2>1, <2>4 DEF Overtakes
    <3>3. Shut(server[connections], toServer[connections] \o ls)
      BY <1>1, <2>4, <3>1, <3>2, OpenFlushes DEF OpenNow
    <3>4. QED
      BY <2>2, <3>3 DEF ShutNow
  <2>5. connections # 0 /\ connections \notin overtaken' => LastAgreed'
    BY <1>2, <1>4, <1>5, <2>4 DEF LastAgreed
  <2>6. QED
    BY <1>2, <1>3, <1>4, <1>5, <2>3, <2>5, AgreedCarries
<1>7. CASE socket.number = 0
  <2>1. UNCHANGED toServer /\ ModesType'
    BY <1>7 DEF Closes, Agreed, ModesType
  <2>2. connections # 0 /\ connections \notin overtaken' => ShutNow'
    BY <1>3, <1>7, <2>1 DEF Agreed, LastAgreed, ShutNow
  <2>3. connections # 0 /\ connections \notin overtaken' => LastAgreed'
    BY <1>2, <1>4, <1>5, <2>2 DEF LastAgreed
  <2>4. QED
    BY <1>2, <1>3, <1>4, <1>5, <2>1, <2>3, AgreedCarries
<1>8. QED
  BY <1>6, <1>7

\* The user disconnects.
LEMMA DisconnectAgreed ==
  ASSUME SessionInv, Agreed, Disconnect
  PROVE  Agreed'
<1>1. /\ Closes /\ thread' = Interrupted(thread)
      /\ UNCHANGED <<connections, compression, reactor, reading, server,
                     toClient, garbled>>
  BY DEF Disconnect
<1>2. thread'.at = thread.at
  BY <1>1, NowFacts DEF Interrupted, Thread
<1>3. QED
  BY <1>1, <1>2, FlushesAgreed

\* connect(): the client and the server begin to agree.
LEMMA OpensAtFirst ==
  ASSUME NEW s, s = [NoServer EXCEPT !.state = "hello", !.asked = s.asked],
         NEW at, at \notin Switching
  PROVE  Open(s, <<>>, <<>>, <<"HandShake", "LoginStart">>, at, FALSE, FALSE,
              FALSE, "login")
<1> DEFINE q == <<"HandShake", "LoginStart">>
<1>1. s.state = "hello" /\ s.encrypted = FALSE /\ s.compressed = FALSE
  BY DEF NoServer
<1>2. at \notin {"join", "respond", "wrapSocket", "wrapFile"}
  BY DEF Switching
<1>3. Ciphered(at, FALSE) = FALSE
  BY <1>2 DEF Ciphered
<1>4. HasTwo(q)
  <2>1. Len(q) = 2 /\ q[1] = "HandShake" /\ q[2] = "LoginStart" /\ 3..2 = {}
    OBVIOUS
  <2>2. QED
    BY <2>1 DEF HasTwo
<1> HIDE DEF q
<1>5. Opening(<<>>, q)
  BY <1>4 DEF Opening
<1>6. Stage(s, <<>>, <<>>, q, at, FALSE, "login")
  BY <1>1, <1>2, <1>5 DEF Stage, Starting, Switching, After
<1>7. Len(<<>>) = 0 /\ DOMAIN <<>> = {} /\ 1..0 = {}
  OBVIOUS
<1>8. ~Compresses(<<>>, Len(<<>>)) /\ Readable(<<>>, at, FALSE, FALSE)
      /\ Agrees(s, <<>>) /\ Ordered(<<>>, "login")
  BY <1>7 DEF Compresses, Readable, Agrees, Ordered
<1>9. QED
  BY <1>1, <1>2, <1>3, <1>6, <1>8 DEF Open, q

\* The user connects: a thread that has a packet of the connection before in
\* its hands, or reacts to one, overtakes the new one.
LEMMA ConnectAgreed ==
  ASSUME SessionInv, Agreed, Connect
  PROVE  Agreed'
<1> DEFINE n == connections + 1
           busy == thread.at \notin {"none", "ended"}
<1>1. /\ n \in Connections
      /\ thread.next = "none" /\ (busy => thread.interrupt)
      /\ connections' = n
      /\ socket' = [number |-> n, encrypted |-> FALSE] /\ file' = socket'
      /\ compression' = FALSE
      /\ queue' = <<"HandShake", "LoginStart">>
      /\ reactor' = "login"
      /\ thread' = IF busy THEN [thread EXCEPT !.next = "waiting"]
                   ELSE [at |-> "loop", interrupt |-> FALSE, next |-> "none"]
      /\ server' = [m \in Connections |->
                      [NoServer EXCEPT !.asked = server[m].asked,
                         !.state = IF m = n THEN "hello" ELSE "none"]]
      /\ toServer' = [m \in Connections |-> <<>>]
      /\ toClient' = toServer'
      /\ overtaken' = overtaken
                        \cup (IF thread.at \in Underway THEN {n} ELSE {})
                        \cup (IF thread.at = "parse" THEN {reading.number}
                              ELSE {})
      /\ UNCHANGED <<reading, garbled>>
  BY DEF Connect
<1>2. thread \in Thread /\ connections \in Nat /\ reading.number \in 0..connections
  BY NowFacts DEF Agreed
<1>3. ModesType'
  <2>1. <<>> \in Seq(Letter)
    OBVIOUS
  <2>2. QED
    BY <1>1, <2>1 DEF ModesType, Reactors
<1>4. /\ thread'.next # "none" => thread'.interrupt
      /\ thread'.at \in {thread.at, "loop"}
  BY <1>1, <1>2 DEF Thread
<1>5. /\ n \notin overtaken' => thread.at \notin Switching \cup {"parse", "react"}
      /\ thread.at = "parse" => reading.number \in overtaken'
      /\ overtaken \subseteq overtaken'
  BY <1>1 DEF Underway, Encrypting, Switching
<1>6. ASSUME NEW m \in Connections, m # n PROVE server'[m].state = "none"
  BY <1>1, <1>6 DEF NoServer
<1>7. reading'.number \in 0..connections' /\ reading'.number # n
  <2>1. \A i \in 0..connections : i \in 0..n /\ i # n
    BY <1>2
  <2>2. QED
    BY <1>1, <1>2, <2>1
<1>8. Parsable'
  BY <1>1, <1>4, <1>5 DEF Parsable
<1>9. n # 0
  BY <1>2
<1>10. ASSUME n \notin overtaken'
       PROVE  LastAgreed'
  <2>1. thread'.at \notin Switching \cup {"parse", "react"}
    BY <1>4, <1>5, <1>10 DEF Switching
  <2> DEFINE s == server'[n]
  <2>2. s = [NoServer EXCEPT !.state = "hello", !.asked = s.asked]
    BY <1>1 DEF NoServer
  <2>3. /\ toServer'[n] = <<>> /\ toClient'[n] = <<>>
        /\ socket'.encrypted = FALSE /\ file'.encrypted = FALSE
        /\ socket'.number # 0
    BY <1>1, <1>9
  <2>4. PICK at : at = At'
    OBVIOUS
  <2>5. at \notin Switching /\ Incoming' = <<>>
    BY <1>1, <2>1, <2>3, <2>4 DEF At, Incoming, Switching
  <2> HIDE DEF s
  <2>6. Open(s, <<>>, <<>>, <<"HandShake", "LoginStart">>, at, FALSE,
             FALSE, FALSE, "login")
    BY <2>2, <2>5, OpensAtFirst
  <2>7. OpenNow'
    BY <1>1, <2>3, <2>4, <2>5, <2>6 DEF OpenNow, s
  <2>8. Unopened'
    <3>1. s.state = "hello"
      BY <2>2 DEF NoServer
    <3>2. DOMAIN toClient'[n] = {}
      <4>1. DOMAIN <<>> = {}
        OBVIOUS
      <4>2. QED
        BY <2>3, <4>1
    <3>3. QED
      BY <1>1, <2>1, <2>3, <3>1, <3>2 DEF Unopened, s
  <2>9. Attends'
    BY <1>1, <1>7, <2>1 DEF Attends
  <2>10. QED
    BY <2>3, <2>7, <2>8, <2>9 DEF LastAgreed
<1>11. NothingGarbled'
  BY <1>1, <1>5 DEF Agreed, NothingGarbled
<1>12. socket'.number = file'.number
  BY <1>1
<1>13. QED
  BY <1>1, <1>3, <1>4, <1>6, <1>7, <1>8, <1>10, <1>11, <1>12 DEF Agreed
-----------------------------------------------------------------------------
(* The encryption is switched on.                                           *)

\* A thread that switches it on for a connection that is not overtaken has no
\* successor waiting.
LEMMA EncryptingFacts ==
  ASSUME SessionInv, Agreed, thread.at \in Switching
  PROVE  /\ At = thread.at
         /\ connections # 0 /\ connections \notin overtaken =>
              /\ thread.next # "waiting"
              /\ Incoming = toClient[connections]
              /\ socket.number # 0 => OpenNow
              /\ socket.number = 0 => ShutNow
BY DEF At, Switching, Agreed, LastAgreed, Unopened, Incoming

LEMMA JoinAgreed ==
  ASSUME SessionInv, Agreed, Join
  PROVE  Agreed'
<1>1. /\ thread.at = "join" /\ thread.at \in Switching
      /\ UNCHANGED <<connections, compression, reactor, queue, server, toServer,
                     toClient, garbled, overtaken>>
  BY DEF Join, Switching
<1>2. CASE Fails
  BY <1>1, <1>2, FailsAgreed
<1>3. CASE /\ thread' = [thread EXCEPT !.at = "respond"]
           /\ UNCHANGED <<reading, socket, file>>
  <2>1. /\ thread'.at = "respond" /\ thread'.next = thread.next
        /\ thread'.interrupt = thread.interrupt
    BY <1>3, NowFacts DEF Thread
  <2>2. /\ ModesType' /\ socket'.number = file'.number
        /\ thread'.next # "none" => thread'.interrupt
    BY <1>1, <1>3, <2>1 DEF Agreed, ModesType
  <2>3. /\ reading'.number \in 0..connections
        /\ Parsable'
        /\ connections # 0 /\ connections \notin overtaken' => Attends'
    BY <1>1, <1>3, <2>1, AttendsOn
  <2>4. ASSUME connections # 0, connections \notin overtaken
        PROVE  LastAgreed'
    <3>1. /\ thread.next # "waiting" /\ Incoming = toClient[connections]
          /\ At = "join"
          /\ socket.number # 0 => OpenNow
          /\ socket.number = 0 => ShutNow
      BY <1>1, <2>4, EncryptingFacts
    <3>2. OpenNow =>
            Open(server[connections], toServer[connections], Incoming, queue,
                 "respond", socket.encrypted, file.encrypted, compression,
                 reactor)
      BY <3>1, OpenJoins DEF OpenNow
    <3>3. At' = "respond" /\ Incoming' = Incoming
      BY <1>1, <2>1, <3>1 DEF At, Incoming
    <3>4. (socket'.number # 0 => OpenNow') /\ (socket'.number = 0 => ShutNow')
      BY <1>1, <1>3, <3>1, <3>2, <3>3 DEF OpenNow, ShutNow
    <3>5. QED
      BY <1>1, <2>1, <2>3, <2>4, <3>1, <3>4 DEF LastAgreed
  <2>5. QED
    BY <1>1, <1>3, <2>2, <2>3, <2>4, AgreedCarries
<1>4. QED
  BY <1>2, <1>3 DEF Join

\* The answer is written, still under the old modes.
LEMMA RespondAgreed ==
  ASSUME SessionInv, Agreed, Respond
  PROVE  Agreed'
<1>1. /\ thread.at = "respond" /\ thread.at \in Switching
      /\ UNCHANGED <<connections, compression, reactor, queue, server,
                     toClient, garbled, overtaken>>
  BY DEF Respond, Switching
<1>2. CASE socket.number = 0
  BY <1>1, <1>2, FailsAgreed DEF Respond
<1>3. CASE socket.number # 0
  <2>1. /\ Written(<<"EncryptionResponse">>)
        /\ thread' = [thread EXCEPT !.at = "wrapSocket"]
        /\ UNCHANGED <<reading, socket, file>>
    BY <1>3 DEF Respond
  <2>2. /\ thread'.at = "wrapSocket" /\ thread'.next = thread.next
        /\ thread'.interrupt = thread.interrupt
    BY <2>1, NowFacts DEF Thread
  <2>3. "EncryptionResponse" \in ClientPackets
    BY DEF ClientPackets
  <2>4. /\ toServer' \in [Connections -> Seq(Letter)]
        /\ toServer'[connections] = Append(toServer[connections],
             [name |-> "EncryptionResponse", encrypted |-> socket.encrypted,
              compressed |-> compression])
    BY <1>3, <2>1, <2>3, WrittenOne
  <2>5. /\ ModesType' /\ socket'.number = file'.number
        /\ thread'.next # "none" => thread'.interrupt
    BY <1>1, <2>1, <2>2, <2>4 DEF Agreed, ModesType
  <2>6. /\ reading'.number \in 0..connections
        /\ Parsable'
        /\ connections # 0 /\ connections \notin overtaken' => Attends'
    BY <1>1, <2>1, <2>2, AttendsOn
  <2>7. ASSUME connections # 0, connections \notin overtaken
        PROVE  LastAgreed'
    <3>1. /\ thread.next # "waiting" /\ Incoming = toClient[connections]
          /\ At = "respond" /\ OpenNow
      BY <1>1, <1>3, <2>7, EncryptingFacts
    <3> DEFINE l == [name |-> "EncryptionResponse",
                     encrypted |-> socket.encrypted,
                     compressed |-> compression]
    <3>2. ViewType(server[connections], toServer[connections], Incoming, queue,
                   "respond", socket.encrypted, file.encrypted, compression,
                   reactor)
      BY <2>7, <3>1, NowFacts
    <3>3. Open(server[connections], Append(toServer[connections], l), Incoming,
               queue, "wrapSocket", socket.encrypted, file.encrypted,
               compression, reactor)
      BY <3>1, <3>2, OpenResponds DEF OpenNow
    <3>4. At' = "wrapSocket" /\ Incoming' = Incoming
      BY <1>1, <2>2, <3>1 DEF At, Incoming
    <3>5. OpenNow'
      BY <1>1, <2>1, <2>4, <3>3, <3>4 DEF OpenNow
    <3>6. QED
      BY <1>1, <1>3, <2>1, <2>2, <2>6, <2>7, <3>1, <3>5 DEF LastAgreed
  <2>8. QED
    BY <1>1, <1>3, <2>1, <2>5, <2>6, <2>7, AgreedCarries
<1>4. QED
  BY <1>2, <1>3

\* The thread writes and reads nothing until the file is wrapped as well.
LEMMA WrapSocketAgreed ==
  ASSUME SessionInv, Agreed, WrapSocket
  PROVE  Agreed'
<1>1. /\ thread.at = "wrapSocket" /\ thread.at \in Switching
      /\ socket' = [socket EXCEPT !.encrypted = TRUE]
      /\ thread' = [thread EXCEPT !.at = "wrapFile"]
      /\ UNCHANGED <<connections, file, compression, reactor, queue, reading,
                     server, toServer, toClient, garbled, overtaken>>
  BY DEF WrapSocket, Switching
<1>2. /\ thread'.at = "wrapFile" /\ thread'.next = thread.next
      /\ thread'.interrupt = thread.interrupt
      /\ socket'.number = socket.number /\ socket'.encrypted = TRUE
  BY <1>1, NowFacts DEF Thread, Stream
<1>3. /\ ModesType' /\ socket'.number = file'.number
      /\ thread'.next # "none" => thread'.interrupt
  BY <1>1, <1>2 DEF Agreed, ModesType
<1>4. /\ reading'.number \in 0..connections
      /\ Parsable'
      /\ connections # 0 /\ connections \notin overtaken' => Attends'
  BY <1>1, <1>2, AttendsOn
<1>5. ASSUME connections # 0, connections \notin overtaken
      PROVE  LastAgreed'
  <2>1. /\ thread.next # "waiting" /\ Incoming = toClient[connections]
        /\ At = "wrapSocket"
        /\ socket.number # 0 => OpenNow
        /\ socket.number = 0 => ShutNow
    BY <1>1, <1>5, EncryptingFacts
  <2>2. OpenNow =>
          Open(server[connections], toServer[connections], Incoming, queue,
               "wrapFile", TRUE, file.encrypted, compression, reactor)
    BY <2>1, OpenWrapsSocket DEF OpenNow
  <2>3. At' = "wrapFile" /\ Incoming' = Incoming
    BY <1>1, <1>2, <2>1 DEF At, Incoming
  <2>4. (socket'.number # 0 => OpenNow') /\ (socket'.number = 0 => ShutNow')
    BY <1>1, <1>2, <2>1, <2>2, <2>3 DEF OpenNow, ShutNow
  <2>5. QED
    BY <1>1, <1>2, <1>4, <1>5, <2>1, <2>4 DEF LastAgreed
<1>6. QED
  BY <1>1, <1>3, <1>4, <1>5, AgreedCarries

\* Both streams are encrypted again alike.
LEMMA WrapFileAgreed ==
  ASSUME SessionInv, Agreed, WrapFile
  PROVE  Agreed'
<1>1. /\ thread.at = "wrapFile" /\ thread.at \in Switching
      /\ file' = [file EXCEPT !.encrypted = TRUE]
      /\ thread' = [thread EXCEPT !.at = "setFlag"]
      /\ UNCHANGED <<connections, socket, compression, reactor, queue, reading,
                     server, toServer, toClient, garbled, overtaken>>
  BY DEF WrapFile, Switching
<1>2. /\ thread'.at = "setFlag" /\ thread'.next = thread.next
      /\ thread'.interrupt = thread.interrupt
      /\ file'.number = file.number /\ file'.encrypted = TRUE
  BY <1>1, NowFacts DEF Thread, Stream
<1>3. /\ ModesType' /\ socket'.number = file'.number
      /\ thread'.next # "none" => thread'.interrupt
  BY <1>1, <1>2 DEF Agreed, ModesType
<1>4. /\ reading'.number \in 0..connections
      /\ Parsable'
      /\ connections # 0 /\ connections \notin overtaken' => Attends'
  BY <1>1, <1>2, AttendsOn
<1>5. ASSUME connections # 0, connections \notin overtaken
      PROVE  LastAgreed'
  <2>1. /\ thread.next # "waiting" /\ Incoming = toClient[connections]
        /\ At = "wrapFile"
        /\ socket.number # 0 => OpenNow
        /\ socket.number = 0 => ShutNow
    BY <1>1, <1>5, EncryptingFacts
  <2>2. OpenNow =>
          Open(server[connections], toServer[connections], Incoming, queue,
               "setFlag", socket.encrypted, TRUE, compression, reactor)
    BY <2>1, OpenWrapsFile DEF OpenNow
  <2>3. At' = "setFlag" /\ Incoming' = Incoming
    BY <1>1, <1>2, <2>1 DEF At, Incoming
  <2>4. (socket'.number # 0 => OpenNow') /\ (socket'.number = 0 => ShutNow')
    BY <1>1, <1>2, <2>1, <2>2, <2>3 DEF OpenNow, ShutNow
  <2>5. QED
    BY <1>1, <1>2, <1>4, <1>5, <2>1, <2>4 DEF LastAgreed
<1>6. QED
  BY <1>1, <1>3, <1>4, <1>5, AgreedCarries

\* The steps of the thread that leave the streams alone and have no packet in
\* their hands, or end it.
LEMMA TurnsAgreed ==
  ASSUME SessionInv, Agreed,
         \/ TakesOver \/ Exits \/ SetFlag \/ BeginsRead \/ TimesOut
         \/ ReadsPart \/ ReadsEnd \/ SpinEnds \/ StreamCloses
  PROVE  Agreed'
<1> DEFINE Idles == {"loop", "ended", "setFlag", "spin", "bind"}
<1>1. thread \in Thread /\ (thread.next # "none" => thread.interrupt)
  BY NowFacts DEF Agreed
<1>2. Idles \cap (Switching \cup {"select", "parse", "react"}) = {}
  BY DEF Switching
<1>3. ASSUME thread.at \in Idles \cup {"select"}, thread'.at \in Idles,
             thread'.next # "none" => thread'.interrupt,
             thread'.next \in {thread.next, "none"},
             reading' \in {reading, Nothing},
             UNCHANGED <<connections, socket, file, compression, reactor, queue,
                         server, toServer, toClient, garbled, overtaken>>
      PROVE  Agreed'
  <2>1. /\ reading'.number \in 0..connections
        /\ Parsable'
        /\ connections # 0 /\ connections \notin overtaken' => Attends'
    BY <1>2, <1>3, AttendsOn
  <2>2. /\ thread.at \notin Switching \cup {"parse", "react"}
        /\ thread'.at \notin Switching \cup {"parse", "react"}
        /\ At' \notin Switching /\ Incoming' = Incoming
    BY <1>2, <1>3 DEF At, Incoming, Switching
  <2>3. ASSUME connections # 0, connections \notin overtaken
        PROVE  thread'.next = "waiting" => Unopened'
    <3>1. thread.next = "waiting" => Unopened
      BY <2>3 DEF Agreed, LastAgreed
    <3>2. QED
      BY <1>3, <2>2, <3>1 DEF Unopened
  <2>4. QED
    BY <1>3, <2>1, <2>2, <2>3, MovesAgreed
<1>4. CASE TakesOver
  <2>1. /\ thread'.at = "loop" /\ thread'.next = "none"
        /\ thread.at \in {"ended", "loop"} /\ UNCHANGED reading
    BY <1>4 DEF TakesOver
  <2>2. QED
    BY <1>3, <1>4, <2>1 DEF TakesOver
<1>5. CASE Exits
  BY <1>1, <1>3, <1>5 DEF Exits, Thread
<1>6. CASE SetFlag
  BY <1>1, <1>3, <1>6 DEF SetFlag, Thread
<1>7. CASE BeginsRead
  BY <1>1, <1>3, <1>7 DEF BeginsRead, Thread
<1>8. CASE TimesOut
  BY <1>1, <1>3, <1>8 DEF TimesOut, Turns, Thread
<1>9. CASE ReadsPart
  BY <1>1, <1>3, <1>9 DEF ReadsPart, Arrived, Thread
<1>10. CASE ReadsEnd \/ SpinEnds \/ StreamCloses
  BY <1>10, FailsAgreed DEF ReadsEnd, SpinEnds, StreamCloses
<1>11. QED
  BY <1>4, <1>5, <1>6, <1>7, <1>8, <1>9, <1>10

\* The thread takes the stream and the reactor that there are.
LEMMA BindsAgreed ==
  ASSUME SessionInv, Agreed, BindsStream
  PROVE  Agreed'
<1>1. /\ thread.at = "bind"
      /\ UNCHANGED <<connections, compression, reactor, queue, server, toServer,
                     toClient, garbled, overtaken>>
  BY DEF BindsStream
<1>2. CASE file.number = 0
  BY <1>1, <1>2, FailsAgreed DEF BindsStream
<1>3. CASE file.number # 0
  <2>1. /\ reading' = [Nothing EXCEPT !.reactor = reactor,
                                      !.number = file.number]
        /\ thread' = [thread EXCEPT !.at = "select"]
        /\ UNCHANGED <<socket, file>>
    BY <1>3 DEF BindsStream
  <2>2. reading'.reactor = reactor /\ reading'.number = file.number
    BY <2>1 DEF Nothing
  <2>3. /\ thread'.at = "select" /\ thread'.next = thread.next
        /\ thread'.interrupt = thread.interrupt
    BY <2>1, NowFacts DEF Thread
  <2>4. reading'.number \in 0..connections
    BY <2>2, NowFacts
  <2>5. /\ Parsable' /\ Attends'
        /\ thread'.next # "none" => thread'.interrupt
    BY <1>1, <2>2, <2>3 DEF Parsable, Attends, Agreed
  <2>6. /\ thread.at \notin Switching /\ At' \notin Switching
        /\ thread'.at \notin Switching \cup {"parse", "react"}
        /\ Incoming' = Incoming
    BY <1>1, <2>3 DEF At, Incoming, Switching
  <2>7. ASSUME connections # 0, connections \notin overtaken
        PROVE  thread'.next = "waiting" => Unopened'
    <3>1. thread.next = "waiting" => Unopened
      BY <2>7 DEF Agreed, LastAgreed
    <3>2. QED
      BY <1>1, <2>3, <2>6, <3>1 DEF Unopened
  <2>8. QED
    BY <1>1, <2>1, <2>4, <2>5, <2>6, <2>7, MovesAgreed
<1>4. QED
  BY <1>2, <1>3
-----------------------------------------------------------------------------
(* The client reads.                                                        *)

\* The first packet has the modes of now.
LEMMA HeadReadable ==
  ASSUME NEW tc \in Seq(Message), tc # <<>>, NEW fe, NEW k,
         Readable(tc, "loop", fe, k), Head(tc).name \notin Ends
  PROVE  /\ Head(tc).encrypted <=> fe
         /\ Head(tc).compressed <=> k
<1>1. 1 \in DOMAIN tc /\ Head(tc) = tc[1]
  OBVIOUS
<1>2. ~Compresses(tc, 1 - 1)
  BY DEF Compresses
<1>3. Ciphered("loop", fe) <=> fe
  BY DEF Ciphered
<1>4. /\ tc[1].encrypted <=> Ciphered("loop", fe)
      /\ tc[1].compressed <=> k \/ Compresses(tc, 1 - 1)
  BY <1>1 DEF Readable
<1>5. QED
  BY <1>1, <1>2, <1>3, <1>4

\* A thread that has a packet to read from the last connection.
LEMMA ArrivedFacts ==
  ASSUME SessionInv, Agreed, Arrived
  PROVE  /\ connections # 0 /\ connections \in Connections
         /\ file.number = connections /\ reading.number = connections
         /\ socket.number = connections
         /\ toClient[connections] \in Seq(Message)
         /\ toClient[connections] # <<>>
         /\ First = Head(toClient[connections]) /\ First \in Message
         /\ At = "loop" /\ Incoming = toClient[connections]
         /\ connections \notin overtaken =>
              Readable(toClient[connections], "loop", file.encrypted,
                       compression)
<1>1. thread.at = "select" /\ reading.number = file.number
      /\ toClient[file.number] # <<>>
  BY DEF Arrived
<1>2. reading.number # 0
  BY <1>1 DEF SessionInv, StreamsType
<1>3. /\ file.number = connections /\ socket.number = connections
      /\ connections # 0 /\ connections \in Connections
      /\ toClient[connections] \in Seq(Message)
  BY <1>1, <1>2, NowFacts
<1>4. First = Head(toClient[connections]) /\ First \in Message
  BY <1>1, <1>3 DEF First
<1>5. At = "loop" /\ Incoming = toClient[connections]
  BY <1>1 DEF At, Incoming
<1>6. connections \notin overtaken =>
        Readable(toClient[connections], "loop", file.encrypted, compression)
  BY <1>3, <1>5 DEF Agreed, LastAgreed, OpenNow, Open
<1>7. QED
  BY <1>1, <1>3, <1>4, <1>5, <1>6

\* It has read the bytes of a packet.
LEMMA BytesAgreed ==
  ASSUME SessionInv, Agreed, ReadsBytes
  PROVE  Agreed'
<1> DEFINE n == connections
<1>1. /\ Arrived /\ First.name \notin Ends
      /\ toClient' = [toClient EXCEPT ![file.number] =
                        Tail(toClient[file.number])]
      /\ reading' = [reading EXCEPT !.packet = First]
      /\ thread' = [thread EXCEPT !.at = "parse"]
      /\ thread.at = "select"
      /\ UNCHANGED <<connections, socket, file, compression, reactor, queue,
                     server, toServer, garbled, overtaken>>
  BY DEF ReadsBytes, Arrived
<1>2. /\ n # 0 /\ n \in Connections
      /\ file.number = n /\ reading.number = n /\ socket.number = n
      /\ toClient[n] \in Seq(Message) /\ toClient[n] # <<>>
      /\ First = Head(toClient[n]) /\ First \in Message
      /\ At = "loop" /\ Incoming = toClient[n]
      /\ n \notin overtaken =>
           Readable(toClient[n], "loop", file.encrypted, compression)
  BY <1>1, ArrivedFacts
<1>3. /\ thread'.at = "parse" /\ thread'.next = thread.next
      /\ thread'.interrupt = thread.interrupt
      /\ reading'.number = n /\ reading'.packet = First
      /\ reading'.reactor = reading.reactor
  BY <1>1, <1>2, NowFacts DEF Thread, SessionInv, StreamsType, Reading
<1>4. toClient'[n] = Tail(toClient[n])
  BY <1>1, <1>2 DEF SessionInv, ChannelType
<1>5. Parsable'
  <2>1. SUFFICES ASSUME n \notin overtaken
                 PROVE  First.compressed <=> compression
    BY <1>1, <1>3 DEF Parsable
  <2>2. QED
    BY <1>1, <1>2, <2>1, HeadReadable
<1>6. Incoming' = Incoming
  <2>1. <<Head(toClient[n])>> \o Tail(toClient[n]) = toClient[n]
    <3> DEFINE s == toClient[n]
    <3>1. s \in Seq(Message) /\ s # <<>>
      BY <1>2
    <3> HIDE DEF s
    <3>2. <<Head(s)>> \o Tail(s) = s
      BY <3>1
    <3>3. QED
      BY <3>2 DEF s
  <2>2. QED
    BY <1>1, <1>2, <1>3, <1>4, <2>1 DEF Incoming
<1>7. thread.at \notin Switching /\ At' \notin Switching
  BY <1>1, <1>3 DEF At, Switching
<1>8. reading'.number \in 0..n /\ (thread'.next # "none" => thread'.interrupt)
  BY <1>2, <1>3 DEF Agreed
<1>9. ASSUME n \notin overtaken
      PROVE  Attends' /\ thread'.next # "waiting"
  <2>1. Attends /\ (thread.next = "waiting" => Unopened)
    BY <1>2, <1>9 DEF Agreed, LastAgreed
  <2>2. reading.reactor = reactor
    BY <1>1, <1>2, <2>1 DEF Attends
  <2>3. Unopened => FALSE
    BY <1>1, <1>2 DEF Unopened
  <2>4. QED
    BY <1>1, <1>3, <2>1, <2>2, <2>3 DEF Attends
<1>10. QED
  BY <1>1, <1>5, <1>6, <1>7, <1>8, <1>9, MovesAgreed

\* It has parsed it.
LEMMA ParsesAgreed ==
  ASSUME SessionInv, Agreed, Parses
  PROVE  Agreed'
<1>1. /\ thread.at = "parse" /\ thread' = [thread EXCEPT !.at = "react"]
      /\ UNCHANGED <<connections, socket, file, compression, reactor, queue,
                     reading, server, toServer, toClient, garbled, overtaken>>
  BY DEF Parses
<1>2. /\ thread'.at = "react" /\ thread'.next = thread.next
      /\ thread'.interrupt = thread.interrupt
  BY <1>1, NowFacts DEF Thread
<1>3. /\ thread.at \notin Switching /\ At' \notin Switching
      /\ Incoming' = Incoming /\ Parsable'
  BY <1>1, <1>2 DEF At, Incoming, Parsable, Switching
<1>4. /\ reading'.number \in 0..connections
      /\ thread'.next # "none" => thread'.interrupt
  BY <1>1, <1>2 DEF Agreed
<1>5. ASSUME connections # 0, connections \notin overtaken
      PROVE  Attends' /\ thread'.next # "waiting"
  <2>1. Attends /\ (thread.next = "waiting" => Unopened)
    BY <1>5 DEF Agreed, LastAgreed
  <2>2. QED
    BY <1>1, <1>2, <2>1 DEF Attends, Unopened
<1>6. QED
  BY <1>1, <1>3, <1>4, <1>5, MovesAgreed

\* Only on a connection that is overtaken does the client read garbage.
LEMMA GarbageAgreed ==
  ASSUME SessionInv, Agreed, ReadsGarbage
  PROVE  Agreed'
<1>1. /\ Arrived /\ First.name \notin Ends /\ First.encrypted # file.encrypted
      /\ garbled' = garbled \cup {file.number}
      /\ Fails
      /\ UNCHANGED <<connections, compression, reactor, queue, server, toServer,
                     toClient, overtaken>>
  BY DEF ReadsGarbage
<1>2. connections \in overtaken
  <2>1. SUFFICES ASSUME connections \notin overtaken PROVE FALSE
    OBVIOUS
  <2>2. First.encrypted <=> file.encrypted
    BY <1>1, <2>1, ArrivedFacts, HeadReadable
  <2>3. First.encrypted \in BOOLEAN /\ file.encrypted \in BOOLEAN
    BY <1>1, ArrivedFacts, NowFacts DEF Message, Stream
  <2>4. QED
    BY <1>1, <2>2, <2>3
<1>3. garbled' \subseteq garbled \cup overtaken
  BY <1>1, <1>2, ArrivedFacts
<1>4. QED
  BY <1>1, <1>3, FailsAgreed

\* The same of a packet in the other format.
LEMMA ParsesGarbageAgreed ==
  ASSUME SessionInv, Agreed, ParsesGarbage
  PROVE  Agreed'
<1>1. /\ thread.at = "parse" /\ reading.packet.compressed # compression
      /\ garbled' = garbled \cup {reading.number}
      /\ Fails \/ (Turns /\ UNCHANGED <<socket, file>>)
      /\ UNCHANGED <<connections, compression, reactor, queue, server, toServer,
                     toClient, overtaken>>
  BY DEF ParsesGarbage
<1>2. reading.packet.compressed \in BOOLEAN /\ compression \in BOOLEAN
  BY NowFacts DEF Message, Agreed, ModesType
<1>3. reading.number \in overtaken
  BY <1>1, <1>2 DEF Agreed, Parsable
<1>4. garbled' \subseteq garbled \cup overtaken
  BY <1>1, <1>3
<1>5. CASE Fails
  BY <1>1, <1>4, <1>5, FailsAgreed
<1>6. CASE Turns /\ UNCHANGED <<socket, file>>
  <2>1. /\ thread'.at = "loop" /\ thread'.next = thread.next
        /\ thread'.interrupt = thread.interrupt /\ reading' = Nothing
    BY <1>6, NowFacts DEF Turns, Thread
  <2>2. reading'.number \in 0..connections /\ Parsable'
    BY <1>1, <2>1, AttendsOn
  <2>3. connections # 0 => connections \in overtaken
    BY <1>1, <1>3 DEF Agreed, LastAgreed, Attends
  <2>4. /\ ModesType' /\ socket'.number = file'.number
        /\ thread'.next # "none" => thread'.interrupt
    BY <1>1, <1>6, <2>1 DEF Agreed, ModesType
  <2>5. QED
    BY <1>1, <1>4, <2>2, <2>3, <2>4, AgreedCarries
<1>7. QED
  BY <1>1, <1>5, <1>6
-----------------------------------------------------------------------------
(* The client reacts.                                                       *)

\* A reaction that leaves the stream open, by what is under way after it.
LEMMA ReactionAgreed ==
  ASSUME SessionInv, Agreed, thread.at = "react", reading' = Nothing,
         UNCHANGED <<connections, socket, file, server, toServer, toClient,
                     garbled, overtaken>>,
         compression' \in BOOLEAN, reactor' \in Reactors,
         thread'.at \in {"loop", "join"}, thread'.next = thread.next,
         thread'.interrupt = thread.interrupt,
         connections # 0 /\ connections \notin overtaken /\ OpenNow =>
           /\ compression' <=>
                compression \/ reading.packet.name = "SetCompression"
           /\ thread'.at = "join" => reading.packet.name = "EncryptionRequest"
           /\ \/ reactor' = reactor \/ reactor # "login"
              \/ reading.packet.name = "LoginSuccess"
           /\ ~Gone(server[connections]) => \A e :
                Stage(server[connections], toServer[connections], Incoming,
                      queue, "loop", e, reactor) =>
                Stage(server[connections], toServer[connections],
                      toClient[connections], queue', thread'.at, e, reactor')
  PROVE  Agreed'
<1> DEFINE n == connections
           s == server[n]
           ts == toServer[n]
           e == Ciphered("loop", file.encrypted)
<1>1. ModesType' /\ socket'.number = file'.number
  BY DEF Agreed, ModesType
<1>2. /\ reading'.number \in 0..connections
      /\ Parsable'
      /\ connections # 0 /\ connections \notin overtaken' => Attends'
  BY AttendsOn
<1>3. thread'.next # "none" => thread'.interrupt
  BY DEF Agreed
<1>4. ASSUME n # 0, n \notin overtaken
      PROVE  LastAgreed'
  <2>1. /\ thread.next = "waiting" => Unopened
        /\ socket.number # 0 => OpenNow
        /\ socket.number = 0 => ShutNow
    BY <1>4 DEF Agreed, LastAgreed
  <2>2. thread'.next # "waiting"
    BY <2>1 DEF Unopened
  <2>3. socket'.number = 0 => ShutNow'
    BY <2>1 DEF ShutNow
  <2>4. ASSUME OpenNow PROVE OpenNow'
    <3>1. /\ compression' <=>
               compression \/ reading.packet.name = "SetCompression"
          /\ thread'.at = "join" => reading.packet.name = "EncryptionRequest"
          /\ \/ reactor' = reactor \/ reactor # "login"
             \/ reading.packet.name = "LoginSuccess"
      BY <1>4, <2>4
    <3>2. /\ At = "loop" /\ Incoming # <<>>
          /\ Head(Incoming) = reading.packet
          /\ Tail(Incoming) = toClient[n]
      BY <1>4, HeldFacts
    <3>3. Open(s, ts, Incoming, queue, "loop", socket.encrypted,
               file.encrypted, compression, reactor)
      BY <2>4, <3>2 DEF OpenNow
    <3>4. ViewType(s, ts, Incoming, queue, "loop", socket.encrypted,
                   file.encrypted, compression, reactor)
      BY <1>4, <3>2, NowFacts
    <3>5. ASSUME ~Gone(s)
          PROVE  Stage(s, ts, Tail(Incoming), queue', thread'.at, e, reactor')
      <4>1. Stage(s, ts, Incoming, queue, "loop", e, reactor)
        BY <3>3, <3>5 DEF Open
      <4>2. QED
        BY <1>4, <2>4, <3>2, <3>5, <4>1
    <3>6. PICK at, q, k, r : at = thread'.at /\ q = queue' /\ k = compression'
                             /\ r = reactor'
      OBVIOUS
    <3> HIDE DEF s, ts
    <3>7. Open(s, ts, Tail(Incoming), q, at, socket.encrypted, file.encrypted,
               k, r)
      BY <3>1, <3>2, <3>3, <3>4, <3>5, <3>6, OpenReads
    <3>8. At' = thread'.at /\ Incoming' = Tail(Incoming)
      BY <3>2 DEF At, Incoming
    <3>9. QED
      BY <3>6, <3>7, <3>8 DEF OpenNow, s, ts
  <2>5. socket'.number # 0 => OpenNow'
    BY <2>1, <2>4
  <2>6. QED
    BY <1>2, <1>4, <2>2, <2>3, <2>5 DEF LastAgreed
<1>5. QED
  BY <1>1, <1>2, <1>3, <1>4, AgreedCarries

\* What is under way after a reaction.
LEMMA HeldStages ==
  ASSUME SessionInv, Agreed, thread.at = "react", connections # 0,
         ~Gone(server[connections]), NEW e,
         Stage(server[connections], toServer[connections], Incoming, queue,
               "loop", e, reactor)
  PROVE  LET name == reading.packet.name
             Then(r, at, g) == Stage(server[connections], toServer[connections],
                                     toClient[connections], r, at, e, g)
         IN  /\ name = "EncryptionRequest" => Then(queue, "join", reactor)
             /\ name = "SetCompression" => Then(queue, "loop", reactor)
             /\ name = "PluginRequest" =>
                  Then(Append(queue, "PluginResponse"), "loop", reactor)
             /\ name = "LoginSuccess" \/ reactor # "login" =>
                  \A r, g : g # "login" => Then(r, "loop", g)
             /\ reactor = "login" => name \in LoginNames
<1> DEFINE s == server[connections]
           ts == toServer[connections]
<1>1. /\ Incoming # <<>> /\ Head(Incoming) = reading.packet
      /\ Tail(Incoming) = toClient[connections]
  BY HeldFacts
<1>2. /\ s \in Server /\ ts \in Seq(Letter) /\ Incoming \in Seq(Message)
      /\ queue \in Seq(ClientPackets)
  BY NowFacts DEF ViewType
<1>3. ~Gone(s) /\ Stage(s, ts, Incoming, queue, "loop", e, reactor)
  OBVIOUS
<1> HIDE DEF s, ts
<1>4. LET name == Head(Incoming).name IN
         /\ name = "EncryptionRequest" =>
              Stage(s, ts, Tail(Incoming), queue, "join", e, reactor)
         /\ name = "SetCompression" =>
              Stage(s, ts, Tail(Incoming), queue, "loop", e, reactor)
         /\ name = "PluginRequest" =>
              Stage(s, ts, Tail(Incoming), Append(queue, "PluginResponse"),
                    "loop", e, reactor)
         /\ name = "LoginSuccess" =>
              \A r, g : g # "login" =>
                Stage(s, ts, Tail(Incoming), r, "loop", e, g)
         /\ reactor # "login" =>
              \A r, g : g # "login" =>
                Stage(s, ts, Tail(Incoming), r, "loop", e, g)
         /\ reactor = "login" => name \in LoginNames
  BY <1>1, <1>2, <1>3, StageReads
<1>5. QED
  BY <1>1, <1>4 DEF s, ts

\* Of a connection that is not overtaken it is the reactor of now that decides.
LEMMA DecidesNow ==
  ASSUME Agreed, thread.at = "react", connections # 0,
         connections \notin overtaken
  PROVE  Deciding = {reactor}
BY DEF Agreed, LastAgreed, Attends, Deciding

\* The reactions that leave the connection open.
LEMMA ReactionsAgreed ==
  ASSUME SessionInv, Agreed, React, ~ReactDisconnect
  PROVE  Agreed'
<1> DEFINE n == connections
           name == reading.packet.name
           Last == n # 0 /\ n \notin overtaken /\ OpenNow
           Before(e) == Stage(server[n], toServer[n], Incoming, queue, "loop",
                              e, reactor)
           Then(r, at, e, g) ==
             Stage(server[n], toServer[n], toClient[n], r, at, e, g)
<1>1. /\ thread.at = "react" /\ thread \in Thread
      /\ compression \in BOOLEAN /\ reactor \in Reactors
  BY NowFacts
  DEF React, ReactEncryptionRequest, ReactSetCompression, ReactPluginRequest,
      ReactLoginSuccess, ReactFinishConfiguration, ReactJoinGame, ReactsNot,
      Reacts, Agreed, ModesType
<1>2. ASSUME NEW e, Before(e), ~Gone(server[n]), n # 0
      PROVE  /\ name = "EncryptionRequest" => Then(queue, "join", e, reactor)
             /\ name = "SetCompression" => Then(queue, "loop", e, reactor)
             /\ name = "PluginRequest" =>
                  Then(Append(queue, "PluginResponse"), "loop", e, reactor)
             /\ name = "LoginSuccess" \/ reactor # "login" =>
                  \A r, g : g # "login" => Then(r, "loop", e, g)
             /\ reactor = "login" => name \in LoginNames
  BY <1>1, <1>2, HeldStages
<1>3. Last => Deciding = {reactor}
  BY <1>1, DecidesNow
<1> HIDE DEF Before, Then, Last
\* The ones that turn, by what they do to the modes, the queue and the reactor.
<1>4. ASSUME Turns,
             UNCHANGED <<connections, socket, file, server, toServer, toClient,
                         garbled, overtaken>>,
             compression' \in BOOLEAN, reactor' \in Reactors,
             Last => (compression' <=> compression \/ name = "SetCompression"),
             Last => \/ reactor' = reactor \/ reactor # "login"
                     \/ name = "LoginSuccess",
             Last /\ ~Gone(server[n]) => \A e : Before(e) =>
               Then(queue', "loop", e, reactor')
      PROVE  Agreed'
  <2>1. /\ thread'.at = "loop" /\ thread'.next = thread.next
        /\ thread'.interrupt = thread.interrupt /\ reading' = Nothing
    BY <1>1, <1>4 DEF Turns, Thread
  <2>2. QED
    BY <1>1, <1>4, <2>1, ReactionAgreed DEF Last, Before, Then
<1>5. CASE ReactEncryptionRequest
  <2>1. /\ name = "EncryptionRequest" /\ thread' = [thread EXCEPT !.at = "join"]
        /\ reading' = Nothing
        /\ UNCHANGED <<connections, socket, file, compression, reactor, queue,
                       server, toServer, toClient, garbled, overtaken>>
    BY <1>5 DEF ReactEncryptionRequest, Reacts
  <2>2. /\ thread'.at = "join" /\ thread'.next = thread.next
        /\ thread'.interrupt = thread.interrupt
    BY <1>1, <2>1 DEF Thread
  <2>3. Last /\ ~Gone(server[n]) => \A e : Before(e) =>
          Then(queue', thread'.at, e, reactor')
    BY <1>2, <2>1, <2>2 DEF Last
  <2>4. compression' <=> compression \/ name = "SetCompression"
    BY <2>1
  <2>5. QED
    BY <1>1, <2>1, <2>2, <2>3, <2>4, ReactionAgreed DEF Last, Before, Then
<1>6. CASE ReactSetCompression
  <2>1. /\ name = "SetCompression" /\ Turns /\ compression' = TRUE
        /\ UNCHANGED <<connections, socket, file, reactor, queue, server,
                       toServer, toClient, garbled, overtaken>>
    BY <1>6 DEF ReactSetCompression, Reacts
  <2>2. Last /\ ~Gone(server[n]) => \A e : Before(e) =>
          Then(queue', "loop", e, reactor')
    BY <1>2, <2>1 DEF Last
  <2>3. QED
    BY <1>1, <1>4, <2>1, <2>2
<1>7. ASSUME name \in {"PluginRequest", "LoginSuccess",
                       "FinishConfiguration", "JoinGame"}, Turns,
             UNCHANGED <<connections, socket, file, compression,
                         server, toServer, toClient, garbled, overtaken>>,
             reactor' \in Reactors,
             \/ /\ name = "PluginRequest" /\ reactor' = reactor
                /\ queue' = Append(queue, "PluginResponse")
             \/ /\ Last => name = "LoginSuccess" \/ reactor # "login"
                /\ Last => reactor' # "login"
      PROVE  Agreed'
  <2>1. compression' \in BOOLEAN
        /\ (compression' <=> compression \/ name = "SetCompression")
    BY <1>1, <1>7
  <2>2. Last /\ ~Gone(server[n]) => \A e : Before(e) =>
          Then(queue', "loop", e, reactor')
    BY <1>2, <1>7 DEF Last
  <2>3. Last => \/ reactor' = reactor \/ reactor # "login"
                \/ name = "LoginSuccess"
    BY <1>7
  <2>4. QED
    BY <1>4, <1>7, <2>1, <2>2, <2>3
<1>8. CASE ReactPluginRequest
  BY <1>1, <1>7, <1>8 DEF ReactPluginRequest, Reacts
<1>9. CASE ReactLoginSuccess
  <2>1. reactor' \in {"configuration", "play"}
    BY <1>9 DEF ReactLoginSuccess
  <2>2. reactor' \in Reactors /\ reactor' # "login"
    BY <2>1 DEF Reactors
  <2>3. QED
    BY <1>7, <1>9, <2>2 DEF ReactLoginSuccess, Reacts
<1>10. ASSUME name \in {"FinishConfiguration", "JoinGame"}, Reacts(name)
       PROVE  Last => reactor # "login"
  BY <1>3, <1>10 DEF Reacts, Handled
<1>11. CASE ReactFinishConfiguration
  <2>1. /\ reactor' = "play" /\ reactor' \in Reactors
        /\ name = "FinishConfiguration" /\ Reacts(name)
    BY <1>11 DEF ReactFinishConfiguration, Reactors, Reacts
  <2>2. QED
    BY <1>7, <1>10, <1>11, <2>1 DEF ReactFinishConfiguration
<1>12. CASE ReactJoinGame
  <2>1. UNCHANGED reactor /\ name = "JoinGame" /\ Reacts(name)
    BY <1>12 DEF ReactJoinGame, Reacts
  <2>2. QED
    BY <1>1, <1>7, <1>10, <1>12, <2>1 DEF ReactJoinGame
<1>13. CASE ReactsNot
  <2>1. /\ Turns /\ \E kind \in Deciding : name \notin Handled[kind]
        /\ UNCHANGED <<connections, socket, file, compression, reactor, queue,
                       server, toServer, toClient, garbled, overtaken>>
    BY <1>13 DEF ReactsNot
  <2>2. Last => name \notin Handled[reactor]
    BY <1>3, <2>1
  <2>3. ASSUME Last PROVE name # "SetCompression"
    <3>1. CASE reactor = "configuration"
      <4>1. Ordered(Incoming, reactor) /\ n # 0
        BY <2>3 DEF Last, OpenNow, Open
      <4>2. /\ Incoming \in Seq(Message) /\ Incoming # <<>>
            /\ Head(Incoming) = reading.packet
        BY <1>1, <4>1, HeldFacts, NowFacts DEF ViewType
      <4>3. 1 \in DOMAIN Incoming /\ Incoming[1] = reading.packet
        BY <4>2
      <4>4. QED
        BY <3>1, <4>1, <4>3 DEF Ordered
    <3>2. CASE reactor # "configuration"
      BY <1>1, <2>2, <2>3, <3>2 DEF Handled, Reactors
    <3>3. QED
      BY <3>1, <3>2
  <2>4. ASSUME Last, ~Gone(server[n]), NEW e, Before(e)
        PROVE  Then(queue', "loop", e, reactor')
    <3>1. reactor # "login"
      <4>1. reactor = "login" => name \in LoginNames
        BY <1>2, <2>4 DEF Last
      <4>2. QED
        BY <2>2, <2>4, <4>1 DEF Handled, LoginNames
    <3>2. QED
      BY <1>2, <2>1, <2>4, <3>1 DEF Last
  <2>5. QED
    BY <1>1, <1>4, <2>1, <2>3, <2>4
<1>14. QED
  BY <1>5, <1>6, <1>8, <1>9, <1>11, <1>12, <1>13 DEF React

\* The server disconnects the client.
LEMMA ReactDisconnectAgreed ==
  ASSUME SessionInv, Agreed, ReactDisconnect
  PROVE  Agreed'
<1>1. UNCHANGED <<connections, compression, reactor, server, toClient, garbled>>
  BY DEF ReactDisconnect
<1>2. CASE Fails /\ UNCHANGED <<queue, toServer, overtaken, announced>>
  BY <1>1, <1>2, FailsAgreed
<1>3. CASE /\ Closes /\ reading' = Nothing
           /\ thread' = [Interrupted(thread) EXCEPT !.at = "loop"]
  <2>1. /\ thread'.at = "loop" /\ thread'.next = Interrupted(thread).next
        /\ thread'.interrupt = Interrupted(thread).interrupt
    BY <1>3, NowFacts DEF Interrupted, Thread
  <2>2. QED
    BY <1>1, <1>3, <2>1, FlushesAgreed
<1>4. QED
  BY <1>2, <1>3 DEF ReactDisconnect

-----------------------------------------------------------------------------
(* The server.                                                              *)

\* A server other than the last one is in no state any more.
LEMMA ServerFacts ==
  ASSUME SessionInv, Agreed, NEW n \in Connections, server[n].state # "none"
  PROVE  n = connections /\ connections # 0
  BY DEF Agreed, Connections

\* What it sends.
LEMMA SentFacts ==
  ASSUME SessionInv, NEW n \in Connections, NEW name \in ServerPackets,
         Sends(n, name)
  PROVE  LET m == [name |-> name, encrypted |-> server[n].encrypted,
                   compressed |-> server[n].compressed] IN
         m \in Message /\ toClient'[n] = Append(toClient[n], m)
<1>1. server[n].encrypted \in BOOLEAN /\ server[n].compressed \in BOOLEAN
  BY DEF SessionInv, ServerType, Server
<1>2. [name |-> name, encrypted |-> server[n].encrypted,
       compressed |-> server[n].compressed] \in Message
  BY <1>1 DEF Message
<1>3. toClient \in [Connections -> Seq(Message)]
  BY DEF SessionInv, ChannelType
<1>4. QED
  BY <1>2, <1>3 DEF Sends

\* It comes after all that is under way.
LEMMA IncomingSent ==
  ASSUME SessionInv, Agreed, connections # 0, NEW m \in Message,
         toClient'[connections] = Append(toClient[connections], m),
         UNCHANGED <<connections, thread, reading>>
  PROVE  Incoming' = Append(Incoming, m)
<1>1. reading.packet \in Message /\ toClient[connections] \in Seq(Message)
  BY NowFacts
<1>2. <<reading.packet>> \o Append(toClient[connections], m) =
        Append(<<reading.packet>> \o toClient[connections], m)
  BY <1>1, FrontFacts
<1>3. QED
  BY <1>2 DEF Incoming

\* A step of the server of a connection that the client has not closed.
LEMMA ServerSent ==
  ASSUME SessionInv, Agreed, NEW n \in Connections, n = socket.number,
         NEW t, server' = [server EXCEPT ![n] = t],
         UNCHANGED <<client, toServer, garbled>>,
         n \notin overtaken =>
           /\ Open(t, toServer[n], Incoming', queue, At,
                   socket.encrypted, file.encrypted, compression, reactor)
           /\ thread.next = "waiting" =>
                /\ t.state \in {"hello", "closed"}
                /\ \A i \in DOMAIN toClient'[n] : toClient'[n][i].name \in Ends
  PROVE  Agreed'
<1>1. UNCHANGED <<connections, socket, file, compression, reactor, queue,
                  thread, reading, overtaken, toServer, garbled>>
  BY DEF client
<1>2. n = connections /\ socket.number # 0
  BY NowFacts DEF Connections
<1>3. /\ ModesType' /\ socket'.number = file'.number
      /\ thread'.next # "none" => thread'.interrupt
  BY <1>1 DEF Agreed, ModesType
<1>4. /\ server'[n] = t
      /\ \A m \in Connections : m # connections => server'[m] = server[m]
  BY <1>2 DEF SessionInv, ServerType
<1>5. /\ reading'.number \in 0..connections
      /\ Parsable'
      /\ connections # 0 /\ connections \notin overtaken' => Attends'
  BY <1>1, AttendsOn
<1>6. ASSUME connections # 0, connections \notin overtaken
      PROVE  LastAgreed'
  <2>1. At' = At
    BY <1>1 DEF At
  <2>2. OpenNow'
    BY <1>1, <1>2, <1>4, <1>6, <2>1 DEF OpenNow
  <2>3. ASSUME thread.next = "waiting" PROVE Unopened'
    <3>1. Unopened
      BY <1>6, <2>3 DEF Agreed, LastAgreed
    <3>2. QED
      BY <1>1, <1>2, <1>4, <1>6, <2>3, <3>1 DEF Unopened
  <2>4. QED
    BY <1>1, <1>2, <1>5, <1>6, <2>2, <2>3 DEF LastAgreed
<1>7. QED
  BY <1>1, <1>2, <1>3, <1>4, <1>5, <1>6, AgreedCarries

\* The server s sends the packet called name and goes on as t.
Says(s, name, t) ==
  /\ t.encrypted = s.encrypted
  /\ t.compressed <=> s.compressed \/ name = "SetCompression"
  /\ \/ s.state = "login" /\ name = "PluginRequest" /\ t.state = "awaitPlugin"
     \/ s.state = "login" /\ name = "SetCompression" /\ t.state = "login"
     \/ /\ s.state = "login" /\ name = "EncryptionRequest"
        /\ t.state = "awaitEncryption" /\ ~s.compressed
     \/ s.state = "login" /\ name = "LoginSuccess" /\ t.state \in After
     \/ s.state \in After /\ name \notin LoginNames /\ t.state \in After

\* Its modes then.
LEMMA SaysModes ==
  ASSUME NEW s, NEW name, NEW t, Says(s, name, t)
  PROVE  /\ t.encrypted = s.encrypted
         /\ t.compressed <=> s.compressed \/ name = "SetCompression"
BY DEF Says

\* What is under way agrees with what the server says and does.
LEMMA ServerSays ==
  ASSUME SessionInv, Agreed, NEW n \in Connections, n = socket.number,
         NEW name \in ServerPackets, Sends(n, name), ~Gone(server[n]),
         server[n].state \notin {"hello", "start", "awaitEncryption"},
         NEW t \in Server, server' = [server EXCEPT ![n] = t],
         Says(server[n], name, t), UNCHANGED <<client, toServer, garbled>>
  PROVE  Agreed'
<1> DEFINE s == server[n]
           ts == toServer[n]
           tc == Incoming
           m == [name |-> name, encrypted |-> s.encrypted,
                 compressed |-> s.compressed]
           e == Ciphered(At, file.encrypted)
<1>1. n = connections /\ n # 0
  BY NowFacts DEF Connections
<1>2. ViewType(s, ts, tc, queue, At, socket.encrypted, file.encrypted,
               compression, reactor)
  BY <1>1, NowFacts
<1>3. /\ m \in Message /\ Incoming' = Append(tc, m)
      /\ m.name = name /\ m.encrypted = s.encrypted
      /\ m.compressed = s.compressed
  <2>1. m \in Message /\ toClient'[n] = Append(toClient[n], m)
    BY SentFacts
  <2>2. Incoming' = Append(tc, m)
    BY <1>1, <2>1, IncomingSent DEF client
  <2>3. QED
    BY <2>1, <2>2
<1>4. ASSUME n \notin overtaken
      PROVE  Open(t, ts, Append(tc, m), queue, At, socket.encrypted,
                  file.encrypted, compression, reactor)
  <2>1. Open(s, ts, tc, queue, At, socket.encrypted, file.encrypted,
             compression, reactor)
    BY <1>1, <1>4 DEF Agreed, LastAgreed, OpenNow
  <2>2. /\ Agrees(s, ts)
        /\ s.compressed <=> compression \/ Compresses(tc, Len(tc))
        /\ Stage(s, ts, tc, queue, At, e, reactor)
    BY <2>1 DEF Open
  <2>3. /\ s \in Server /\ ts \in Seq(Letter) /\ tc \in Seq(Message)
        /\ s.compressed \in BOOLEAN /\ t.compressed \in BOOLEAN
    BY <1>2 DEF ViewType, Server
  <2>4. ~s.compressed => ~Compresses(tc, Len(tc))
    BY <2>2
  <2>5. /\ Stage(t, ts, Append(tc, m), queue, At, e, reactor)
        /\ name = "SetCompression" => ts = <<>>
    <3>1. s.state = "login" => s.state \notin After
      BY DEF After
    <3>2. "LoginSuccess" # "SetCompression" /\ "SetCompression" \in LoginNames
      BY DEF LoginNames
    <3> HIDE DEF s, ts, tc, m, e
    <3>3. /\ s.state = "login" /\ name = "PluginRequest"
                /\ t.state = "awaitPlugin" =>
               Stage(t, ts, Append(tc, m), queue, At, e, reactor)
          /\ s.state = "login" /\ name = "SetCompression"
                /\ t.state = "login" =>
               ts = <<>>
                /\ Stage(t, ts, Append(tc, m), queue, At, e, reactor)
          /\ s.state = "login" /\ name = "EncryptionRequest"
                /\ t.state = "awaitEncryption" /\ ~Compresses(tc, Len(tc)) =>
               Stage(t, ts, Append(tc, m), queue, At, e, reactor)
          /\ s.state = "login" /\ name = "LoginSuccess"
                /\ t.state \in After =>
               Stage(t, ts, Append(tc, m), queue, At, e, reactor)
          /\ s.state \in After /\ name \notin LoginNames
                /\ t.state \in After =>
               Stage(t, ts, Append(tc, m), queue, At, e, reactor)
      <4>1. t.encrypted = s.encrypted
        BY SaysModes DEF s
      <4>2. QED
        BY <1>3, <2>2, <2>3, <4>1, StageAsks
    <3>4. Says(s, name, t)
      BY DEF s
    <3>5. QED
      BY <2>4, <3>1, <3>2, <3>3, <3>4 DEF Says
  <2>6. Agrees(t, ts)
    <3> USE SaysModes
    <3>1. CASE ts = <<>>
      BY <3>1 DEF Agrees
    <3>2. CASE name # "SetCompression"
      <4>1. t.compressed <=> s.compressed
        BY <3>2
      <4>2. QED
        BY <2>2, <4>1 DEF Agrees
    <3>3. QED
      BY <2>5, <3>1, <3>2
  <2>7. t.compressed <=> s.compressed \/ m.name = "SetCompression"
    BY SaysModes
  <2>8. /\ ~Gone(s) /\ t.encrypted = s.encrypted
        /\ s.state \notin {"hello", "start", "awaitEncryption"}
        /\ m.name = "SetCompression" => s.state = "login"
    BY SaysModes DEF Says, LoginNames
  <2> HIDE DEF s, ts, tc, m
  <2>9. QED
    BY <1>2, <1>3, <2>1, <2>5, <2>6, <2>7, <2>8, OpenSends
<1>5. n \notin overtaken => thread.next # "waiting"
  BY <1>1 DEF Agreed, LastAgreed, Unopened, Gone
<1>6. QED
  BY <1>3, <1>4, <1>5, ServerSent

\* The server asks in the login state.
LEMMA AsksAgreed ==
  ASSUME SessionInv, Agreed, NEW n \in Connections, ServerAsks(n)
  PROVE  Agreed'
<1> DEFINE s == server[n]
<1>1. s \in Server /\ server \in [Connections -> Server]
  BY DEF SessionInv, ServerType
<1>2. /\ n = socket.number /\ s.state = "login"
      /\ UNCHANGED <<client, toServer, garbled>>
  BY DEF ServerAsks
<1>3. s.state \notin {"hello", "start", "awaitEncryption"} /\ ~Gone(s)
  BY <1>2 DEF Gone
<1>4. CASE /\ Sends(n, "PluginRequest")
           /\ server' = [server EXCEPT ![n].state = "awaitPlugin",
                                       ![n].asked = @ \cup {"plugin"}]
  <2> DEFINE t == [s EXCEPT !.state = "awaitPlugin",
                            !.asked = @ \cup {"plugin"}]
  <2>1. /\ t \in Server /\ t.state = "awaitPlugin"
        /\ t.encrypted = s.encrypted /\ t.compressed = s.compressed
    BY <1>1 DEF Server, States
  <2>2. server' = [server EXCEPT ![n] = t]
    BY <1>1, <1>4
  <2>3. "PluginRequest" \in ServerPackets
    BY DEF ServerPackets
  <2> HIDE DEF t
  <2>4. Says(s, "PluginRequest", t)
    BY <1>1, <1>2, <2>1 DEF Says, Server
  <2>5. QED
    BY <1>2, <1>3, <1>4, <2>1, <2>2, <2>3, <2>4, ServerSays
<1>5. CASE /\ ~s.compressed
           /\ Sends(n, "EncryptionRequest")
           /\ server' = [server EXCEPT ![n].state = "awaitEncryption",
                                       ![n].asked = @ \cup {"encryption"}]
  <2> DEFINE t == [s EXCEPT !.state = "awaitEncryption",
                            !.asked = @ \cup {"encryption"}]
  <2>1. /\ t \in Server /\ t.state = "awaitEncryption"
        /\ t.encrypted = s.encrypted /\ t.compressed = s.compressed
    BY <1>1 DEF Server, States
  <2>2. server' = [server EXCEPT ![n] = t]
    BY <1>1, <1>5
  <2>3. "EncryptionRequest" \in ServerPackets
    BY DEF ServerPackets
  <2> HIDE DEF t
  <2>4. Says(s, "EncryptionRequest", t)
    BY <1>1, <1>2, <1>5, <2>1 DEF Says, Server
  <2>5. QED
    BY <1>2, <1>3, <1>5, <2>1, <2>2, <2>3, <2>4, ServerSays
<1>6. CASE /\ Sends(n, "SetCompression")
           /\ server' = [server EXCEPT ![n].compressed = TRUE]
  <2> DEFINE t == [s EXCEPT !.compressed = TRUE]
  <2>1. /\ t \in Server /\ t.state = "login"
        /\ t.encrypted = s.encrypted /\ t.compressed = TRUE
    BY <1>1, <1>2 DEF Server
  <2>2. server' = [server EXCEPT ![n] = t]
    BY <1>1, <1>6
  <2>3. "SetCompression" \in ServerPackets
    BY DEF ServerPackets
  <2> HIDE DEF t
  <2>4. Says(s, "SetCompression", t)
    BY <1>1, <1>2, <2>1 DEF Says
  <2>5. QED
    BY <1>2, <1>3, <1>6, <2>1, <2>2, <2>3, <2>4, ServerSays
<1>7. CASE /\ Sends(n, "LoginSuccess")
           /\ server' = [server EXCEPT ![n].state =
                           IF version >= 764 THEN "awaitLogin" ELSE "join"]
  <2> DEFINE name == IF version >= 764 THEN "awaitLogin" ELSE "join"
             t == [s EXCEPT !.state = name]
  <2>1. name \in States /\ name \in After
    BY DEF States, After
  <2>2. server' = [server EXCEPT ![n] = t]
    BY <1>1, <1>7
  <2> HIDE DEF name
  <2>3. /\ t \in Server /\ t.state \in After
        /\ t.encrypted = s.encrypted /\ t.compressed = s.compressed
    BY <1>1, <2>1 DEF Server
  <2>4. "LoginSuccess" \in ServerPackets
    BY DEF ServerPackets
  <2> HIDE DEF t
  <2>5. Says(s, "LoginSuccess", t)
    BY <1>1, <1>2, <2>3 DEF Says
  <2>6. QED
    BY <1>2, <1>3, <1>7, <2>2, <2>3, <2>4, <2>5, ServerSays
<1>8. QED
  BY <1>4, <1>5, <1>6, <1>7 DEF ServerAsks

\* The server goes on after the login.
LEMMA GoesOnAgreed ==
  ASSUME SessionInv, Agreed, NEW n \in Connections, ServerGoesOn(n)
  PROVE  Agreed'
<1> DEFINE s == server[n]
<1>1. s \in Server /\ server \in [Connections -> Server]
  BY DEF SessionInv, ServerType
<1>2. n = socket.number /\ UNCHANGED <<client, toServer, garbled>>
  BY DEF ServerGoesOn
<1>3. ASSUME NEW name \in {"FinishConfiguration", "JoinGame"},
             NEW state \in {"awaitFinish", "play"},
             s.state \in {"configuration", "join"}, Sends(n, name),
             server' = [server EXCEPT ![n].state = state]
      PROVE  Agreed'
  <2> DEFINE t == [s EXCEPT !.state = state]
  <2>1. /\ name \in ServerPackets \ LoginNames
        /\ state \in States /\ state \in After
    BY <1>3 DEF ServerPackets, LoginNames, States, After
  <2>2. /\ s.state \in After /\ ~Gone(s)
        /\ s.state \notin {"hello", "start", "awaitEncryption"}
    BY <1>3 DEF After, Gone
  <2>3. server' = [server EXCEPT ![n] = t]
    BY <1>1, <1>3
  <2>4. /\ t \in Server /\ t.state \in After
        /\ t.encrypted = s.encrypted /\ t.compressed = s.compressed
    BY <1>1, <2>1 DEF Server
  <2>5. name # "SetCompression"
    BY <1>3
  <2> HIDE DEF t
  <2>6. Says(s, name, t)
    BY <2>1, <2>2, <2>4, <2>5 DEF Says
  <2>7. QED
    BY <1>2, <1>3, <2>1, <2>2, <2>3, <2>4, <2>6, ServerSays
<1>4. QED
  BY <1>3 DEF ServerGoesOn

\* The server gives up.
LEMMA ClosesAgreed ==
  ASSUME SessionInv, Agreed, NEW n \in Connections, ServerCloses(n)
  PROVE  Agreed'
<1> DEFINE s == server[n]
           t == [s EXCEPT !.state = "closed"]
<1>1. /\ n = socket.number /\ UNCHANGED <<client, toServer, garbled>>
      /\ ~Gone(s)
      /\ server' = [server EXCEPT ![n].state = "closed"]
  BY DEF ServerCloses, Gone
<1>2. PICK name \in {"Disconnect", "End", "Part"} :
        /\ name = "Disconnect" =>
             s.state \notin {"hello", "start", "awaitEncryption"}
        /\ Sends(n, name)
  BY DEF ServerCloses
<1>3. server \in [Connections -> Server] /\ s \in Server
  BY DEF SessionInv, ServerType
<1>4. server' = [server EXCEPT ![n] = t] /\ Gone(t)
  BY <1>1, <1>3 DEF Server, Gone
<1>5. n = connections /\ n # 0
  BY <1>1, NowFacts DEF Connections
<1> DEFINE m == [name |-> name, encrypted |-> s.encrypted,
                 compressed |-> s.compressed]
<1>6. /\ m \in Message /\ toClient'[n] = Append(toClient[n], m)
      /\ Incoming' = Append(Incoming, m)
      /\ m.encrypted = s.encrypted /\ m.compressed = s.compressed
      /\ m.name = name
  <2>1. name \in ServerPackets
    BY <1>2 DEF ServerPackets
  <2>2. m \in Message /\ toClient'[n] = Append(toClient[n], m)
    BY <1>2, <2>1, SentFacts
  <2>3. Incoming' = Append(Incoming, m)
    BY <1>1, <1>5, <2>2, IncomingSent DEF client
  <2>4. QED
    BY <2>2, <2>3
<1>7. /\ m.name \notin Ends =>
           s.state \notin {"hello", "start", "awaitEncryption"}
      /\ m.name # "SetCompression"
  BY <1>2, <1>6 DEF Ends
<1>8. ViewType(s, toServer[n], Incoming, queue, At, socket.encrypted,
               file.encrypted, compression, reactor)
  BY <1>5, NowFacts
<1>9. ASSUME n \notin overtaken
      PROVE  Open(t, toServer[n], Incoming', queue, At,
                  socket.encrypted, file.encrypted, compression, reactor)
  <2>1. Open(s, toServer[n], Incoming, queue, At, socket.encrypted,
             file.encrypted, compression, reactor)
    BY <1>1, <1>5, <1>9 DEF Agreed, LastAgreed, OpenNow
  <2> HIDE DEF s, t, m
  <2>2. QED
    BY <1>1, <1>4, <1>6, <1>7, <1>8, <2>1, OpenCloses
<1>10. ASSUME n \notin overtaken, thread.next = "waiting"
       PROVE  \A i \in DOMAIN toClient'[n] : toClient'[n][i].name \in Ends
  <2>1. Unopened
    BY <1>5, <1>10 DEF Agreed, LastAgreed
  <2>2. m.name \in Ends
    BY <1>1, <1>5, <1>7, <2>1 DEF Unopened, Gone
  <2>3. toClient[n] \in Seq(Message)
    BY <1>5, NowFacts
  <2> HIDE DEF m
  <2>4. \A i \in DOMAIN Append(toClient[n], m) :
          \/ Append(toClient[n], m)[i] = m
          \/ /\ i \in DOMAIN toClient[n]
             /\ Append(toClient[n], m)[i] = toClient[n][i]
    BY <1>6, <2>3, AppendElement
  <2>5. QED
    BY <1>5, <1>6, <2>1, <2>2, <2>4 DEF Unopened
<1>11. t.state = "closed"
  BY <1>3 DEF Server
<1> HIDE DEF t
<1>12. QED
  BY <1>1, <1>4, <1>9, <1>10, <1>11, ServerSent

\* The server reads what the client wrote, also after the client has closed
\* the connection; garbage only where the connection is overtaken.
LEMMA ServesAgreed ==
  ASSUME SessionInv, Agreed, NEW n \in Connections, ServerReads(n)
  PROVE  Agreed'
<1> DEFINE s == server[n]
           ts == toServer[n]
           head == Head(ts)
           fits == /\ head.encrypted = s.encrypted
                   /\ head.compressed = s.compressed
           answered == s.encrypted \/ (s.state = "awaitEncryption"
                                       /\ head.name = "EncryptionResponse")
<1>1. /\ ~Gone(s) /\ ts # <<>>
      /\ toServer' = [toServer EXCEPT ![n] = Tail(ts)]
      /\ UNCHANGED client
      /\ fits =>
           /\ server' = [server EXCEPT ![n].state = Steps(s.state, head.name),
                                       ![n].encrypted = answered]
           /\ UNCHANGED <<toClient, garbled>>
      /\ ~fits =>
           /\ garbled' = garbled \cup {n}
           /\ server' = [server EXCEPT ![n].state = "closed"]
  BY DEF ServerReads, Gone
<1>2. n = connections /\ n # 0 /\ socket.number \in {0, n}
  BY <1>1, ServerFacts, NowFacts DEF Gone
<1>3. UNCHANGED <<connections, socket, file, compression, reactor, queue,
                  thread, reading, overtaken>>
  BY <1>1 DEF client
<1>4. /\ ts \in Seq(Letter) /\ toServer \in [Connections -> Seq(Letter)]
      /\ s \in Server /\ server \in [Connections -> Server]
  BY DEF Agreed, ModesType, SessionInv, ServerType
<1>5. toServer' \in [Connections -> Seq(Letter)] /\ toServer'[n] = Tail(ts)
  BY <1>1, <1>4
<1>6. /\ ModesType' /\ socket'.number = file'.number
      /\ thread'.next # "none" => thread'.interrupt
      /\ reading'.number \in 0..connections
      /\ Parsable'
      /\ connections # 0 /\ connections \notin overtaken' => Attends'
  <2>1. /\ ModesType' /\ socket'.number = file'.number
        /\ thread'.next # "none" => thread'.interrupt
    BY <1>3, <1>5 DEF Agreed, ModesType
  <2>2. /\ reading'.number \in 0..connections
        /\ Parsable'
        /\ connections # 0 /\ connections \notin overtaken' => Attends'
    BY <1>3, AttendsOn
  <2>3. QED
    BY <2>1, <2>2
<1>7. \A m \in Connections : m # connections => server'[m] = server[m]
  BY <1>1, <1>2, <1>4
<1>8. CASE n \in overtaken
  <2>1. garbled' \subseteq garbled \cup overtaken'
    BY <1>1, <1>3, <1>8
  <2>2. QED
    BY <1>2, <1>3, <1>6, <1>7, <1>8, <2>1, AgreedCarries
<1>9. CASE n \notin overtaken
  <2>1. /\ thread.next # "waiting"
        /\ socket.number # 0 => OpenNow
        /\ socket.number = 0 => ShutNow
    BY <1>1, <1>2, <1>9 DEF Agreed, LastAgreed, Unopened
  <2>2. Agrees(s, ts)
    BY <1>1, <1>2, <2>1 DEF OpenNow, ShutNow, Open, Shut
  <2>3. fits
    BY <1>1, <1>4, <2>2, HeadAgrees
  <2>4. Served(s, head.name, server'[n])
    <3>1. /\ server'[n].state = Steps(s.state, head.name)
          /\ server'[n].encrypted = answered
          /\ server'[n].compressed = s.compressed
      BY <1>1, <1>4, <2>3 DEF Server
    <3>2. QED
      BY <3>1 DEF Served
  <2>5. socket'.number # 0 => OpenNow'
    <3>1. SUFFICES ASSUME socket.number # 0 PROVE OpenNow'
      BY <1>3
    <3>2. ViewType(s, ts, Incoming, queue, At, socket.encrypted,
                   file.encrypted, compression, reactor)
      BY <1>2, NowFacts
    <3>3. Open(s, ts, Incoming, queue, At, socket.encrypted,
               file.encrypted, compression, reactor)
      BY <1>2, <2>1, <3>1 DEF OpenNow
    <3> DEFINE t == server'[n]
    <3>4. Served(s, head.name, t)
      BY <2>4
    <3> HIDE DEF s, ts, t
    <3>5. Open(t, Tail(ts), Incoming, queue, At, socket.encrypted,
               file.encrypted, compression, reactor)
      BY <1>1, <3>2, <3>3, <3>4, OpenServed
    <3>6. Incoming' = Incoming /\ At' = At
      BY <1>1, <1>3, <2>3 DEF Incoming, At
    <3>7. QED
      BY <1>2, <1>3, <1>5, <3>5, <3>6 DEF OpenNow, t
  <2>6. socket'.number = 0 => ShutNow'
    <3>1. SUFFICES ASSUME socket.number = 0 PROVE ShutNow'
      BY <1>3
    <3>2. Shut(s, ts)
      BY <1>2, <2>1, <3>1 DEF ShutNow
    <3> DEFINE t == server'[n]
    <3>3. Served(s, head.name, t)
      BY <2>4
    <3> HIDE DEF s, ts, t
    <3>4. Shut(t, Tail(ts))
      BY <1>1, <1>4, <3>2, <3>3, ShutServed
    <3>5. QED
      BY <1>2, <1>3, <1>5, <3>4 DEF ShutNow, t
  <2>7. garbled' \subseteq garbled \cup overtaken'
    BY <1>1, <2>3
  <2>8. connections # 0 /\ connections \notin overtaken' => LastAgreed'
    BY <1>3, <1>6, <2>1, <2>5, <2>6 DEF LastAgreed
  <2>9. QED
    BY <1>3, <1>6, <1>7, <2>7, <2>8, AgreedCarries
<1>10. QED
  BY <1>8, <1>9

-----------------------------------------------------------------------------
\* Before the first connect() there is nothing to agree on.
LEMMA AgreedInit == Init => Agreed
<1> SUFFICES ASSUME Init PROVE Agreed
  OBVIOUS
<1>1. ModesType
  <2>1. <<>> \in Seq(Letter)
    OBVIOUS
  <2>2. QED
    BY <2>1 DEF Init, ModesType, Reactors
<1>2. \A m \in Connections : server[m].state = "none"
  BY DEF Init, NoServer
<1>3. /\ connections = 0 /\ socket = file /\ garbled = {}
      /\ thread.at = "none" /\ thread.next = "none" /\ reading.number = 0
      /\ 0 \in 0..0
  BY DEF Init, Nothing
<1>4. QED
  BY <1>1, <1>2, <1>3 DEF Agreed, NothingGarbled, Parsable

\* Every step keeps both sides in agreement.
LEMMA AgreedNext == SessionInv /\ Agreed /\ [Next]_vars => Agreed'
<1> SUFFICES ASSUME SessionInv, Agreed, [Next]_vars PROVE Agreed'
  OBVIOUS
<1>1. CASE ThreadStep
  <2>1. CASE NetworkWrites
    BY <2>1, WritesAgreed
  <2>2. CASE \/ TakesOver \/ Exits \/ SetFlag \/ BeginsRead \/ TimesOut
             \/ ReadsPart \/ ReadsEnd \/ SpinEnds \/ StreamCloses
    BY <2>2, TurnsAgreed
  <2>3. CASE React
    BY <2>3, ReactionsAgreed, ReactDisconnectAgreed
  <2>4. CASE Join \/ Respond \/ WrapSocket \/ WrapFile
    BY <2>4, JoinAgreed, RespondAgreed, WrapSocketAgreed, WrapFileAgreed
  <2>5. CASE \/ BindsStream \/ ReadsBytes \/ Parses
             \/ ReadsGarbage \/ ParsesGarbage
    BY <2>5, BindsAgreed, BytesAgreed, ParsesAgreed, GarbageAgreed,
       ParsesGarbageAgreed
  <2>6. QED
    BY <1>1, <2>1, <2>2, <2>3, <2>4, <2>5 DEF ThreadStep
<1>2. CASE Connect \/ Disconnect \/ UserQueues \/ UserForces
  BY <1>2, ConnectAgreed, DisconnectAgreed, QueuesAgreed, ForcesAgreed
<1>3. CASE \E n \in Connections : ServerStep(n) \/ ServerCloses(n)
  BY <1>3, AsksAgreed, GoesOnAgreed, ServesAgreed, ClosesAgreed DEF ServerStep
<1>4. CASE UNCHANGED vars
  <2>1. UNCHANGED <<connections, socket, file, compression, reactor, queue,
                    thread, reading, server, toServer, toClient, garbled,
                    overtaken>>
    BY <1>4 DEF vars, client
  <2>2. At' = At /\ Incoming' = Incoming
    BY <2>1 DEF At, Incoming
  <2>3. /\ ModesType' /\ OpenNow' = OpenNow /\ ShutNow' = ShutNow
        /\ NothingGarbled' /\ Parsable' /\ Attends' = Attends
        /\ Unopened' = Unopened
    BY <2>1, <2>2
    DEF Agreed, ModesType, OpenNow, ShutNow, NothingGarbled, Parsable, Attends,
        Unopened
  <2>4. LastAgreed' = LastAgreed
    BY <2>1, <2>3 DEF LastAgreed
  <2>5. QED
    BY <2>1, <2>3, <2>4 DEF Agreed
<1>5. QED
  BY <1>1, <1>2, <1>3, <1>4 DEF Next

\* For all versions, any number of connections and of packets of the user: the
\* client and the server read every packet under the modes it was written
\* under, also where packets are read and reacted to outside of the lock while
\* the user disconnects and connects again.  Excepted are a connection on which
\* the user writes a packet during the login, one that is made while the thread
\* of the one before has a packet in its hands or reacts to it, and the one
\* before when its last packet is read but not yet parsed at that time.
THEOREM BothSidesAgree == Spec => []NothingGarbled
<1>1. Agreed => NothingGarbled
  BY DEF Agreed
<1>2. QED
  BY <1>1, SessionInitInv, SessionNextInv, AgreedInit, AgreedNext, PTL DEF Spec
==============================================================================
