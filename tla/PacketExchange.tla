---------------------------- MODULE PacketExchange ----------------------------
(***************************************************************************)
(* What the packet reactors of connection.py answer, and in which          *)
(* connection state the server reads it.                                   *)
(*                                                                         *)
(* A reactor looks a packet up by its id in 'clientbound_packets', a dict  *)
(* that it makes from the *set* of the registered classes: where two of    *)
(* them have one id under a version, the dict keeps one, and which one     *)
(* depends on the order of the set.  The replies wait in the outgoing      *)
(* queue, and the server reads each of them in the state that the replies  *)
(* before it have put it in.                                               *)
(*                                                                         *)
(* The server is external: it sends the packets that a reactor reacts to,  *)
(* and after one that asks for a change of state ('held') it sends nothing *)
(* more until the client has confirmed the change.                         *)
(***************************************************************************)
EXTENDS PacketIds, FiniteSets

CONSTANTS Versions,    \* the protocol versions that the server may speak
          MaxOutbox    \* bound of the model: replies that wait at a time

VARIABLES version,     \* context.protocol_version
          reactor,     \* state_name of connection.reactor
          table,       \* reactor.clientbound_packets: for each class, the
                       \* class that its id is found to be
          outbox,      \* _outgoing_packet_queue: classes
          server,      \* the state in which the server reads
          readable,    \* the classes that the server can tell apart there
          held         \* the server waits for a confirmation

vars == <<version, reactor, table, outbox, server, readable, held>>

\* What the dicts can give that the comprehension of PacketReactor.__init__
\* makes: for each registered class, the class that is found under its id.
Tables(ids) ==
  LET Of(i) == {c \in DOMAIN ids : ids[c] = i}
      contested == {ids[c] : c \in {c \in DOMAIN ids :
                                      Cardinality(Of(ids[c])) > 1}}
      winners == {w \in [contested -> UNION {Of(i) : i \in contested}] :
                    \A i \in contested : w[i] \in Of(i)}
  IN  {[c \in DOMAIN ids |-> IF ids[c] \in contested THEN w[ids[c]] ELSE c]
        : w \in winners}

\* The classes that can be told from all others by their id.
Distinct(ids) == {c \in DOMAIN ids : \A d \in DOMAIN ids \ {c} : ids[d] # ids[c]}

\* 'self.connection.reactor = ...Reactor(self.connection)'.
Install(state) ==
  /\ reactor' = state
  /\ table' \in Tables(Clientbound(state, version))

Init ==
  /\ version \in Versions
  /\ reactor \in {"status", "login"}
  /\ table \in Tables(Clientbound(reactor, version))
  /\ server = reactor
  /\ readable = Distinct(Serverbound(server, version))
  /\ outbox = <<>>
  /\ held = FALSE

-----------------------------------------------------------------------------
Reply(classes) ==
  /\ Len(outbox) + Len(classes) <= MaxOutbox
  /\ outbox' = outbox \o classes

\* The packets that the server sends, of those that a reactor reacts to.
Requests == {"StatusResponse", "LoginEncryptionRequest", "LoginPluginRequest",
             "LoginSuccess", "ConfigurationKeepAlive", "ConfigurationPing",
             "ConfigurationSelectKnownPacks",
             "ConfigurationFinishConfiguration", "JoinGame", "PlayerChat",
             "KeepAlive", "PlayerPositionAndLook", "StartConfiguration"}

\* A packet arrives that the reactor of 'state' takes for one of class 'd':
\* the one that its dict has under the id.
Arrives(state, d) ==
  /\ reactor = state
  /\ server = state
  /\ ~held
  /\ \E c \in Requests \cap DOMAIN table : table[c] = d

\* External.  Below protocol 764 nothing confirms 'login success': the server
\* changes its state when it sends it, after it has had its answers.
ServerHasAnswers == outbox = <<>>

\* The packets whose handling writes one packet and nothing else.  A chat
\* signer is set; without one, 'join game' and 'player chat message' are not
\* answered.
Answer(d) ==
  CASE d = "StatusResponse" -> "SbStatusPing"
    [] d = "LoginEncryptionRequest" -> "SbLoginEncryptionResponse"
    [] d = "LoginPluginRequest" -> "SbLoginPluginResponse"
    [] d = "ConfigurationKeepAlive" -> "SbConfigurationKeepAlive"
    [] d = "ConfigurationPing" -> "SbConfigurationPong"
    [] d = "ConfigurationSelectKnownPacks" -> "SbConfigurationSelectKnownPacks"
    [] d = "JoinGame" -> "SbPlayerSession"
    [] d = "PlayerChat" -> "SbChatAcknowledgement"
    [] d = "KeepAlive" -> "SbKeepAlive"
    [] d = "PlayerPositionAndLook" ->
         IF LaterEq(version, 107) THEN "SbTeleportConfirm"
                                  ELSE "SbPositionAndLook"

Answers(d) ==
  /\ Reply(<<Answer(d)>>)
  /\ UNCHANGED <<version, reactor, table, server, readable, held>>

\* The reactor confirms a change of state and changes it.
Confirms(classes, state) ==
  /\ Reply(classes)
  /\ Install(state)
  /\ held' = TRUE
  /\ UNCHANGED <<version, server, readable>>

\* StatusReactor.react, with 'do_ping'
StatusReact == Arrives("status", "StatusResponse") /\ Answers("StatusResponse")

\* A mutant of LoginReact: the settings come before the acknowledgement, and
\* in every version.
LoginReactSettingsFirst ==
  \/ \E d \in {"LoginEncryptionRequest", "LoginPluginRequest"} :
       Arrives("login", d) /\ Answers(d)
  \/ /\ Arrives("login", "LoginSuccess")
     /\ Confirms(<<"SbConfigurationClientInformation", "SbLoginAcknowledged">>,
                 "configuration")

\* LoginReactor.react
LoginReact ==
  \/ \E d \in {"LoginEncryptionRequest", "LoginPluginRequest"} :
       Arrives("login", d) /\ Answers(d)
  \/ /\ Arrives("login", "LoginSuccess")
     /\ LaterEq(version, 764)
     /\ Confirms(<<"SbLoginAcknowledged", "SbConfigurationClientInformation">>,
                 "configuration")
  \/ /\ Arrives("login", "LoginSuccess")
     /\ Earlier(version, 764)
     /\ ServerHasAnswers
     /\ Install("play")
     /\ server' = "play"
     /\ readable' = Distinct(Serverbound("play", version))
     /\ UNCHANGED <<version, outbox, held>>

\* ConfigurationReactor.react
ConfigurationReact ==
  \/ \E d \in {"ConfigurationKeepAlive", "ConfigurationPing",
               "ConfigurationSelectKnownPacks"} :
       Arrives("configuration", d) /\ Answers(d)
  \/ /\ Arrives("configuration", "ConfigurationFinishConfiguration")
     /\ Confirms(<<"SbConfigurationFinishConfiguration">>, "play")

\* PlayingReactor.react
PlayReact ==
  \/ \E d \in {"KeepAlive", "PlayerPositionAndLook"} :
       Arrives("play", d) /\ Answers(d)
  \/ \E d \in {"JoinGame", "PlayerChat"} :
       Arrives("play", d) /\ LaterEq(version, 761) /\ Answers(d)
  \/ /\ Arrives("play", "StartConfiguration")
     /\ Confirms(<<"SbConfigurationAcknowledged">>, "configuration")

-----------------------------------------------------------------------------
\* External.  The state in which the server reads what follows 'c'.
After(c, state) ==
  CASE c \in {"SbLoginAcknowledged", "SbConfigurationAcknowledged"} ->
         "configuration"
    [] c = "SbConfigurationFinishConfiguration" -> "play"
    [] OTHER -> state

\* External.  The server reads the first of the replies.
ServerReads ==
  /\ outbox # <<>>
  /\ server' = After(Head(outbox), server)
  /\ IF server' = server
     THEN UNCHANGED <<readable, held>>
     ELSE /\ readable' = Distinct(Serverbound(server', version))
          /\ held' = FALSE
  /\ outbox' = Tail(outbox)
  /\ UNCHANGED <<version, reactor, table>>

Next ==
  \/ StatusReact
  \/ LoginReact
  \/ ConfigurationReact
  \/ PlayReact
  \/ ServerReads

Spec == Init /\ [][Next]_vars

-----------------------------------------------------------------------------
\* A mutant of PositionFields: the branches for 768 and later are missing.
PositionFieldsNo768 ==
  {"x", "y", "z", "yaw", "pitch", "flags"}
  \cup (IF InRange(version, 107, 768) THEN {"teleport_id"} ELSE {})

\* The fields of a 'player position and look' packet.
PositionFields ==
  {"x", "y", "z", "yaw", "pitch", "flags"}
  \cup (IF LaterEq(version, 768) THEN {"delta_x", "delta_y", "delta_z"} ELSE {})
  \cup (IF LaterEq(version, 107) THEN {"teleport_id"} ELSE {})
  \cup (IF InRange(version, 755, 762) THEN {"dismount_vehicle"} ELSE {})

\* The fields of ClientSettingsPacket, which ClientInformationPacket inherits.
SettingsFields ==
  {"locale", "view_distance", "chat_mode", "chat_colors",
   "displayed_skin_parts"}
  \cup (IF Earlier(49, version) THEN {"main_hand"} ELSE {})
  \cup (IF LaterEq(version, 757) THEN {"enable_text_filtering"}
        ELSE IF LaterEq(version, 755) THEN {"disable_text_filtering"} ELSE {})
  \cup (IF LaterEq(version, 755) THEN {"allow_server_listings"} ELSE {})
  \cup (IF LaterEq(version, 768) THEN {"particle_status"} ELSE {})

\* The fields that the reactor gives to a reply: literals, or copies of fields
\* of the packet that it answers.  A profile key 'signs' the verify token in
\* its place if there is one, and the version has that.
Given(c, signs) ==
  CASE c = "SbConfigurationClientInformation" ->
         {"locale", "view_distance", "chat_mode", "chat_colors",
          "displayed_skin_parts", "main_hand", "enable_text_filtering",
          "allow_server_listings", "particle_status"}
    [] c = "SbLoginEncryptionResponse" ->
         {"shared_secret"}
         \cup (IF signs /\ InRange(version, 759, 761)
               THEN {"salt", "message_signature"} ELSE {"verify_token"})
    [] c = "SbLoginPluginResponse" -> {"message_id", "not successful"}
    [] c \in {"SbKeepAlive", "SbConfigurationKeepAlive"} -> {"keep_alive_id"}
    [] c = "SbConfigurationPong" -> {"ping_id"}
    [] c = "SbConfigurationSelectKnownPacks" -> {"packs"}
    [] c = "SbTeleportConfirm" -> {"teleport_id"} \cap PositionFields
    [] c = "SbPositionAndLook" ->
         ({"x", "z", "yaw", "pitch"} \cap PositionFields)
         \cup (IF "y" \in PositionFields THEN {"feet_y"} ELSE {})
         \cup {"on_ground"}
    [] c = "SbPlayerSession" -> {"session_uuid", "expires_at", "public_key",
                                 "key_signature"}
    [] c = "SbChatAcknowledgement" -> {"count"}
    [] c = "SbStatusPing" -> {"time"}
    [] OTHER -> {}

\* The fields that write_fields takes from a reply that has been given these:
\* those of its definition, or those that a write_fields of its own needs.
Wanted(c, given) ==
  CASE c = "SbConfigurationClientInformation" -> SettingsFields
    [] c = "SbLoginEncryptionResponse" ->
         {"shared_secret"}
         \cup (IF InRange(version, 759, 761) /\ "verify_token" \notin given
               THEN {"salt", "message_signature"} ELSE {"verify_token"})
    [] c = "SbLoginPluginResponse" ->
         {"message_id"} \cup (IF "not successful" \in given THEN {} ELSE {"data"})
    [] c \in {"SbKeepAlive", "SbConfigurationKeepAlive"} -> {"keep_alive_id"}
    [] c = "SbConfigurationPong" -> {"ping_id"}
    [] c = "SbConfigurationSelectKnownPacks" -> {"packs"}
    [] c = "SbTeleportConfirm" -> {"teleport_id"}
    [] c = "SbPositionAndLook" -> {"x", "feet_y", "z", "yaw", "pitch",
                                   "on_ground"}
    [] c = "SbPlayerSession" -> {"session_uuid", "expires_at", "public_key",
                                 "key_signature"}
    [] c = "SbChatAcknowledgement" -> {"count"}
    [] c = "SbStatusPing" -> {"time"}
    [] OTHER -> {}

-----------------------------------------------------------------------------
\* tests/test_packets.py:test_unique_packet_ids (175-208) looks for classes with one id
\* under the newer versions only and says that the older ones have some.  In
\* every release, each registered packet is found under its own id.
NoClassShadowed ==
  version \in ReleaseProtocols => \A c \in DOMAIN table : table[c] = c

\* A client that takes a packet which a reactor has to answer for another one
\* does not stay on the server: these are found under their ids in every
\* supported version, of snapshots too.  ('disconnect' is not: from 471 to 476
\* and from 721 to 750 it may be taken for 'named sound effect'.)
LifelinesDecoded == \A c \in Requests \cap DOMAIN table : table[c] = c

\* The server reads each reply in a state that has the packet, and under an
\* id that is no other packet's there; and when it has read all of them it is
\* in the state of the reactor.
RepliesAreUnderstood ==
  /\ outbox # <<>> => Head(outbox) \in readable
  /\ outbox = <<>> => server = reactor

\* No reply lacks a field when the networking thread writes it, whatever the
\* version, and whether a profile key has signed or not: the AttributeError
\* would end the connection.
RepliesAreComplete ==
  outbox # <<>> => \A signs \in BOOLEAN :
    LET given == Given(Head(outbox), signs)
    IN  Wanted(Head(outbox), given) \subseteq given
=============================================================================
