---------------------------- MODULE PacketLayouts ----------------------------
(***************************************************************************)
(* The packet classes of networking/packets that read and write their      *)
(* fields with code of their own, and not from one list ('definition') for *)
(* both ways.  For each of them, and each record type with a 'read' and a  *)
(* 'send', this module has two operators:                                  *)
(*                                                                         *)
(*   <Class>Written(v, p)  what 'write_fields' puts on the wire for a      *)
(*                         packet 'p' under protocol version v;            *)
(*   <Class>Read(v, p)     what 'read' takes from the wire, if what it     *)
(*                         branches on is read as 'p' has it.              *)
(*                                                                         *)
(* Both are sequences of fields, each one a string of its wire type and    *)
(* its attribute.  A flag that 'read' branches on is itself a field of the *)
(* sequence in front of the branch, so that equal sequences mean that each *)
(* value is read by the code, at the place, and under the type, by which   *)
(* it was written.  A packet 'p' is a record of the choices that the code  *)
(* branches on; a set '...Samples' has those of some classes.              *)
(***************************************************************************)
EXTENDS PacketIds, SequencesExt

\* The fields of the elements of an array, one after the other.
Each(Fields(_), elements) ==
  FlattenSeq([i \in DOMAIN elements |-> Fields(elements[i])])

-----------------------------------------------------------------------------
(* Clientbound chat.  p.signed: there is a signature; p.seen: for each      *)
(* entry of 'previous_messages' whether its id is 0; p.filter: filter_type; *)
(* p.mask: length of filter_type_mask.                                      *)

ChatSamples ==
  [signed : BOOLEAN, seen : {<<>>, <<TRUE>>, <<FALSE, TRUE>>},
   filter : {0, 2}, mask : {0, 1}]

ChatMask(p) ==
  When(p.filter = 2, <<"VarInt mask length">> \o [i \in 1..p.mask |-> "Long mask"])

PlayerChatWritten(v, p) ==
  IF Earlier(v, 760) THEN
    <<"String signed_content", "OptString unsigned_content", "VarInt type",
      "UUID sender_uuid", "String sender_name", "OptString sender_team",
      "Long timestamp", "Long salt", "Bytes signature">>
  ELSE
    (IF Earlier(v, 761) THEN
       <<"OptBytes previous_signature", "UUID sender_uuid", "Bytes signature",
         "String plain_message", "OptString formatted_message">>
     ELSE
       When(LaterEq(v, 770), <<"VarInt global_index">>)
       \o <<"UUID sender_uuid", "VarInt index", "Boolean has_signature">>
       \o When(p.signed, <<"256 signature">>) \o <<"String plain_message">>)
    \o <<"Long timestamp", "Long salt", "VarInt previous_messages">>
    \o Each(LAMBDA zero :
              IF Earlier(v, 761)
              THEN <<"UUID message_sender", "Bytes message_signature">>
              ELSE <<"VarInt id">> \o When(zero, <<"256 signature">>), p.seen)
    \o (IF LaterEq(v, 765) THEN <<"OptNBT unsigned_content">>
                           ELSE <<"OptString unsigned_content">>)
    \o <<"VarInt filter_type">> \o ChatMask(p) \o <<"VarInt type">>
    \o (IF LaterEq(v, 765)
        THEN <<"NBT network_name", "OptNBT network_target_name">>
        ELSE <<"String network_name", "OptString network_target_name">>)

PlayerChatRead(v, p) ==
  CASE Earlier(v, 760) ->
         <<"String signed_content", "OptString unsigned_content",
           "VarInt type", "UUID sender_uuid", "String sender_name",
           "OptString sender_team", "Long timestamp", "Long salt",
           "Bytes signature">>
    [] OTHER ->
         (IF LaterEq(v, 761)
          THEN When(LaterEq(v, 770), <<"VarInt global_index">>)
               \o <<"UUID sender_uuid", "VarInt index",
                    "Boolean has_signature">>
               \o When(p.signed, <<"256 signature">>)
               \o <<"String plain_message">>
          ELSE <<"OptBytes previous_signature", "UUID sender_uuid",
                 "Bytes signature", "String plain_message",
                 "OptString formatted_message">>)
         \o <<"Long timestamp", "Long salt", "VarInt previous_messages">>
         \o Each(LAMBDA zero :
                   IF LaterEq(v, 761)
                   THEN When(zero, <<"VarInt id", "256 signature">>)
                        \o When(~zero, <<"VarInt id">>)
                   ELSE <<"UUID message_sender", "Bytes message_signature">>,
                 p.seen)
         \o When(LaterEq(v, 765), <<"OptNBT unsigned_content">>)
         \o When(Earlier(v, 765), <<"OptString unsigned_content">>)
         \o <<"VarInt filter_type">> \o ChatMask(p) \o <<"VarInt type">>
         \o When(LaterEq(v, 765),
               <<"NBT network_name", "OptNBT network_target_name">>)
         \o When(Earlier(v, 765),
               <<"String network_name", "OptString network_target_name">>)

-----------------------------------------------------------------------------
(* Serverbound chat.  p.signed: there is a signature; p.previous: number of *)
(* previous messages; p.rejected: there is a last rejected message;         *)
(* p.arguments: number of argument signatures of a command.                 *)

SbChatSamples ==
  [signed : BOOLEAN, previous : 0..2, rejected : BOOLEAN, arguments : 0..2]

\* The acknowledged messages, as protocol 760 has them.
PreviousMessage(i) == <<"UUID message_sender", "Bytes message_signature">>

Seen760(p) ==
  <<"VarInt previous_messages">> \o Each(PreviousMessage, [i \in 1..p.previous |-> i])
  \o <<"Boolean has_last_rejected">> \o When(p.rejected, PreviousMessage(0))

SbChatWritten(v, p) ==
  <<"String message">>
  \o When(LaterEq(v, 759), <<"Long timestamp", "Long salt">>)
  \o When(LaterEq(v, 761),
        <<"Boolean has_signature">> \o When(p.signed, <<"256 signature">>)
        \o <<"VarInt offset", "3 acknowledged">>
        \o When(LaterEq(v, 770), <<"UnsignedByte checksum">>))
  \o When(InRange(v, 759, 761), <<"Bytes signature", "Boolean signed_preview">>)
  \o When(InRange(v, 760, 761), Seen760(p))

SbChatRead(v, p) ==
  IF Earlier(v, 759) THEN <<"String message">>
  ELSE <<"String message", "Long timestamp", "Long salt">>
       \o (IF LaterEq(v, 761)
           THEN <<"Boolean has_signature">> \o When(p.signed, <<"256 signature">>)
                \o <<"VarInt offset", "3 acknowledged">>
                \o When(LaterEq(v, 770), <<"UnsignedByte checksum">>)
           ELSE <<"Bytes signature", "Boolean signed_preview">>
                \o When(LaterEq(v, 760), Seen760(p)))

SbChatCommandWritten(v, p) ==
  <<"String command">>
  \o When(Earlier(v, 766),
        <<"Long timestamp", "Long salt", "VarInt argument_signatures">>
        \o Each(LAMBDA i : IF LaterEq(v, 761)
                           THEN <<"String argument_name", "256 signature">>
                           ELSE <<"String argument_name", "Bytes signature">>,
                [i \in 1..p.arguments |-> i])
        \o When(LaterEq(v, 761), <<"VarInt offset", "3 acknowledged">>)
        \o When(Earlier(v, 761), <<"Boolean signed_preview">>)
        \o When(InRange(v, 760, 761), Seen760(p)))

SbChatCommandRead(v, p) ==
  IF LaterEq(v, 766) THEN <<"String command">>
  ELSE <<"String command", "Long timestamp", "Long salt",
         "VarInt argument_signatures">>
       \o Each(LAMBDA i : <<"String argument_name">>
                          \o When(LaterEq(v, 761), <<"256 signature">>)
                          \o When(Earlier(v, 761), <<"Bytes signature">>),
               [i \in 1..p.arguments |-> i])
       \o (IF LaterEq(v, 761)
           THEN <<"VarInt offset", "3 acknowledged">>
           ELSE <<"Boolean signed_preview">>
                \o When(LaterEq(v, 760), Seen760(p)))

-----------------------------------------------------------------------------
(* Login.  p.key: a profile key is set; p.token: the verify token is sent,  *)
(* and not a salt and a signature; p.successful: a plugin request was       *)
(* understood.                                                              *)

LoginSamples == [key : BOOLEAN, token : BOOLEAN, successful : BOOLEAN]

\* A mutant of SbLoginStartWritten: the flag is left out where there is no key.
SbLoginStartWrittenNoFlag(v, p) ==
  <<"String name">>
  \o When(InRange(v, 759, 761) /\ p.key,
          <<"Boolean has_key", "Long expires_at", "Bytes public_key",
            "Bytes signature">>)
  \o When(LaterEq(v, 764), <<"UUID player_uuid">>)

\* No player UUID is ever written before protocol 764, only its flag.
SbLoginStartWritten(v, p) ==
  <<"String name">>
  \o When(InRange(v, 759, 761),
        <<"Boolean has_key">>
        \o When(p.key, <<"Long expires_at", "Bytes public_key",
                       "Bytes signature">>))
  \o (IF LaterEq(v, 764) THEN <<"UUID player_uuid">>
      ELSE When(LaterEq(v, 760), <<"Boolean FALSE">>))

SbLoginStartRead(v, p) ==
  <<"String name">>
  \o When(InRange(v, 759, 761) /\ ~p.key, <<"Boolean has_key">>)
  \o When(InRange(v, 759, 761) /\ p.key,
        <<"Boolean has_key", "Long expires_at", "Bytes public_key",
          "Bytes signature">>)
  \o When(LaterEq(v, 764), <<"UUID player_uuid">>)
  \o When(InRange(v, 760, 764), <<"Boolean FALSE">>)

SbLoginEncryptionResponseWritten(v, p) ==
  <<"Bytes shared_secret">>
  \o When(InRange(v, 759, 761), <<"Boolean has_verify_token">>)
  \o (IF InRange(v, 759, 761) /\ ~p.token
      THEN <<"Long salt", "Bytes message_signature">>
      ELSE <<"Bytes verify_token">>)

SbLoginEncryptionResponseRead(v, p) ==
  <<"Bytes shared_secret">>
  \o (IF InRange(v, 759, 761)
      THEN <<"Boolean has_verify_token">>
           \o (IF p.token THEN <<"Bytes verify_token">>
                          ELSE <<"Long salt", "Bytes message_signature">>)
      ELSE <<"Bytes verify_token">>)

SbLoginPluginResponseWritten(v, p) ==
  <<"VarInt message_id", "Boolean successful">>
  \o When(p.successful, <<"Rest data">>)

SbLoginPluginResponseRead(v, p) ==
  IF p.successful THEN <<"VarInt message_id", "Boolean successful", "Rest data">>
                  ELSE <<"VarInt message_id", "Boolean successful">>

-----------------------------------------------------------------------------
(* Entities and events.  p.data: whether 'data' is above 0; p.entity: an    *)
(* entity is faced; p.event: id of the combat event.                        *)

EntitySamples == [data : BOOLEAN, entity : BOOLEAN, event : 0..2]

SpawnObjectWritten(v, p) ==
  <<"VarInt entity_id">> \o When(LaterEq(v, 49), <<"UUID object_uuid">>)
  \o <<IF LaterEq(v, 458) THEN "VarInt type_id" ELSE "Byte type_id">>
  \o (IF LaterEq(v, 100) THEN <<"Double x", "Double y", "Double z">>
                         ELSE <<"Integer x", "Integer y", "Integer z">>)
  \o <<"Angle pitch", "Angle yaw">>
  \o (IF LaterEq(v, 759) THEN <<"Angle head_pitch", "VarInt data">>
                         ELSE <<"Integer data">>)
  \o When(LaterEq(v, 49) \/ p.data,
        <<"Short velocity_x", "Short velocity_y", "Short velocity_z">>)

SpawnObjectRead(v, p) ==
  LET xyz == IF LaterEq(v, 100) THEN <<"Double x", "Double y", "Double z">>
                                ELSE <<"Integer x", "Integer y", "Integer z">>
  IN  <<"VarInt entity_id">> \o When(LaterEq(v, 49), <<"UUID object_uuid">>)
      \o When(LaterEq(v, 458), <<"VarInt type_id">>)
      \o When(Earlier(v, 458), <<"Byte type_id">>)
      \o xyz \o <<"Angle pitch", "Angle yaw">>
      \o When(LaterEq(v, 759), <<"Angle head_pitch">>)
      \o <<IF LaterEq(v, 759) THEN "VarInt data" ELSE "Integer data">>
      \o When(LaterEq(v, 49) \/ p.data,
            <<"Short velocity_x", "Short velocity_y", "Short velocity_z">>)

FacePlayerWritten(v, p) ==
  LET target == <<"Double x", "Double y", "Double z">>
  IN  IF LaterEq(v, 353)
      THEN <<"VarInt origin">> \o target \o <<"Boolean is_entity">>
           \o When(p.entity, <<"VarInt entity_id", "VarInt entity_origin">>)
      ELSE <<"Boolean is_entity">>
           \o (IF p.entity THEN <<"VarInt entity_id">> ELSE target)

FacePlayerRead(v, p) ==
  When(LaterEq(v, 353), <<"VarInt origin", "Double x", "Double y", "Double z">>)
  \o <<"Boolean is_entity">> \o When(p.entity, <<"VarInt entity_id">>)
  \o When(p.entity /\ LaterEq(v, 353), <<"VarInt entity_origin">>)
  \o When(~p.entity /\ Earlier(v, 353), <<"Double x", "Double y", "Double z">>)

\* EnterCombatEvent, EndCombatEvent and EntityDeadEvent.
CombatEventWritten(v, p) ==
  <<"VarInt id">>
  \o CASE p.event = 0 -> <<>>
       [] p.event = 1 -> <<"VarInt duration", "Integer entity_id">>
       [] p.event = 2 -> <<"VarInt player_id", "Integer entity_id",
                           "String message">>

CombatEventRead(v, p) ==
  <<"VarInt id">>
  \o When(p.event = 1, <<"VarInt duration">>)
  \o When(p.event = 2, <<"VarInt player_id">>)
  \o When(p.event # 0, <<"Integer entity_id">>)
  \o When(p.event = 2, <<"String message">>)

-----------------------------------------------------------------------------
(* Sounds.  The wire has a 'holder': 0 for a sound that is defined inline,  *)
(* and from protocol 766 on the registry id plus one for any other.         *)
(* p.sound: sound_id of a packet that pyCraft writes, or the holder that a  *)
(* server writes ('server').                                                *)

SoundSamples == [sound : 0..2, server : BOOLEAN]

Holder(v, p) ==
  IF LaterEq(v, 766) /\ p.sound # 0 /\ ~p.server THEN p.sound + 1 ELSE p.sound

SoundLayout(v, inline) ==
  <<"VarInt sound_id">>
  \o When(inline, <<"String sound_name", "OptFloat fixed_range">>)
  \o <<"VarInt sound_category", "Vector effect_position", "Float volume",
       "Pitch pitch", "Long seed">>

SoundBefore761(v) ==
  When(InRange(v, 321, 326), <<"VarInt sound_category">>)
  \o <<"VarInt sound_id">>
  \o When(InRange(v, 95, 321) \/ LaterEq(v, 326), <<"VarInt sound_category">>)
  \o When(InRange(v, 321, 326), <<"String parroted_entity_type">>)
  \o <<"Vector effect_position", "Float volume", "Pitch pitch">>
  \o When(LaterEq(v, 759), <<"Long seed">>)

\* The same code for a packet of pyCraft, by its id, and for one of the server,
\* by its holder.
SoundEffectWritten(v, p) ==
  IF Earlier(v, 761) THEN SoundBefore761(v) ELSE SoundLayout(v, p.sound = 0)

\* 'read' compares with 0 after it has taken 1 from the holder.
SoundEffectRead(v, p) ==
  LET read == Holder(v, p)
      sound_id == IF LaterEq(v, 766) /\ read > 0 THEN read - 1 ELSE read
  IN  IF Earlier(v, 761) THEN SoundBefore761(v)
                         ELSE SoundLayout(v, sound_id = 0)

-----------------------------------------------------------------------------
(* Maps.  p.icons: for each icon whether it has a name; p.width: whether    *)
(* the packet has pixels.                                                   *)

MapSamples == [icons : {<<>>, <<TRUE>>, <<FALSE, TRUE>>}, width : {0, 1}]

\* 'offset' is written as unsigned bytes and read as signed ones.
MapPixels(p) ==
  <<"UnsignedByte width">>
  \o When(p.width # 0, <<"UnsignedByte height", "1 offset_x", "1 offset_z",
                       "Bytes pixels">>)

MapIcon(v, named) ==
  <<IF LaterEq(v, 373) THEN "VarInt type" ELSE "UnsignedByte type_direction",
    "Byte x", "Byte z">>
  \o When(LaterEq(v, 373), <<"UnsignedByte direction">>)
  \o When(LaterEq(v, 364), <<"Boolean has_name">>)
  \o When(LaterEq(v, 364) /\ named, <<"String display_name">>)

MapWritten(v, p) ==
  <<"VarInt map_id", "Byte scale">>
  \o When(LaterEq(v, 107), <<"Boolean is_tracking_position">>)
  \o <<"VarInt icons">> \o Each(LAMBDA named : MapIcon(v, named), p.icons)
  \o MapPixels(p)

MapRead(v, p) ==
  <<"VarInt map_id", "Byte scale">>
  \o When(InRange(v, 107, PRE + 6), <<"Boolean is_tracking_position">>)
  \o When(LaterEq(v, 452), <<"Boolean is_locked">>)
  \o When(LaterEq(v, PRE + 6), <<"Boolean is_tracking_position">>)
  \o <<"VarInt icons">> \o Each(LAMBDA named : MapIcon(v, named), p.icons)
  \o MapPixels(p)

-----------------------------------------------------------------------------
(* The 'world_state' of 'join game' and 'respawn'.  p.death: the player has *)
(* died before.                                                             *)

WorldSamples == [death : BOOLEAN]

DeathLocation == <<"String dimension_name", "Position location">>

SpawnInfoWritten(v, p) ==
  <<"VarInt dimension", "String world_name", "Long hashed_seed",
    "Byte game_mode", "UnsignedByte previous_game_mode", "Boolean is_debug",
    "Boolean is_flat", "Boolean has_death">>
  \o When(p.death, DeathLocation) \o <<"VarInt portal_cooldown">>
  \o When(LaterEq(v, 768), <<"VarInt sea_level">>)

SpawnInfoRead(v, p) ==
  LET record == <<"VarInt dimension", "String world_name", "Long hashed_seed",
                  "Byte game_mode", "UnsignedByte previous_game_mode",
                  "Boolean is_debug", "Boolean is_flat", "Boolean has_death">>
                \o When(p.death, DeathLocation) \o <<"VarInt portal_cooldown">>
  IN  IF LaterEq(v, 768) THEN Append(record, "VarInt sea_level") ELSE record

-----------------------------------------------------------------------------
\* The layouts of the play state, then those of the login state; JoinGame
\* stands for its 'world_state', which it has from protocol 766 on.
PlaySamples ==
  [PlayerChat |-> ChatSamples, SbChat |-> SbChatSamples,
   SbChatCommand |-> SbChatSamples, SpawnObject |-> EntitySamples,
   FacePlayer |-> EntitySamples, CombatEvent |-> EntitySamples,
   SoundEffect |-> SoundSamples, Map |-> MapSamples, JoinGame |-> WorldSamples]

LoginClasses ==
  {"SbLoginStart", "SbLoginEncryptionResponse", "SbLoginPluginResponse"}

Written(c, v, p) ==
  CASE c = "PlayerChat" -> PlayerChatWritten(v, p)
    [] c = "SbChat" -> SbChatWritten(v, p)
    [] c = "SbChatCommand" -> SbChatCommandWritten(v, p)
    [] c = "SpawnObject" -> SpawnObjectWritten(v, p)
    [] c = "FacePlayer" -> FacePlayerWritten(v, p)
    [] c = "CombatEvent" -> CombatEventWritten(v, p)
    [] c = "SoundEffect" ->
         SoundEffectWritten(v, p)
    [] c = "Map" -> MapWritten(v, p)
    [] c = "JoinGame" -> SpawnInfoWritten(v, p)
    [] c = "SbLoginStart" -> SbLoginStartWritten(v, p)
    [] c = "SbLoginEncryptionResponse" -> SbLoginEncryptionResponseWritten(v, p)
    [] c = "SbLoginPluginResponse" -> SbLoginPluginResponseWritten(v, p)

Read(c, v, p) ==
  CASE c = "PlayerChat" -> PlayerChatRead(v, p)
    [] c = "SbChat" -> SbChatRead(v, p)
    [] c = "SbChatCommand" -> SbChatCommandRead(v, p)
    [] c = "SpawnObject" -> SpawnObjectRead(v, p)
    [] c = "FacePlayer" -> FacePlayerRead(v, p)
    [] c = "CombatEvent" -> CombatEventRead(v, p)
    [] c = "SoundEffect" -> SoundEffectRead(v, p)
    [] c = "Map" -> MapRead(v, p)
    [] c = "JoinGame" -> SpawnInfoRead(v, p)
    [] c = "SbLoginStart" -> SbLoginStartRead(v, p)
    [] c = "SbLoginEncryptionResponse" -> SbLoginEncryptionResponseRead(v, p)
    [] c = "SbLoginPluginResponse" -> SbLoginPluginResponseRead(v, p)
=============================================================================
