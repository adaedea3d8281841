----------------------------- MODULE PlayerList -----------------------------
(***************************************************************************)
(* The player list that a client keeps from 'player list item' and 'player *)
(* remove' packets (player_list_item_packet.py), next to the list of the   *)
(* server that sends them.                                                 *)
(*                                                                         *)
(* Before protocol 761 a packet has one type of action.  From 761 on it    *)
(* has a mask of actions, each entry has the fields of all of them, and    *)
(* one entry is read as several actions; pyCraft still writes a packet     *)
(* from a list of actions of one type.  Masks are sets of bits.  Names,    *)
(* properties and keys of players, which no action changes, are left out.  *)
(***************************************************************************)
EXTENDS ProtocolVersions

CONSTANTS Players, ListVersions

\* All versions are known ones, in whose order 761, 768 and 769 are ascending.
ASSUME ListVersionsAssumption ==
  /\ \A v \in ListVersions \cup {761, 768, 769} : ProtocolIndices[v] \in Nat
  /\ Earlier(761, 768) /\ Earlier(768, 769)

VARIABLES listVersion,   \* context.protocol_version
          serverList,    \* the players that the server knows
          clientList     \* PlayerList.players_by_uuid

listVars == <<listVersion, serverList, clientList>>

Absent == [gamemode |-> -1, ping |-> -1, display_name |-> "none"]
Entries == [gamemode : {0, 1}, ping : {0, 1}, display_name : {"none", "some"}]

-----------------------------------------------------------------------------
(* Actions.  A record of an action has the type, the uuid and all fields;   *)
(* the 'apply' of the type uses those that it sets.                         *)

\* _list_order_bit
ListOrderBit(v) == IF LaterEq(v, 769) THEN 128 ELSE 64

\* type(action).action_bit, with the exceptions of _write_bitmask.
ActionBits(v, type) ==
  CASE type = "AddPlayer" -> {1, 4, 16, 32}
    [] type = "InitializeChat" -> {2}
    [] type = "UpdateGameMode" -> {4}
    [] type = "UpdateListed" -> {8}
    [] type = "UpdateLatency" -> {16}
    [] type = "UpdateDisplayName" -> {32}
    [] type = "UpdateListOrder" -> {ListOrderBit(v)}
    [] type \in {"UpdateHat", "RemovePlayer"} -> {64}

\* The types that there are under a version.
ActionTypes(v) ==
  {"AddPlayer", "UpdateGameMode", "UpdateLatency", "UpdateDisplayName"}
  \cup (IF Earlier(v, 768) THEN {"RemovePlayer"} ELSE {})
  \cup (IF LaterEq(v, 761) THEN {"InitializeChat", "UpdateListed"} ELSE {})
  \cup (IF LaterEq(v, 768) THEN {"UpdateListOrder"} ELSE {})
  \cup (IF LaterEq(v, 769) THEN {"UpdateHat"} ELSE {})

\* The 'apply' of the action types, on the list of a client or a server.
Apply(list, a) ==
  LET player == list[a.uuid]
      Set(new) == [list EXCEPT ![a.uuid] = IF player = Absent THEN Absent ELSE new]
  IN  CASE a.type = "AddPlayer" ->
             [list EXCEPT ![a.uuid] = [gamemode |-> a.gamemode, ping |-> a.ping,
                                       display_name |-> a.display_name]]
        [] a.type = "RemovePlayer" -> [list EXCEPT ![a.uuid] = Absent]
        [] a.type = "UpdateGameMode" -> Set([player EXCEPT !.gamemode = a.gamemode])
        [] a.type = "UpdateLatency" -> Set([player EXCEPT !.ping = a.ping])
        [] a.type = "UpdateDisplayName" ->
             Set([player EXCEPT !.display_name = a.display_name])
        [] OTHER -> list

\* PlayerListItemPacket.apply
ApplyAll(list, actions) ==
  LET after[i \in 0..Len(actions)] ==
        IF i = 0 THEN list ELSE Apply(after[i - 1], actions[i])
  IN  after[Len(actions)]

-----------------------------------------------------------------------------
(* The wire: a mask (before 761, the one type), and for each entry the uuid *)
(* and the values in their order.                                           *)

Present(condition, x) == IF condition THEN <<x>> ELSE <<>>

\* The value of a field that is written of an action: its own, or a default
\* for a field that no list keeps.
ValueOf(a, field) == IF field \in DOMAIN a THEN a[field] ELSE "default"

Values(fields, a) == [i \in DOMAIN fields |-> ValueOf(a, fields[i])]

\* The value at the place of a field, for a reader that expects these fields.
At(fields, values, field) ==
  IF \E i \in DOMAIN fields : fields[i] = field
  THEN values[CHOOSE i \in DOMAIN fields : fields[i] = field]
  ELSE "missing"

\* The action that a reader makes of values.
ActionRead(type, uuid, fields, values) ==
  [type |-> type, uuid |-> uuid, gamemode |-> At(fields, values, "gamemode"),
   ping |-> At(fields, values, "ping"),
   display_name |-> At(fields, values, "display_name")]

\* Before protocol 761: action_id, and type_from_id, which takes it back.
ActionIds == [AddPlayer |-> 0, UpdateGameMode |-> 1, UpdateLatency |-> 2,
              UpdateDisplayName |-> 3, RemovePlayer |-> 4]

TypeFromId(id) == CHOOSE type \in DOMAIN ActionIds : ActionIds[type] = id

HasKeys(v) == LaterEq(v, 759) /\ Earlier(v, 761)

\* The fields that the '_send' of a type writes, and that its '_read' reads.
SentFields(v, type) ==
  CASE type = "AddPlayer" ->
         <<"name", "gamemode", "ping", "display_name">>
         \o Present(HasKeys(v), "keys")
    [] type = "UpdateGameMode" -> <<"gamemode">>
    [] type = "UpdateLatency" -> <<"ping">>
    [] type = "UpdateDisplayName" -> <<"display_name">>
    [] OTHER -> <<>>

ReadFields(v, type) ==
  CASE type = "AddPlayer" ->
         <<"name", "gamemode", "ping", "display_name">>
         \o Present(HasKeys(v), "keys")
    [] type = "UpdateGameMode" -> <<"gamemode">>
    [] type = "UpdateLatency" -> <<"ping">>
    [] type = "UpdateDisplayName" -> <<"display_name">>
    [] OTHER -> <<>>

\* _write_bitmask: the fields of an entry, in order.
WriteOrder(v, mask) ==
  Present(1 \in mask, "name")
  \o Present(2 \in mask, "chat_session")
  \o Present(4 \in mask, "gamemode")
  \o Present(8 \in mask, "listed")
  \o Present(16 \in mask, "ping")
  \o Present(32 \in mask, "display_name")
  \o Present(LaterEq(v, 768) /\ ListOrderBit(v) \in mask, "list_priority")
  \o Present(LaterEq(v, 769) /\ 64 \in mask, "show_hat")

\* _read_bitmask: the fields that it expects, in order.
ReadOrder(v, mask) ==
  Present(1 \in mask, "name")
  \o Present(2 \in mask, "chat_session")
  \o Present(4 \in mask, "gamemode")
  \o Present(8 \in mask, "listed")
  \o Present(16 \in mask, "ping")
  \o Present(32 \in mask, "display_name")
  \o Present(LaterEq(v, 768) /\ ListOrderBit(v) \in mask, "list_priority")
  \o Present(LaterEq(v, 769) /\ 64 \in mask, "show_hat")

\* Whether _read_bitmask takes the bit 0x40 for the removal of a player.
SaysRemove(v, mask) == 64 \in mask /\ Earlier(v, 768)

\* A mutant of ActionsOfMask: an entry is read as one action.
ActionsOfMaskFirst(v, mask) ==
  CASE SaysRemove(v, mask) -> <<"RemovePlayer">>
    [] 1 \in mask -> <<"AddPlayer">>
    [] 1 \notin mask /\ 4 \in mask -> <<"UpdateGameMode">>
    [] mask \cap {1, 4} = {} /\ 16 \in mask -> <<"UpdateLatency">>
    [] mask \cap {1, 4, 16} = {} /\ 32 \in mask -> <<"UpdateDisplayName">>
    [] OTHER -> <<>>

\* The actions that _read_bitmask makes of an entry, in order.
ActionsOfMask(v, mask) ==
  LET Alone(bit) == bit \in mask /\ 1 \notin mask IN
  Present(SaysRemove(v, mask), "RemovePlayer")
  \o Present(1 \in mask, "AddPlayer")
  \o Present(2 \in mask, "InitializeChat")
  \o Present(Alone(4), "UpdateGameMode")
  \o Present(8 \in mask, "UpdateListed")
  \o Present(Alone(16), "UpdateLatency")
  \o Present(Alone(32), "UpdateDisplayName")
  \o Present(LaterEq(v, 768) /\ ListOrderBit(v) \in mask, "UpdateListOrder")
  \o Present(LaterEq(v, 769) /\ 64 \in mask, "UpdateHat")

\* _read_bitmask of one entry: the values go to the fields by their place.
ReadEntry(v, mask, uuid, values) ==
  LET types == ActionsOfMask(v, mask)
  IN  [i \in DOMAIN types |->
         ActionRead(types[i], uuid, ReadOrder(v, mask), values)]

\* read of what write_fields makes of actions of one type.
Received(v, actions) ==
  LET mask == UNION {ActionBits(v, actions[i].type) : i \in DOMAIN actions}
      type == TypeFromId(ActionIds[actions[1].type])
      Entry(a) ==
        IF Earlier(v, 761)
        THEN <<ActionRead(type, a.uuid, ReadFields(v, type),
                          Values(SentFields(v, a.type), a))>>
        ELSE ReadEntry(v, mask, a.uuid, Values(WriteOrder(v, mask), a))
  IN  IF Len(actions) = 1 THEN Entry(actions[1])
      ELSE Entry(actions[1]) \o Entry(actions[2])

-----------------------------------------------------------------------------
ListInit ==
  /\ listVersion \in ListVersions
  /\ serverList = [p \in Players |-> Absent]
  /\ clientList = serverList

\* An entry that differs from e in every field.
Opposite(e) ==
  [gamemode |-> 1 - e.gamemode, ping |-> 1 - e.ping,
   display_name |-> IF e.display_name = "none" THEN "some" ELSE "none"]

\* Entries enough to tell what an action does: with types that set one field
\* or none, and with masks, entries need not differ in each field by itself.
EntriesFor(type) ==
  LET low == [gamemode |-> 0, ping |-> 0, display_name |-> "none"]
  IN  IF type = "AddPlayer" THEN Entries ELSE {low, Opposite(low)}

\* The server does one or two actions of a type and sends them in a packet.
SendActions ==
  \E type \in ActionTypes(listVersion), p, q \in Players :
  \E e \in EntriesFor(type) :
    LET Action(u, x) == [type |-> type, uuid |-> u, gamemode |-> x.gamemode,
                         ping |-> x.ping, display_name |-> x.display_name]
        actions == IF p = q THEN <<Action(p, e)>>
                   ELSE <<Action(p, e), Action(q, Opposite(e))>>
    IN  /\ serverList' = ApplyAll(serverList, actions)
        /\ clientList' = ApplyAll(clientList, Received(listVersion, actions))
        /\ UNCHANGED listVersion

\* External.  What a server does to its list before it sends an entry with the
\* values of e under a mask of its own: it adds the player, or it changes what
\* the mask names of one that it knows.
Masked(list, mask, p, e) ==
  LET New(bit, field) == IF bit \in mask THEN e[field] ELSE list[p][field]
  IN  [list EXCEPT ![p] =
         IF 1 \in mask THEN e
         ELSE IF list[p] = Absent THEN Absent
         ELSE [gamemode |-> New(4, "gamemode"), ping |-> New(16, "ping"),
               display_name |-> New(32, "display_name")]]

\* External.  With 'add_player' a server always sends the fields of a list
\* entry, and it sends no bit that its version does not have.
SendMask ==
  \E mask \in SUBSET {1, 2, 4, 8, 16, 32, 64, 128}, p \in Players :
  \E e \in EntriesFor("mask") :
    /\ LaterEq(listVersion, 761)
    /\ 64 \in mask => LaterEq(listVersion, 768)
    /\ 128 \in mask => LaterEq(listVersion, 769)
    /\ 1 \in mask => {4, 16, 32} \subseteq mask
    /\ serverList' = Masked(serverList, mask, p, e)
    /\ clientList' = ApplyAll(clientList,
         ReadEntry(listVersion, mask, p, Values(WriteOrder(listVersion, mask), e)))
    /\ UNCHANGED listVersion

\* PlayerRemovePacket.apply
SendRemove ==
  \E uuids \in SUBSET Players :
    LET Without(list) == [p \in Players |-> IF p \in uuids THEN Absent ELSE list[p]]
    IN  /\ LaterEq(listVersion, 764)
        /\ serverList' = Without(serverList)
        /\ clientList' = Without(clientList)
        /\ UNCHANGED listVersion

ListNext == SendActions \/ SendMask \/ SendRemove

ListSpec == ListInit /\ [][ListNext]_listVars

-----------------------------------------------------------------------------
\* After each packet the client has the players of the server, with the same
\* game modes, latencies and display names, under all three forms that the
\* packet has had: what a mask combines is neither lost nor applied to a
\* player that is not there, and the bit 0x40 is never taken for the removal
\* that it was before protocol 768.
ListsAgree == clientList = serverList
=============================================================================
