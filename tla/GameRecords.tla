----------------------------- MODULE GameRecords -----------------------------
(***************************************************************************)
(* Two records that a program keeps or fills through attributes of packets *)
(* with rules of their own: the game mode of 'join game' (AbstractDimen-   *)
(* sionPacket and JoinGamePacket), whose place on the wire has changed     *)
(* twice and which may be set before the version is known, and the map     *)
(* that 'map' packets update part by part (MapPacket.apply_to_map_set).    *)
(***************************************************************************)
EXTENDS ProtocolVersions, FiniteSets

CONSTANTS ModeVersions,   \* the versions that a packet may be written for
          Size            \* width and height of a map, 128 in the code

ASSUME SizeAssumption == Size \in Nat \ {0}

-----------------------------------------------------------------------------
(* The modes of 'join game'                                                 *)

VARIABLES mode0,          \* _game_mode_0: before protocol 738
          mode738,        \* _game_mode_738: from 738 to 765
          worldMode,      \* world_state.game_mode: from 766 on
          isHardcore,     \* _is_hardcore
          wanted          \* what the program has set last

modeVars == <<mode0, mode738, worldMode, isHardcore, wanted>>

Unset == -1
Hardcore == 8             \* GameMode.HARDCORE
HasBit(n) == (n \div Hardcore) % 2 = 1
Plain(n) == IF HasBit(n) THEN n - Hardcore ELSE n
WithBit(n, b) == IF b THEN Plain(n) + Hardcore ELSE Plain(n)
OrZero(n) == IF n = Unset THEN 0 ELSE n

ModeInit ==
  /\ mode0 = Unset
  /\ mode738 = Unset
  /\ worldMode = Unset
  /\ isHardcore = Unset
  /\ wanted = [mode |-> Unset, hardcore |-> Unset, raw |-> FALSE]

\* The setter of game_mode, for which the hardcore bit is a part of the value.
SetGameMode(value) ==
  /\ mode738' = value
  /\ mode0' = value
  /\ worldMode' = value
  /\ wanted' = [wanted EXCEPT !.raw = TRUE]
  /\ UNCHANGED isHardcore

\* A mutant of SetPureGameMode: it stores the mode without the hardcore bit.
SetPureGameModeDropsBit(value) ==
  /\ mode738' = value
  /\ mode0' = value
  /\ worldMode' = Plain(value)
  /\ wanted' = [wanted EXCEPT !.mode = value]
  /\ UNCHANGED isHardcore

\* The setter of pure_game_mode.
SetPureGameMode(value) ==
  /\ mode738' = value
  /\ mode0' = WithBit(value, HasBit(OrZero(mode0)))
  /\ worldMode' = Plain(value)
  /\ wanted' = [wanted EXCEPT !.mode = value]
  /\ UNCHANGED isHardcore

\* The setter of is_hardcore.
SetIsHardcore(value) ==
  /\ isHardcore' = IF value THEN 1 ELSE 0
  /\ mode0' = WithBit(OrZero(mode0), value)
  /\ wanted' = [wanted EXCEPT !.hardcore = IF value THEN 1 ELSE 0]
  /\ UNCHANGED <<mode738, worldMode>>

\* The deleters of is_hardcore and game_mode; that of game_mode raises an
\* AttributeError when one of the attributes is not there.
DeleteIsHardcore ==
  /\ isHardcore' = Unset
  /\ mode0' = IF mode0 = Unset THEN Unset ELSE Plain(mode0)
  /\ wanted' = [wanted EXCEPT !.hardcore = Unset]
  /\ UNCHANGED <<mode738, worldMode>>

DeleteGameMode ==
  /\ mode738 # Unset
  /\ mode0 # Unset
  /\ mode738' = Unset
  /\ mode0' = Unset
  /\ worldMode' = Unset
  /\ wanted' = [wanted EXCEPT !.mode = Unset, !.raw = TRUE]
  /\ UNCHANGED isHardcore

ModeNext ==
  \/ \E value \in {0, 1, 3, 9} : SetGameMode(value)
  \/ \E value \in {0, 1, 3} : SetPureGameMode(value)
  \/ \E value \in BOOLEAN : SetIsHardcore(value)
  \/ DeleteIsHardcore
  \/ DeleteGameMode

ModeSpec == ModeInit /\ [][ModeNext]_modeVars

\* The getters, under a version; Unset stands for the AttributeError or None.
PureGameMode(v) ==
  CASE LaterEq(v, 766) -> worldMode
    [] InRange(v, 738, 766) -> mode738
    [] OTHER -> IF mode0 = Unset THEN Unset ELSE Plain(mode0)

IsHardcore(v) ==
  IF LaterEq(v, 738) THEN isHardcore
  ELSE IF mode0 = Unset THEN Unset ELSE IF HasBit(mode0) THEN 1 ELSE 0

\* A program that sets the mode and 'hardcore' by their version-independent
\* attributes, in any order and as often as it likes, before the packet has a
\* context, gets both back under whichever version the packet is then used,
\* also before protocol 738, where they share one number.
ModesAreIndependent ==
  ~wanted.raw =>
    \A v \in ModeVersions :
      /\ wanted.mode # Unset => PureGameMode(v) = wanted.mode
      /\ wanted.hardcore # Unset => IsHardcore(v) = wanted.hardcore

-----------------------------------------------------------------------------
(* Maps.  A pixel is 0 or 1, and there is one map.                          *)

VARIABLES mapVersion,     \* context.protocol_version
          serverMap,      \* what the server shows on the map
          clientMap       \* MapSet.maps_by_id.get(map_id); None: not there

mapVars == <<mapVersion, serverMap, clientMap>>

None == [there |-> FALSE]
Cells == 0..(Size * Size - 1)

\* MapPacket.Map.__init__; pixels is one array of all rows.
NewMap == [there |-> TRUE, pixels |-> [c \in Cells |-> 0],
           is_tracking_position |-> TRUE, is_locked |-> FALSE, icons |-> 0]

MapInit ==
  /\ mapVersion \in {47, 340, 477, 755}
  /\ serverMap = NewMap
  /\ clientMap = None

\* A mutant of Column: as if a part had as many columns as rows.
ColumnByHeight(packet, i) == packet.x + (i % packet.height)

\* MapPacket.apply_to_map: the pixels of a part of the map, row by row.
Column(packet, i) == packet.x + (i % packet.width)
Row(packet, i) == packet.z + (i \div packet.width)

ApplyPixels(map, packet) ==
  IF packet.width = 0 THEN map.pixels
  ELSE [c \in Cells |->
         LET i == {i \in 0..(packet.width * packet.height - 1) :
                     /\ c % Size = Column(packet, i)
                     /\ c \div Size = Row(packet, i)}
         IN  IF i = {} THEN map.pixels[c]
                       ELSE packet.pixels[CHOOSE j \in i : \A k \in i : j >= k]]

ApplyToMap(map, packet) ==
  [map EXCEPT !.icons = packet.icons, !.pixels = ApplyPixels(map, packet),
              !.is_tracking_position = packet.is_tracking_position,
              !.is_locked = packet.is_locked]

\* MapPacket.apply_to_map_set, of a packet as 'read' gives it.
ApplyToMapSet(packet) ==
  clientMap' = ApplyToMap(IF clientMap.there THEN clientMap ELSE NewMap,
                          [packet EXCEPT
                             !.is_tracking_position =
                               @ \/ Earlier(mapVersion, 107),
                             !.is_locked = @ /\ LaterEq(mapVersion, 452)])

\* External.  The server paints a rectangle, or nothing (width 0), changes
\* the flags that the version has and the icons, and sends just that.
UpdateMap ==
  \E x, z \in 0..(Size - 1), width, height \in 0..Size, paint \in {0, 1},
     track, lock \in BOOLEAN, icons \in {0, 1} :
    LET Inside(c) == /\ c % Size \in x..(x + width - 1)
                     /\ c \div Size \in z..(z + height - 1)
        \* one corner keeps another colour, so that rows and columns differ
        Colour(c) == IF c = x + Size * z THEN 1 - paint ELSE paint
        packet ==
          [width |-> width, height |-> height, x |-> x, z |-> z,
           pixels |-> [i \in 0..(width * height - 1) |->
                         IF i = 0 THEN 1 - paint ELSE paint],
           is_tracking_position |-> track, is_locked |-> lock, icons |-> icons]
    IN  /\ x + width <= Size /\ z + height <= Size
        /\ width = 0 <=> height = 0
        /\ Earlier(mapVersion, 107) => track
        /\ lock => LaterEq(mapVersion, 452)
        /\ serverMap' =
             [serverMap EXCEPT
                !.pixels = [c \in Cells |-> IF Inside(c) THEN Colour(c) ELSE @[c]],
                !.is_tracking_position = track, !.is_locked = lock,
                !.icons = icons]
        /\ ApplyToMapSet(packet)
        /\ UNCHANGED mapVersion

MapSpec == MapInit /\ [][UpdateMap]_mapVars

\* After any updates of parts, the client's map is the server's.
MapsAgree == clientMap.there => clientMap = serverMap
=============================================================================
