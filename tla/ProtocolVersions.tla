-------------------------- MODULE ProtocolVersions --------------------------
(***************************************************************************)
(* The tables of minecraft/__init__.py and the comparisons built on them.  *)
(*                                                                         *)
(* A protocol number is no order: the pre-releases after 1.16.3 are        *)
(* numbered from PRE upwards but lie between 753 and 757.  The client      *)
(* therefore compares positions in the list of known protocols.            *)
(***************************************************************************)
EXTENDS Integers, Sequences
LOCAL INSTANCE FiniteSets
LOCAL INSTANCE SequencesExt
LOCAL INSTANCE TLC

PRE == 1073741824  \* 1 << 30

(***************************************************************************)
(* Consecutive records of KNOWN_MINECRAFT_VERSION_RECORDS whose protocols  *)
(* are consecutive and of the same kind, names of versions left out:       *)
(* <<first protocol, last protocol, kind>>, where the kind is "old" for    *)
(* unsupported ones and "release" for supported ones with a release of     *)
(* that protocol.                                                          *)
(***************************************************************************)
RecordsTo15w47 ==
  <<<<0, 3, "old">>, <<4, 5, "release">>, <<6, 46, "old">>,
    <<47, 47, "release">>, <<48, 89, "old">>>>

RecordsTo18w03 ==
  <<<<90, 106, "old">>, <<107, 110, "release">>, <<201, 205, "old">>,
    <<210, 210, "release">>, <<301, 314, "snapshot">>,
    <<315, 316, "release">>, <<317, 334, "snapshot">>,
    <<335, 335, "release">>, <<336, 337, "snapshot">>,
    <<338, 338, "release">>, <<339, 339, "snapshot">>,
    <<340, 340, "release">>, <<341, 354, "snapshot">>>>

RecordsTo20w20 ==
  <<<<355, 392, "snapshot">>, <<393, 393, "release">>,
    <<394, 400, "snapshot">>, <<401, 401, "release">>,
    <<402, 403, "snapshot">>, <<404, 404, "release">>,
    <<441, 476, "snapshot">>, <<477, 477, "release">>,
    <<478, 479, "snapshot">>, <<480, 480, "release">>,
    <<481, 484, "snapshot">>, <<485, 485, "release">>,
    <<486, 489, "snapshot">>, <<490, 490, "release">>,
    <<491, 497, "snapshot">>, <<498, 498, "release">>,
    <<550, 567, "snapshot">>, <<569, 572, "snapshot">>,
    <<573, 573, "release">>, <<574, 574, "snapshot">>,
    <<575, 575, "release">>, <<576, 577, "snapshot">>,
    <<578, 578, "release">>, <<701, 717, "snapshot">>>>

RecordsTo26 ==
  <<<<718, 719, "snapshot">>, <<721, 722, "snapshot">>,
    <<725, 725, "snapshot">>, <<727, 727, "snapshot">>,
    <<729, 730, "snapshot">>, <<732, 734, "snapshot">>,
    <<735, 736, "release">>, <<738, 738, "snapshot">>,
    <<740, 741, "snapshot">>, <<743, 744, "snapshot">>,
    <<746, 746, "snapshot">>, <<748, 750, "snapshot">>,
    <<751, 751, "release">>, <<752, 752, "snapshot">>,
    <<753, 753, "release">>, <<PRE + 1, PRE + 3, "snapshot">>,
    <<754, 754, "release">>, <<PRE + 5, PRE + 7, "snapshot">>,
    <<PRE + 8, PRE + 9, "old">>, <<754, 754, "release">>,
    <<PRE + 11, PRE + 15, "old">>, <<PRE + 35, PRE + 35, "old">>,
    <<755, 756, "release">>, <<PRE + 48, PRE + 48, "old">>,
    <<PRE + 60, PRE + 60, "old">>, <<757, 775, "release">>>>

VersionRecords ==
  RecordsTo15w47 \o RecordsTo18w03 \o RecordsTo20w20 \o RecordsTo26

(***************************************************************************)
(* initglobals(use_known_records=True): a protocol gets the next index at  *)
(* its first record, and is supported or released if one of its records    *)
(* is.                                                                     *)
(***************************************************************************)
Protocols(r) == r[1] .. r[2]

ProtocolIndices ==
  FoldLeft(LAMBDA indices, r :
             indices @@ [p \in Protocols(r) |->
                           Cardinality(DOMAIN indices) + p - r[1]],
           << >>, VersionRecords)

ProtocolsOf(kinds) ==
  UNION {Protocols(r) : r \in {r \in ToSet(VersionRecords) : r[3] \in kinds}}

SupportedProtocols == ProtocolsOf({"snapshot", "release"})
ReleaseProtocols == ProtocolsOf({"release"})

-----------------------------------------------------------------------------
\* protocol_earlier and protocol_earlier_eq of utility.py, under the names
\* and argument orders of ConnectionContext.
Earlier(v, other) == ProtocolIndices[v] < ProtocolIndices[other]
EarlierEq(v, other) == ProtocolIndices[v] <= ProtocolIndices[other]
LaterEq(v, other) == EarlierEq(other, v)
InRange(v, start, end) == Earlier(v, end) /\ EarlierEq(start, v)
=============================================================================
