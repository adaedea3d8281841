----------------------------- MODULE FieldTypes -----------------------------
(***************************************************************************)
(* The types of networking/types/basic.py, and the packed fields of 'multi *)
(* block change', that do arithmetic on what they write.  Bytes of a       *)
(* VarInt are records of its 7 bits and the continuation bit.  The words   *)
(* that positions and vectors are packed into have up to 64 bits: such a   *)
(* word is the set of the places of its bits that are 1.                   *)
(***************************************************************************)
EXTENDS ProtocolVersions, FiniteSets, SequencesExt

Abs(n) == IF n < 0 THEN -n ELSE n

-----------------------------------------------------------------------------
(* VarInt                                                                   *)

MaxBytes == 5   \* VarInt.max_bytes

\* VarInt.send of a number that is not negative.
RECURSIVE VarIntBytes(_)
VarIntBytes(value) ==
  <<[low |-> value % 128, more |-> value \div 128 > 0]>>
  \o (IF value \div 128 = 0 THEN <<>> ELSE VarIntBytes(value \div 128))

RECURSIVE LowBits(_)
LowBits(bytes) ==
  IF bytes = <<>> THEN 0
                  ELSE Head(bytes).low + 128 * LowBits(Tail(bytes))

\* VarInt.read: the number, and how many bytes it takes.  A byte with the
\* continuation bit is accepted up to MaxBytes times.
VarIntRead(bytes) ==
  LET ends == {i \in DOMAIN bytes : ~bytes[i].more}
      first == IF ends = {} THEN 0 ELSE CHOOSE i \in ends : \A j \in ends : i <= j
  IN  CASE Len(bytes) > MaxBytes /\ (ends = {} \/ first > MaxBytes + 1) ->
             [error |-> "ValueError"]
        [] ends = {} -> [error |-> "EOFError"]
        [] OTHER -> [number |-> LowBits(SubSeq(bytes, 1, first)), length |-> first]

\* VarInt.size, by VARINT_SIZE_TABLE.
VarIntSize(value) ==
  CASE value < 2^7 -> 1
    [] value < 2^14 -> 2
    [] value < 2^21 -> 3
    [] value < 2^28 -> 4
    [] OTHER -> 5

-----------------------------------------------------------------------------
(* Words.  A mask of w bits, the bits of a number under a mask (in two's    *)
(* complement), shifts, and the number that a word is.                      *)

Lowest(w) == 0..(w - 1)

Bits(c, mask) == {i \in mask : (c \div 2^i) % 2 = 1}

Left(word, k) == {i + k : i \in word}

Right(word, k) == {i - k : i \in {j \in word : j >= k}}

Number(word) == MapThenSumSet(LAMBDA i : 2^i, word)

\* A field of w bits, with its sign.
Signed(word, w) == Number(word) - (IF w - 1 \in word THEN 2^w ELSE 0)

-----------------------------------------------------------------------------
(* Packed positions, of 64 bits.                                            *)

\* Position: x above y and z, whose order depends on the version.
PositionSent(v, pos) ==
  LET x == Bits(pos[1], Lowest(26))
      y == Bits(pos[2], Lowest(12))
      z == Bits(pos[3], Lowest(26))
  IN  IF LaterEq(v, 443) THEN Left(x, 38) \cup Left(z, 12) \cup y
                         ELSE Left(x, 38) \cup Left(y, 26) \cup z

\* A mutant of PositionRead: one layout for all versions.
PositionReadOneLayout(v, location) ==
  <<Signed(Right(location, 38), 26), Signed(location \cap Lowest(12), 12),
    Signed(Right(location, 12) \cap Lowest(26), 26)>>

PositionRead(v, location) ==
  LET x == Right(location, 38)
      y == IF LaterEq(v, 443) THEN location \cap Lowest(12)
                              ELSE Right(location, 26) \cap Lowest(12)
      z == IF LaterEq(v, 443) THEN Right(location, 12) \cap Lowest(26)
                              ELSE location \cap Lowest(26)
  IN  <<Signed(x, 26), Signed(y, 12), Signed(z, 26)>>

\* MultiBlockChangePacket.ChunkSectionPos, which shifts the word step by step.
SectionSent(pos) ==
  Left(Bits(pos[1], Lowest(22)), 42) \cup Left(Bits(pos[3], Lowest(22)), 20)
  \cup Bits(pos[2], Lowest(20))

SectionRead(value) ==
  LET above == Right(value, 20)
      x == Right(above, 22)
  IN  <<Signed(x, 22), Signed(value \cap Lowest(20), 20),
        Signed(above \cap Lowest(22), 22)>>

\* MultiBlockChangePacket.Record: coordinates of 4 bits below the block state.
RecordSent(v, r) ==
  IF LaterEq(v, 741)
  THEN <<r.block * 2^12 + (r.x % 2^4) * 2^8 + (r.z % 2^4) * 2^4 + (r.y % 2^4)>>
  ELSE <<r.x * 2^4 + (r.z % 2^4), r.y, r.block>>

RecordRead(v, wire) ==
  IF LaterEq(v, 741)
  THEN [block |-> wire[1] \div 2^12, x |-> (wire[1] \div 2^8) % 2^4,
        z |-> (wire[1] \div 2^4) % 2^4, y |-> wire[1] % 2^4]
  ELSE [block |-> wire[3], x |-> wire[1] \div 2^4, z |-> wire[1] % 2^4,
        y |-> wire[2]]

-----------------------------------------------------------------------------
(* Angles, in tenths of a degree, and LpVec3.                               *)

\* round(256 * (value % 360) / 360); no tenth of a degree is a tie.
AngleSent(tenths) == ((tenths % 3600) * 256 + 1800) \div 3600

\* 360 * byte / 256, in units of 1/2560 degree.
AngleRead(byte) == 3600 * byte

Quantum == 32766   \* LpVec3._MAX_QUANTIZED_VALUE

\* Components are in tenths, and exact where the code has floats; they are far
\* below the limit of _ABS_MAX_VALUE, and 0 or above that of _ABS_MIN_VALUE.
\* On the wire there are two bytes, a word of 32 bits and a VarInt.
LpVec3Sent(vector) ==
  LET maximum == Max({Abs(vector[i]) : i \in 1..3})
      scale == (maximum + 9) \div 10
      markers == IF scale > 3 THEN Bits(scale % 4, Lowest(2)) \cup {2}
                              ELSE Bits(scale, Lowest(2))
      Pack(c) == ((c + 10 * scale) * Quantum + 10 * scale) \div (20 * scale)
      packed == markers \cup Left(Bits(Pack(vector[1]), Lowest(15)), 3)
                \cup Left(Bits(Pack(vector[2]), Lowest(15)), 18)
                \cup Left(Bits(Pack(vector[3]), Lowest(15)), 33)
  IN  IF maximum = 0 THEN <<{}>>
      ELSE <<packed \cap Lowest(8), Right(packed, 8) \cap Lowest(8),
             Right(packed, 16) \cap Lowest(32)>>
           \o (IF scale > 3 THEN <<scale \div 4>> ELSE <<>>)

\* The components as pairs: <<n, scale>> is the number n * scale / Quantum.
LpVec3Read(wire) ==
  LET packed == wire[1] \cup Left(wire[2], 8) \cup Left(wire[3], 16)
      scale == Number(wire[1] \cap Lowest(2))
               + (IF 2 \in wire[1] THEN wire[4] * 4 ELSE 0)
      Unpack(shift) ==
        LET bits == Number(Right(packed, shift) \cap Lowest(15))
        IN  2 * (IF bits > Quantum THEN Quantum ELSE bits) - Quantum
  IN  IF wire[1] = {} THEN [i \in 1..3 |-> <<0, 0>>]
      ELSE <<<<Unpack(3), scale>>, <<Unpack(18), scale>>, <<Unpack(33), scale>>>>

-----------------------------------------------------------------------------
(* NBT, from protocol 764 on: the root tag has no name.  A value is None,   *)
(* an empty or a full compound, or a tag of another type.                   *)

NBTValues == {"None", "empty compound", "compound", "string tag"}

NBTSent(v, value) ==
  CASE Earlier(v, 764) -> <<"type 10", "root name", value>>
    [] LaterEq(v, 764) /\ value \in {"None", "empty compound"} -> <<"type 0">>
    [] LaterEq(v, 764) /\ value = "compound" -> <<"type 10", value>>
    [] OTHER -> <<"type 8", value>>

\* The value that is read, and how many parts of the wire are left.
NBTRead(v, wire) ==
  CASE Earlier(v, 764) -> <<wire[3], Len(wire) - 3>>
    [] LaterEq(v, 764) /\ wire[1] = "type 0" -> <<"empty compound", Len(wire) - 1>>
    [] OTHER -> <<wire[2], Len(wire) - 2>>

-----------------------------------------------------------------------------
\* Each kind of field with the values that the model takes: numbers around
\* the limits of each length of a VarInt, VarInts whose first 'unended' bytes
\* have the continuation bit, the corners of the positions, angles on both
\* sides of 0 and 360 degrees, vectors around the scales 1, 3, 4, 8 and 600.
Coordinates(w) == {-(2^(w - 1)), -1, 0, 1, 2^(w - 1) - 1}

FieldSamples ==
  [varint : {0, 1, 127, 128, 16383, 16384, 2097151, 2097152, 268435455,
             268435456, 2147483647}]
  \cup [unended : 1..8, total : 1..8]
  \cup [position : Coordinates(26) \X Coordinates(12) \X Coordinates(26)]
  \cup [section : Coordinates(22) \X Coordinates(20) \X Coordinates(22)]
  \cup [record : [block : {0, 1, 300}, x : {0, 9, 15}, y : {0, 8, 15},
                  z : {0, 15}]]
  \cup [angle : {100 * d : d \in -1..37} \cup {-7, -6} \cup 3588..3600]
  \cup [vector : {-6000, -41, -40, -39, -30, -10, -1, 0, 1, 9, 11, 30, 31,
                  79, 80, 81, 5999} \X {-40, 0, 3} \X {0, 10, 39}]
  \cup [nbt : NBTValues]

Unended(f) == [i \in 1..f.total |-> [low |-> 0, more |-> i <= f.unended]]

\* Whether the reader makes of a written field what was written: VarInts by
\* the size that is foretold, and never more than MaxBytes + 1 bytes of one;
\* positions exactly, in 64 bits; angles in one byte and, like vectors, up to
\* half a step of their quantization; None becomes an empty compound.
Kept(v, f) ==
  CASE "varint" \in DOMAIN f ->
         VarIntRead(VarIntBytes(f.varint))
           = [number |-> f.varint, length |-> VarIntSize(f.varint)]
    [] "unended" \in DOMAIN f ->
         LET read == VarIntRead(Unended(f))
         IN  IF f.unended > MaxBytes /\ f.total > MaxBytes
             THEN read = [error |-> "ValueError"]
             ELSE IF f.unended >= f.total THEN read = [error |-> "EOFError"]
             ELSE read.length = f.unended + 1
    [] "position" \in DOMAIN f ->
         LET sent == PositionSent(v, f.position)
         IN  sent \subseteq 0..63 /\ PositionRead(v, sent) = f.position
    [] "section" \in DOMAIN f ->
         LET sent == SectionSent(f.section)
         IN  sent \subseteq 0..63 /\ SectionRead(sent) = f.section
    [] "record" \in DOMAIN f -> RecordRead(v, RecordSent(v, f.record)) = f.record
    [] "angle" \in DOMAIN f ->
         LET sent == AngleSent(f.angle)
         IN  /\ sent \in 0..255
             /\ Abs(AngleRead(sent) - 256 * (f.angle % 3600)) <= 1800
    [] "vector" \in DOMAIN f ->
         LET read == LpVec3Read(LpVec3Sent(f.vector))
         IN  \A i \in 1..3 :
               Abs(10 * read[i][1] * read[i][2] - Quantum * f.vector[i])
                 <= 10 * read[i][2]
    [] "nbt" \in DOMAIN f ->
         Earlier(v, 764) \/
         NBTRead(v, NBTSent(v, f.nbt))
           = <<IF f.nbt = "None" THEN "empty compound" ELSE f.nbt, 0>>
=============================================================================
