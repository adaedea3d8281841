---------------------------- MODULE Records_proofs ----------------------------
(***************************************************************************)
(* Proofs about the records that packets fill.  The modes of 'join game'   *)
(* are independent, whatever versions there are, and a map of any size is  *)
(* the server's after any updates of parts (GameRecords): the first        *)
(* invariant says where each of the two values is stored, also before a    *)
(* version is known; the second rests on what a position in a part says of *)
(* its row and column.  The player list is the server's (PlayerList): what *)
(* is written under a mask is read at the same places, as actions with the *)
(* effect of those that were meant.                                        *)
(***************************************************************************)
EXTENDS GameRecords, PlayerList, TLAPS

\* The modes and what mode0 may be, as long as game_mode itself is not set.
Modes == {0, 1, 3}
Numbers == {Unset, 0, 1, 3, 8, 9, 11}

WantedType ==
  wanted \in [mode : Modes \cup {Unset}, hardcore : {Unset, 0, 1}, raw : BOOLEAN]

ModeStored ==
  wanted.mode # Unset =>
    /\ mode738 = wanted.mode
    /\ worldMode = wanted.mode
    /\ mode0 # Unset
    /\ Plain(mode0) = wanted.mode

HardcoreStored ==
  wanted.hardcore # Unset =>
    /\ isHardcore = wanted.hardcore
    /\ mode0 # Unset
    /\ HasBit(mode0) <=> wanted.hardcore = 1

ModeInv ==
  /\ WantedType
  /\ ~wanted.raw => mode0 \in Numbers /\ ModeStored /\ HardcoreStored

\* The hardcore bit and the mode are parts of a number that do not meet.
LEMMA BitsApart ==
  ASSUME NEW n \in Numbers \ {Unset}
  PROVE  /\ Plain(n) \in Modes
         /\ \A b \in BOOLEAN : /\ WithBit(n, b) \in Numbers \ {Unset}
                               /\ Plain(WithBit(n, b)) = Plain(n)
                               /\ HasBit(WithBit(n, b)) <=> b
         /\ \A b \in BOOLEAN, m \in Modes :
              /\ Plain(m) = m
              /\ WithBit(m, b) \in Numbers \ {Unset}
              /\ Plain(WithBit(m, b)) = m
              /\ HasBit(WithBit(m, b)) <=> b
<1>1. n \in {0, 1, 3, 8, 9, 11}
  BY DEF Numbers, Unset
<1>2. ~HasBit(0) /\ ~HasBit(1) /\ ~HasBit(3)
  BY DEF HasBit, Hardcore
<1>3. HasBit(8) /\ HasBit(9) /\ HasBit(11)
  BY DEF HasBit, Hardcore
<1>4. Plain(0) = 0 /\ Plain(1) = 1 /\ Plain(3) = 3
      /\ Plain(8) = 0 /\ Plain(9) = 1 /\ Plain(11) = 3
  BY <1>2, <1>3 DEF Plain, Hardcore
<1>5. WithBit(n, TRUE) = Plain(n) + 8 /\ WithBit(n, FALSE) = Plain(n)
  BY DEF WithBit, Hardcore
<1>6. ASSUME NEW m \in Modes
      PROVE  WithBit(m, TRUE) = m + 8 /\ WithBit(m, FALSE) = m
  BY <1>4 DEF WithBit, Hardcore, Modes
<1>7. Plain(n) \in Modes
  BY <1>1, <1>4 DEF Modes
<1>8. ASSUME NEW m \in Modes, NEW b \in BOOLEAN
      PROVE  /\ Plain(m) = m
             /\ WithBit(m, b) \in Numbers \ {Unset}
             /\ Plain(WithBit(m, b)) = m
             /\ HasBit(WithBit(m, b)) <=> b
  <2>1. m \in {0, 1, 3}
    BY DEF Modes
  <2>2. CASE b = TRUE
    <3>1. WithBit(m, b) = WithBit(m, TRUE)
      BY <2>2, Zenon
    <3>2. WithBit(m, TRUE) = m + 8
      BY <1>6, Zenon
    <3>3. m + 8 \in {8, 9, 11}
      BY <2>1
    <3>4. WithBit(m, b) \in {8, 9, 11} /\ WithBit(m, b) = m + 8
      BY <3>1, <3>2, <3>3, Zenon
    <3>5. Plain(m) = m /\ Plain(WithBit(m, b)) = m
      BY <1>4, <2>1, <3>4
    <3>6. HasBit(WithBit(m, b))
      BY <1>3, <3>4
    <3>7. WithBit(m, b) \in Numbers \ {Unset}
      BY <3>4 DEF Numbers, Unset
    <3>8. QED
      BY <2>2, <3>5, <3>6, <3>7
  <2>3. CASE b = FALSE
    <3>1. WithBit(m, b) = m
      BY <1>6, <2>3
    <3>2. Plain(m) = m
      BY <1>4, <2>1
    <3>3. ~HasBit(m)
      BY <1>2, <2>1
    <3>4. m \in Numbers \ {Unset}
      BY <2>1 DEF Numbers, Unset
    <3>5. QED
      BY <2>3, <3>1, <3>2, <3>3, <3>4
  <2>4. QED
    BY <2>2, <2>3
<1>9. ASSUME NEW b \in BOOLEAN
      PROVE  WithBit(n, b) = WithBit(Plain(n), b)
  BY <1>5, <1>6, <1>7
<1>10. QED
  BY <1>7, <1>8, <1>9

LEMMA ModeInitInv == ModeInit => ModeInv
  BY DEF ModeInit, ModeInv, WantedType, ModeStored, HardcoreStored, Unset,
         Numbers, Modes

LEMMA ModeNextInv == ModeInv /\ [ModeNext]_modeVars => ModeInv'
<1> SUFFICES ASSUME ModeInv, [ModeNext]_modeVars PROVE ModeInv'
  OBVIOUS
<1> USE DEF ModeInv, WantedType
<1>0. 0 \in Numbers \ {Unset}
  BY DEF Numbers, Unset
<1>1. ASSUME NEW value \in {0, 1, 3, 9}, SetGameMode(value) PROVE ModeInv'
  BY <1>1 DEF SetGameMode
<1>2. ASSUME NEW value \in Modes, SetPureGameMode(value) PROVE ModeInv'
  <2>1. WantedType'
    BY <1>2 DEF SetPureGameMode
  <2>2. CASE wanted.raw
    BY <1>2, <2>1, <2>2 DEF SetPureGameMode
  <2>3. CASE ~wanted.raw
    <3>1. /\ mode0' \in Numbers \ {Unset}
          /\ Plain(mode0') = value
          /\ HasBit(mode0') <=> HasBit(OrZero(mode0))
      <4>1. mode0' = WithBit(value, HasBit(OrZero(mode0)))
        BY <1>2 DEF SetPureGameMode
      <4>2. HasBit(OrZero(mode0)) \in BOOLEAN
        BY DEF HasBit
      <4>3. QED
        BY <1>0, <4>1, <4>2, BitsApart
    <3>2. ModeStored'
      BY <1>0, <1>2, <3>1, BitsApart DEF SetPureGameMode, ModeStored, Modes, Unset
    <3>3. HardcoreStored'
      BY <1>2, <2>3, <3>1 DEF SetPureGameMode, HardcoreStored, OrZero
    <3>4. QED
      BY <2>1, <3>1, <3>2, <3>3
  <2>4. QED
    BY <2>2, <2>3
<1>3. ASSUME NEW value \in BOOLEAN, SetIsHardcore(value) PROVE ModeInv'
  <2>1. WantedType'
    BY <1>3 DEF SetIsHardcore
  <2>2. CASE wanted.raw
    BY <1>3, <2>1, <2>2 DEF SetIsHardcore
  <2>3. CASE ~wanted.raw
    <3>1. OrZero(mode0) \in Numbers \ {Unset}
      BY <1>0, <2>3 DEF OrZero
    <3>2. /\ mode0' \in Numbers \ {Unset}
          /\ Plain(mode0') = Plain(OrZero(mode0))
          /\ HasBit(mode0') <=> value
      BY <1>3, <3>1, BitsApart DEF SetIsHardcore
    <3>3. ModeStored'
      BY <1>3, <2>3, <3>2 DEF SetIsHardcore, ModeStored, OrZero
    <3>4. HardcoreStored'
      BY <1>3, <3>2 DEF SetIsHardcore, HardcoreStored, Unset
    <3>5. QED
      BY <2>1, <3>2, <3>3, <3>4
  <2>4. QED
    BY <2>2, <2>3
<1>4. ASSUME DeleteIsHardcore PROVE ModeInv'
  <2>1. WantedType'
    BY <1>4 DEF DeleteIsHardcore
  <2>2. CASE wanted.raw
    BY <1>4, <2>1, <2>2 DEF DeleteIsHardcore
  <2>3. CASE ~wanted.raw
    <3>1. /\ mode0' \in Numbers
          /\ mode0 # Unset => mode0' # Unset /\ Plain(mode0') = Plain(mode0)
      <4>1. CASE mode0 = Unset
        BY <1>4, <4>1 DEF DeleteIsHardcore, Numbers
      <4>2. CASE mode0 # Unset
        BY <1>4, <2>3, <4>2, BitsApart
           DEF DeleteIsHardcore, Modes, Numbers, Unset
      <4>3. QED
        BY <4>1, <4>2
    <3>2. ModeStored'
      BY <1>4, <2>3, <3>1 DEF DeleteIsHardcore, ModeStored
    <3>3. HardcoreStored'
      BY <1>4 DEF DeleteIsHardcore, HardcoreStored, Unset
    <3>4. QED
      BY <2>1, <3>1, <3>2, <3>3
  <2>4. QED
    BY <2>2, <2>3
<1>5. ASSUME DeleteGameMode PROVE ModeInv'
  BY <1>5 DEF DeleteGameMode
<1>6. CASE UNCHANGED modeVars
  BY <1>6 DEF modeVars, ModeStored, HardcoreStored
<1>7. QED
  BY <1>1, <1>2, <1>3, <1>4, <1>5, <1>6 DEF ModeNext, Modes

\* What a program sets by pure_game_mode and is_hardcore it gets back, under
\* every version that the packet may be used with.
THEOREM ModesIndependent == ModeSpec => []ModesAreIndependent
<1>1. ModeInv => ModesAreIndependent
  BY DEF ModeInv, ModesAreIndependent, ModeStored, HardcoreStored,
         PureGameMode, IsHardcore, WantedType
<1>2. QED
  BY <1>1, ModeInitInv, ModeNextInv, PTL DEF ModeSpec
------------------------------------------------------------------------------
(* Maps.                                                                    *)

\* A number is its quotient and its remainder.
LEMMA DivMod ==
  ASSUME NEW n \in Nat, NEW d \in Nat \ {0}
  PROVE  /\ n \div d \in Nat
         /\ n % d \in 0..(d - 1)
         /\ n = d * (n \div d) + (n % d)
OBVIOUS

\* No other numbers are.
LEMMA DivModUnique ==
  ASSUME NEW d \in Nat \ {0}, NEW q \in Nat, NEW r \in 0..(d - 1)
  PROVE  /\ d * q + r \in Nat
         /\ (d * q + r) \div d = q
         /\ (d * q + r) % d = r
<1>1. d * q \in Nat /\ d * q + r \in Nat
  OBVIOUS
<1>2. PICK n \in Nat : n = d * q + r
  BY <1>1
<1>3. PICK p \in Nat, s \in 0..(d - 1) :
         n \div d = p /\ n % d = s /\ n = d * p + s
  BY DivMod
<1>4. ASSUME NEW a \in Nat, NEW b \in Nat, a < b PROVE d * a + d <= d * b
  <2>1. PICK k \in Nat : b = (a + 1) + k
    BY <1>4
  <2>2. d * b = (d * a + d) + d * k /\ d * k \in Nat /\ d * a \in Nat
    BY <2>1
  <2> QED
    BY <2>2
<1>5. d * p \in Nat
  OBVIOUS
<1>6. ~(p < q)
  BY <1>1, <1>2, <1>3, <1>4, <1>5
<1>7. ~(q < p)
  BY <1>1, <1>2, <1>3, <1>4, <1>5
<1>8. p = q
  BY <1>6, <1>7
<1> QED
  BY <1>1, <1>2, <1>3, <1>8
\* Multiplication by a number keeps the order.
LEMMA TimesKeepsOrder ==
  ASSUME NEW d \in Nat, NEW a \in Nat, NEW b \in Nat, a <= b
  PROVE  d * a \in Nat /\ d * b \in Nat /\ d * a <= d * b
<1>1. PICK k \in Nat : b = a + k
  OBVIOUS
<1>2. d * b = d * a + d * k /\ d * a \in Nat /\ d * k \in Nat
  BY <1>1
<1> QED
  BY <1>2

\* Pixel i of a part that is w pixels wide and h high and whose corner is
\* <<x, z>> lies in a column and row; a part covers a column and row, and that
\* pixel of it.
Located(i, w, x, z, col, row) == col = x + (i % w) /\ row = z + (i \div w)
Covered(w, h, x, z, col, row) ==
  col \in x..(x + w - 1) /\ row \in z..(z + h - 1)
Place(w, x, z, col, row) == w * (row - z) + (col - x)
Numbered(w, h, x, z, col, row) ==
  /\ w \in Nat \ {0} /\ h \in Nat \ {0}
  /\ x \in Nat /\ z \in Nat /\ col \in Nat /\ row \in Nat

\* A part of a map holds one pixel for each column and row that it covers, and
\* none for others.
LEMMA PartIndex ==
  ASSUME NEW w, NEW h, NEW x, NEW z, NEW col, NEW row,
         Numbered(w, h, x, z, col, row)
  PROVE  /\ \A i \in 0..(w * h - 1) :
              Located(i, w, x, z, col, row) =>
                /\ Covered(w, h, x, z, col, row)
                /\ i = Place(w, x, z, col, row)
         /\ Covered(w, h, x, z, col, row) =>
              /\ Place(w, x, z, col, row) \in 0..(w * h - 1)
              /\ Located(Place(w, x, z, col, row), w, x, z, col, row)
<1> DEFINE Hits(i) == Located(i, w, x, z, col, row)
           In == Covered(w, h, x, z, col, row)
           here == Place(w, x, z, col, row)
<1> USE DEF Located, Covered, Place, Numbered
<1>1. w * h \in Nat
  OBVIOUS
<1>2. ASSUME NEW i \in 0..(w * h - 1), Hits(i)
      PROVE  In /\ i = here
  <2>1. i \in Nat /\ i < w * h
    BY <1>1
  <2>2. PICK q \in Nat, r \in 0..(w - 1) :
           i \div w = q /\ i % w = r /\ i = w * q + r
    BY <2>1, DivMod
  <2>3. q < h
    <3> SUFFICES ASSUME h <= q PROVE FALSE
      OBVIOUS
    <3>1. w * h <= w * q /\ w * q \in Nat
      BY TimesKeepsOrder
    <3> QED
      BY <1>1, <2>1, <2>2, <3>1
  <2>4. col = x + r /\ row = z + q
    BY <1>2, <2>2
  <2>5. row - z = q /\ col - x = r
    BY <2>4
  <2>6. In
    BY <2>3, <2>4
  <2> QED
    BY <2>2, <2>5, <2>6
<1>3. ASSUME In
      PROVE  here \in 0..(w * h - 1) /\ Hits(here)
  <2>1. PICK q \in Nat, r \in 0..(w - 1) :
           row = z + q /\ col = x + r /\ q + 1 <= h
    <3>1. row - z \in Nat /\ col - x \in 0..(w - 1)
          /\ row = z + (row - z) /\ col = x + (col - x)
          /\ (row - z) + 1 <= h
      BY <1>3
    <3> QED
      BY <3>1
  <2>2. row - z = q /\ col - x = r
    BY <2>1
  <2>3. here = w * q + r
    BY <2>2
  <2>4. w * (q + 1) <= w * h
    BY <2>1, TimesKeepsOrder
  <2>5. w * (q + 1) = w * q + w /\ w * q \in Nat
    OBVIOUS
  <2>6. here \in 0..(w * h - 1)
    BY <1>1, <2>3, <2>4, <2>5
  <2>7. here \div w = q /\ here % w = r
    BY <2>3, DivModUnique
  <2> QED
    BY <2>1, <2>6, <2>7
<1> QED
  BY <1>2, <1>3

\* A packet for a part of the map that has one pixel of another colour in its
\* corner; the map after that part has been painted.
IsPart(packet, x, z, width, height, paint) ==
  /\ x \in Nat /\ z \in Nat /\ x < Size /\ z < Size
  /\ width \in Nat /\ height \in Nat /\ (width = 0 <=> height = 0)
  /\ packet.x = x /\ packet.z = z
  /\ packet.width = width /\ packet.height = height
  /\ packet.pixels = [i \in 0..(width * height - 1) |->
                        IF i = 0 THEN 1 - paint ELSE paint]

Painted(map, x, z, width, height, paint) ==
  [c \in Cells |->
     IF /\ c % Size \in x..(x + width - 1)
        /\ c \div Size \in z..(z + height - 1)
     THEN IF c = x + Size * z THEN 1 - paint ELSE paint
     ELSE map.pixels[c]]

\* What the server shows after painting a part is what the client has after
\* applying it.
LEMMA PartIsPainted ==
  ASSUME NEW map, map.pixels \in [Cells -> {0, 1}],
         NEW x, NEW z, NEW width, NEW height, NEW paint, NEW packet,
         IsPart(packet, x, z, width, height, paint)
  PROVE  ApplyPixels(map, packet) = Painted(map, x, z, width, height, paint)
<1> USE DEF IsPart, Painted
<1> DEFINE pixels == map.pixels
           Inside(c) == /\ c % Size \in x..(x + width - 1)
                       /\ c \div Size \in z..(z + height - 1)
           Colour(c) == IF c = x + Size * z THEN 1 - paint ELSE paint
           Parts(c) == {i \in 0..(width * height - 1) :
                          /\ c % Size = x + (i % width)
                          /\ c \div Size = z + (i \div width)}
           Picked(c) == CHOOSE j \in Parts(c) : \A k \in Parts(c) : j >= k
           Spot(c) == Place(width, x, z, c % Size, c \div Size)
           Pixel(i) == IF i = 0 THEN 1 - paint ELSE paint
<1>1. ASSUME NEW c \in Cells
      PROVE  /\ c \in Nat /\ c % Size \in Nat /\ c \div Size \in Nat
             /\ c % Size \in 0..(Size - 1)
             /\ c = Size * (c \div Size) + (c % Size)
  <2>1. c \in Nat
    BY DEF Cells
  <2>2. PICK d \in Nat \ {0} : d = Size
    BY SizeAssumption
  <2>3. /\ c \div d \in Nat
        /\ c % d \in 0..(d - 1)
        /\ c = d * (c \div d) + (c % d)
    BY <2>1, DivMod
  <2>4. c % d \in Nat
    BY <2>3
  <2> QED
    BY <2>1, <2>2, <2>3, <2>4
<1>2. CASE width = 0
  <2>1. \A c \in Cells : ~Inside(c)
    BY <1>1, <1>2
  <2>2. pixels = [c \in Cells |-> IF Inside(c) THEN Colour(c) ELSE pixels[c]]
    BY <2>1
  <2> QED
    BY <1>2, <2>2 DEF ApplyPixels
<1>3. CASE width # 0
  <2>1. width \in Nat \ {0} /\ height \in Nat \ {0} /\ x \in Nat /\ z \in Nat
    BY <1>3, SizeAssumption
  <2>2. ASSUME NEW c \in Cells
        PROVE  Parts(c) = IF Inside(c) THEN {Spot(c)} ELSE {}
    <3>1. PICK col \in Nat, row \in Nat : col = c % Size /\ row = c \div Size
      BY <1>1
    <3>2. /\ \A i \in 0..(width * height - 1) :
               Located(i, width, x, z, col, row) =>
                 /\ Covered(width, height, x, z, col, row)
                 /\ i = Place(width, x, z, col, row)
          /\ Covered(width, height, x, z, col, row) =>
               LET i == Place(width, x, z, col, row)
               IN  /\ i \in 0..(width * height - 1)
                   /\ Located(i, width, x, z, col, row)
      <4>1. Numbered(width, height, x, z, col, row)
        BY <2>1 DEF Numbered
      <4> QED
        BY <4>1, PartIndex
    <3> DEFINE place == Spot(c)
    <3>3. place = Place(width, x, z, col, row)
      BY <3>1
    <3>4. \A i \in Parts(c) : Inside(c) /\ i = place
      BY <3>1, <3>2, <3>3 DEF Located, Covered
    <3>5. Inside(c) => place \in Parts(c)
      BY <3>1, <3>2, <3>3 DEF Located, Covered
    <3> HIDE DEF Parts, Inside, place
    <3>6. Parts(c) = IF Inside(c) THEN {place} ELSE {}
      BY <3>4, <3>5
    <3> QED
      BY <3>6 DEF place
  <2>3. ASSUME NEW c \in Cells, Inside(c)
        PROVE  Spot(c) = 0 <=> c = x + Size * z
    <3>1. PICK q \in Nat, r \in Nat :
             c \div Size = z + q /\ c % Size = x + r
      <4>1. (c \div Size) - z \in Nat /\ (c % Size) - x \in Nat
        BY <1>1, <2>1, <2>3
      <4>2. /\ c \div Size = z + ((c \div Size) - z)
            /\ c % Size = x + ((c % Size) - x)
        BY <1>1, <2>1
      <4> QED
        BY <4>1, <4>2
    <3>2. Spot(c) = width * q + r
      BY <2>1, <3>1 DEF Place
    <3>3. width * q \in Nat /\ (q # 0 => width * q >= width)
      <4>1. ASSUME q # 0 PROVE width * 1 <= width * q
        BY <2>1, <4>1, TimesKeepsOrder
      <4> QED
        BY <2>1, <4>1
    <3>4. Spot(c) = 0 <=> q = 0 /\ r = 0
      BY <2>1, <3>2, <3>3
    <3>5. ASSUME q = 0, r = 0 PROVE c = x + Size * z
      <4>1. c = Size * z + x
        BY <1>1, <2>1, <3>1, <3>5
      <4>2. Size * z \in Nat
        BY <2>1, SizeAssumption
      <4> QED
        BY <2>1, <4>1, <4>2
    <3>6. ASSUME c = x + Size * z PROVE q = 0 /\ r = 0
      <4>1. Size * z \in Nat
        BY <2>1, SizeAssumption
      <4>2. c = Size * z + x
        BY <2>1, <3>6, <4>1
      <4>3. c \div Size = z /\ c % Size = x
        <5>1. PICK d \in Nat \ {0} : d = Size
          BY SizeAssumption
        <5>2. x \in 0..(d - 1)
          BY <5>1
        <5>3. (d * z + x) \div d = z /\ (d * z + x) % d = x
          BY <5>2, DivModUnique
        <5> QED
          BY <4>2, <5>1, <5>3
      <4> QED
        BY <2>1, <3>1, <4>3
    <3> QED
      BY <3>4, <3>5, <3>6
  <2> HIDE DEF Parts, Spot, Inside
  <2>4. ASSUME NEW c \in Cells
        PROVE  (IF Parts(c) = {} THEN pixels[c] ELSE packet.pixels[Picked(c)])
                 = IF Inside(c) THEN Colour(c) ELSE pixels[c]
    <3>1. CASE ~Inside(c)
      BY <2>2, <3>1
    <3>2. CASE Inside(c)
      <4>1. Parts(c) = {Spot(c)}
        BY <2>2, <3>2
      <4>2. Spot(c) \in 0..(width * height - 1)
        BY <4>1 DEF Parts
      <4>3. Spot(c) >= Spot(c)
        BY <4>2
      <4>4. Picked(c) = Spot(c)
        BY <4>1, <4>3
      <4>5. packet.pixels[Spot(c)] = Pixel(Spot(c))
        BY <4>2
      <4>6. Pixel(Spot(c)) = Colour(c)
        BY <2>3, <3>2
      <4> QED
        BY <3>2, <4>1, <4>4, <4>5, <4>6
    <3> QED
      BY <3>1, <3>2
  <2>5. ApplyPixels(map, packet)
          = [c \in Cells |-> IF Parts(c) = {} THEN pixels[c]
                             ELSE packet.pixels[Picked(c)]]
    BY <1>3 DEF ApplyPixels, Column, Row, Parts
  <2>6. ApplyPixels(map, packet)
          = [c \in Cells |-> IF Inside(c) THEN Colour(c) ELSE pixels[c]]
    BY <2>4, <2>5
  <2> QED
    BY <2>6 DEF Inside
<1> QED
  BY <1>2, <1>3

\* The client has no map yet and the server's is new, or they are equal.
Maps == [there : {TRUE}, pixels : [Cells -> {0, 1}],
         is_tracking_position : BOOLEAN, is_locked : BOOLEAN, icons : {0, 1}]

MapInv ==
  /\ serverMap \in Maps
  /\ \/ clientMap = None /\ serverMap = NewMap
     \/ clientMap = serverMap

\* UpdateMap does to the client's map what it does to the server's.
LEMMA UpdateMapInv == MapInv /\ UpdateMap => MapInv'
<1> SUFFICES ASSUME MapInv, UpdateMap PROVE MapInv'
  OBVIOUS
<1>1. PICK x \in 0..(Size - 1), z \in 0..(Size - 1),
           width \in 0..Size, height \in 0..Size, paint \in {0, 1},
           track \in BOOLEAN, lock \in BOOLEAN, icons \in {0, 1} :
        LET Inside(c) == /\ c % Size \in x..(x + width - 1)
                         /\ c \div Size \in z..(z + height - 1)
            Colour(c) == IF c = x + Size * z THEN 1 - paint ELSE paint
            packet ==
              [width |-> width, height |-> height, x |-> x, z |-> z,
               pixels |-> [i \in 0..(width * height - 1) |->
                             IF i = 0 THEN 1 - paint ELSE paint],
               is_tracking_position |-> track, is_locked |-> lock,
               icons |-> icons]
        IN  /\ x + width <= Size /\ z + height <= Size
            /\ width = 0 <=> height = 0
            /\ Earlier(mapVersion, 107) => track
            /\ lock => LaterEq(mapVersion, 452)
            /\ serverMap' =
                 [serverMap EXCEPT
                    !.pixels = [c \in Cells |->
                                  IF Inside(c) THEN Colour(c) ELSE @[c]],
                    !.is_tracking_position = track, !.is_locked = lock,
                    !.icons = icons]
            /\ ApplyToMapSet(packet)
            /\ UNCHANGED mapVersion
  BY DEF UpdateMap
<1> DEFINE old == serverMap.pixels
           new == [c \in Cells |->
                     IF /\ c % Size \in x..(x + width - 1)
                        /\ c \div Size \in z..(z + height - 1)
                     THEN IF c = x + Size * z THEN 1 - paint ELSE paint
                     ELSE old[c]]
           read == [width |-> width, height |-> height, x |-> x, z |-> z,
                    pixels |-> [i \in 0..(width * height - 1) |->
                                  IF i = 0 THEN 1 - paint ELSE paint],
                    is_tracking_position |-> track, is_locked |-> lock,
                    icons |-> icons]
           map == IF clientMap.there THEN clientMap ELSE NewMap
<1>2. map = serverMap
  <2>1. CASE clientMap = None /\ serverMap = NewMap
    BY <2>1 DEF None
  <2>2. CASE clientMap = serverMap
    <3>1. serverMap.there = TRUE
      BY DEF MapInv, Maps
    <3> QED
      BY <2>2, <3>1
  <2> QED
    BY <2>1, <2>2 DEF MapInv
<1>3. old \in [Cells -> {0, 1}]
  BY DEF MapInv, Maps
<1>4. new \in [Cells -> {0, 1}]
  BY <1>3
<1>5. serverMap' = [serverMap EXCEPT !.pixels = new,
                      !.is_tracking_position = track, !.is_locked = lock,
                      !.icons = icons]
  BY <1>1
<1>6. /\ (track \/ Earlier(mapVersion, 107)) = track
      /\ (lock /\ LaterEq(mapVersion, 452)) = lock
  BY <1>1, Zenon
<1>7. [read EXCEPT !.is_tracking_position = @ \/ Earlier(mapVersion, 107),
                   !.is_locked = @ /\ LaterEq(mapVersion, 452)] = read
  <2>1. read.is_tracking_position = track /\ read.is_locked = lock
    OBVIOUS
  <2> HIDE DEF read
  <2>2. [read EXCEPT !.is_tracking_position = track, !.is_locked = lock] = read
    BY <2>1 DEF read
  <2> QED
    BY <1>6, <2>1, <2>2, Zenon
<1>8. clientMap' = ApplyToMap(map, read)
  BY <1>1, <1>7 DEF ApplyToMapSet
<1>9. ApplyPixels(serverMap, read) = new
  <2>1. /\ x \in Nat /\ z \in Nat /\ x < Size /\ z < Size
        /\ width \in Nat /\ height \in Nat /\ (width = 0 <=> height = 0)
    BY <1>1, SizeAssumption
  <2>2. IsPart(read, x, z, width, height, paint)
    BY <2>1 DEF IsPart
  <2>3. ApplyPixels(serverMap, read)
          = Painted(serverMap, x, z, width, height, paint)
    <3> HIDE DEF read
    <3> QED
      BY <1>3, <2>2, PartIsPainted
  <2> QED
    BY <2>3, Zenon DEF Painted
<1>10. clientMap' = [serverMap EXCEPT !.pixels = new,
                       !.is_tracking_position = track, !.is_locked = lock,
                       !.icons = icons]
  BY <1>2, <1>8, <1>9 DEF ApplyToMap
<1>11. serverMap' \in Maps
  BY <1>4, <1>5 DEF MapInv, Maps
<1> QED
  BY <1>5, <1>10, <1>11 DEF MapInv

\* Whatever parts a server sends of a map of any size, the client's map is
\* afterwards the server's.
THEOREM MapsAreEqual == MapSpec => []MapsAgree
<1>1. MapInit => MapInv
  BY DEF MapInit, MapInv, Maps, NewMap
<1>2. MapInv /\ [UpdateMap]_mapVars => MapInv'
  BY UpdateMapInv DEF MapInv, mapVars
<1>3. MapInv => MapsAgree
  BY DEF MapInv, MapsAgree, None
<1> QED
  BY <1>1, <1>2, <1>3, PTL DEF MapSpec

-----------------------------------------------------------------------------
(* The player list: the loop of apply.                                      *)

\* f holds the list after 0, 1, ..., b of the actions s.
Applied(list, s, b, f) ==
  f = [i \in 0..b |-> IF i = 0 THEN list ELSE Apply(f[i - 1], s[i])]

\* What a packet without actions, with one and with two of them does.
LEMMA FirstApplied ==
  ASSUME NEW list, NEW s
  PROVE  /\ s = <<>> => ApplyAll(list, s) = list
         /\ Len(s) = 1 => ApplyAll(list, s) = Apply(list, s[1])
         /\ Len(s) = 2 => ApplyAll(list, s) = Apply(Apply(list, s[1]), s[2])
<1> DEFINE one == Apply(list, s[1])
           two == Apply(one, s[2])
           F == CHOOSE f : Applied(list, s, Len(s), f)
<1>1. ApplyAll(list, s) = F[Len(s)]
  BY Zenon DEF ApplyAll, Applied
<1> HIDE DEF one, two, F
<1>2. ASSUME Len(s) = 0 PROVE F[0] = list
  <2>1. Applied(list, s, 0, [i \in 0..0 |-> list])
    BY DEF Applied
  <2>2. Applied(list, s, 0, F)
    BY <1>2, <2>1 DEF F
  <2> QED
    BY <2>2 DEF Applied
<1>3. ASSUME Len(s) = 1 PROVE F[1] = one
  <2> DEFINE g == [i \in 0..1 |-> IF i = 0 THEN list ELSE one]
  <2>1. Applied(list, s, 1, g)
    <3>1. \A i \in 0..1 : g[i] = IF i = 0 THEN list ELSE Apply(g[i - 1], s[i])
      BY DEF one
    <3> QED
      BY <3>1 DEF Applied
  <2>2. Applied(list, s, 1, F)
    BY <1>3, <2>1 DEF F
  <2>3. F[0] = list /\ F[1] = Apply(F[0], s[1])
    BY <2>2 DEF Applied
  <2> QED
    BY <2>3 DEF one
<1>4. ASSUME Len(s) = 2 PROVE F[2] = two
  <2> DEFINE g == [i \in 0..2 |-> IF i = 0 THEN list ELSE IF i = 1 THEN one ELSE two]
  <2>1. Applied(list, s, 2, g)
    <3>1. \A i \in 0..2 : g[i] = IF i = 0 THEN list ELSE Apply(g[i - 1], s[i])
      BY DEF one, two
    <3> QED
      BY <3>1 DEF Applied
  <2>2. Applied(list, s, 2, F)
    BY <1>4, <2>1 DEF F
  <2>3. F[0] = list /\ F[1] = Apply(F[0], s[1]) /\ F[2] = Apply(F[1], s[2])
    BY <2>2 DEF Applied
  <2> QED
    BY <2>3 DEF one, two
<1> QED
  BY <1>1, <1>2, <1>3, <1>4 DEF one, two

\* Actions, no more than there are types: g holds the list after each.
LEMMA StepsApplied ==
  ASSUME NEW list, NEW s, Len(s) \in 0..9, NEW g, g[0] = list,
         \A i \in 1..Len(s) : g[i] = Apply(g[i - 1], s[i])
  PROVE  ApplyAll(list, s) = g[Len(s)]
<1> DEFINE F == CHOOSE f : Applied(list, s, Len(s), f)
           h == [i \in 0..Len(s) |-> g[i]]
<1>1. ApplyAll(list, s) = F[Len(s)]
  BY Zenon DEF ApplyAll, Applied
<1>2. Applied(list, s, Len(s), h)
  <2>1. \A i \in 0..Len(s) : h[i] = IF i = 0 THEN list ELSE Apply(h[i - 1], s[i])
    <3> SUFFICES ASSUME NEW i \in 0..Len(s)
                 PROVE  h[i] = IF i = 0 THEN list ELSE Apply(h[i - 1], s[i])
      OBVIOUS
    <3>1. CASE i = 0
      BY <3>1
    <3>2. CASE i # 0
      <4>1. i \in 1..Len(s) /\ i - 1 \in 0..Len(s)
        BY <3>2
      <4>2. h[i] = g[i] /\ h[i - 1] = g[i - 1]
        BY <4>1
      <4>3. g[i] = Apply(g[i - 1], s[i])
        BY <4>1
      <4> QED
        BY <3>2, <4>2, <4>3
    <3> QED
      BY <3>1, <3>2
  <2> QED
    BY <2>1 DEF Applied
<1>3. Applied(list, s, Len(s), F)
  BY <1>2, Zenon
<1> HIDE DEF F
<1> DEFINE Same(i) == i <= Len(s) => F[i] = g[i]
<1>4. Same(0)
  BY <1>3 DEF Applied
<1>5. \A i \in 0..8 : Same(i) => Same(i + 1)
  <2> SUFFICES ASSUME NEW i \in 0..8, i + 1 <= Len(s), F[i] = g[i]
               PROVE  F[i + 1] = g[i + 1]
    OBVIOUS
  <2>1. /\ i + 1 \in 0..Len(s) /\ i + 1 \in 1..Len(s)
        /\ i + 1 # 0 /\ (i + 1) - 1 = i
    OBVIOUS
  <2>2. \A k \in 0..Len(s) : F[k] = IF k = 0 THEN list ELSE Apply(F[k - 1], s[k])
    BY <1>3 DEF Applied
  <2>3. F[i + 1] = Apply(F[i], s[i + 1])
    BY <2>1, <2>2
  <2>4. g[i + 1] = Apply(g[i], s[i + 1])
    BY <2>1
  <2> QED
    BY <2>3, <2>4
<1>6. Same(1) /\ Same(2) /\ Same(3)
  BY <1>4, <1>5
<1>7. Same(4) /\ Same(5) /\ Same(6)
  BY <1>5, <1>6
<1>8. Same(7) /\ Same(8) /\ Same(9)
  BY <1>5, <1>7
<1>9. Same(Len(s))
  <2> HIDE DEF Same
  <2> QED
    <3>1. \/ Len(s) = 0 \/ Len(s) = 1 \/ Len(s) = 2 \/ Len(s) = 3 \/ Len(s) = 4
          \/ Len(s) = 5 \/ Len(s) = 6 \/ Len(s) = 7 \/ Len(s) = 8 \/ Len(s) = 9
      OBVIOUS
    <3> QED
      BY <1>4, <1>6, <1>7, <1>8, <3>1, Zenon
<1> QED
  BY <1>1, <1>9

-----------------------------------------------------------------------------
(* The masks.                                                               *)

\* What the order of versions says of the branches.
LEMMA VersionFacts ==
  ASSUME NEW v \in ListVersions
  PROVE  /\ LaterEq(v, 761) <=> ~Earlier(v, 761)
         /\ LaterEq(v, 768) <=> ~Earlier(v, 768)
         /\ LaterEq(v, 769) => LaterEq(v, 768)
BY ListVersionsAssumption DEF LaterEq, EarlierEq, Earlier

\* x is in the sequence s.
Occurs(x, s) == \E i \in DOMAIN s : s[i] = x

\* Sequences that are joined have the elements of both.
LEMMA OccursConcat ==
  ASSUME NEW S, NEW s \in Seq(S), NEW t \in Seq(S), NEW x
  PROVE  /\ s \o t \in Seq(S)
         /\ Occurs(x, s \o t) <=> Occurs(x, s) \/ Occurs(x, t)
<1>1. /\ s \o t \in Seq(S)
      /\ Len(s) \in Nat /\ Len(t) \in Nat
      /\ DOMAIN s = 1..Len(s) /\ DOMAIN t = 1..Len(t)
      /\ DOMAIN (s \o t) = 1..(Len(s) + Len(t))
      /\ \A i \in 1..Len(s) : (s \o t)[i] = s[i]
      /\ \A i \in 1..Len(t) : (s \o t)[Len(s) + i] = t[i]
  OBVIOUS
<1>2. ASSUME Occurs(x, s \o t) PROVE Occurs(x, s) \/ Occurs(x, t)
  <2>1. PICK i \in 1..(Len(s) + Len(t)) : (s \o t)[i] = x
    BY <1>1, <1>2 DEF Occurs
  <2>2. CASE i <= Len(s)
    <3>1. i \in 1..Len(s) /\ s[i] = x
      BY <1>1, <2>1, <2>2
    <3> QED
      BY <1>1, <3>1 DEF Occurs
  <2>3. CASE i > Len(s)
    <3>1. i - Len(s) \in 1..Len(t) /\ Len(s) + (i - Len(s)) = i
      BY <1>1, <2>1, <2>3
    <3>2. t[i - Len(s)] = x
      BY <1>1, <2>1, <3>1
    <3> QED
      BY <1>1, <3>1, <3>2 DEF Occurs
  <2> QED
    BY <1>1, <2>1, <2>2, <2>3
<1>3. ASSUME Occurs(x, s) PROVE Occurs(x, s \o t)
  BY <1>1, <1>3 DEF Occurs
<1>4. ASSUME Occurs(x, t) PROVE Occurs(x, s \o t)
  <2>1. PICK i \in 1..Len(t) : t[i] = x
    BY <1>1, <1>4 DEF Occurs
  <2>2. Len(s) + i \in 1..(Len(s) + Len(t)) /\ (s \o t)[Len(s) + i] = x
    BY <1>1, <2>1
  <2> QED
    BY <1>1, <2>2 DEF Occurs
<1> QED
  BY <1>1, <1>2, <1>3, <1>4

\* A sequence of one element, and the empty one.
LEMMA OneOccurs ==
  ASSUME NEW S, NEW y \in S, NEW x
  PROVE  /\ <<y>> \in Seq(S) /\ <<>> \in Seq(S)
         /\ Occurs(x, <<y>>) <=> x = y
         /\ ~Occurs(x, <<>>)
<1>1. <<y>> \in Seq(S) /\ <<>> \in Seq(S)
  OBVIOUS
<1>2. ~Occurs(x, <<>>)
  BY DEF Occurs
<1>3. DOMAIN <<y>> = 1..1 /\ <<y>>[1] = y
  OBVIOUS
<1>4. Occurs(x, <<y>>) <=> x = y
  <2>1. ASSUME Occurs(x, <<y>>) PROVE x = y
    BY <1>3, <2>1 DEF Occurs
  <2>2. ASSUME x = y PROVE Occurs(x, <<y>>)
    <3>1. 1 \in DOMAIN <<y>> /\ <<y>>[1] = x
      BY <1>3, <2>2
    <3> QED
      BY <3>1, Zenon DEF Occurs
  <2> QED
    BY <2>1, <2>2
<1> QED
  BY <1>1, <1>2, <1>4

\* A part that is there under a condition.
LEMMA OccursPresent ==
  ASSUME NEW S, NEW c, NEW y \in S, NEW x
  PROVE  /\ Present(c, y) \in Seq(S)
         /\ Occurs(x, Present(c, y)) <=> c /\ x = y
<1>1. CASE c
  <2>1. Present(c, y) = <<y>>
    BY <1>1, Zenon DEF Present
  <2> QED
    <3>1. <<y>> \in Seq(S) /\ (Occurs(x, <<y>>) <=> x = y)
      BY OneOccurs
    <3> QED
      BY <1>1, <2>1, <3>1, Zenon
<1>2. CASE ~c
  <2>1. Present(c, y) = <<>>
    BY <1>2, Zenon DEF Present
  <2> QED
    BY <1>2, <2>1, OneOccurs, Zenon
<1> QED
  BY <1>1, <1>2

\* The fields of an entry.
Fields == {"name", "chat_session", "gamemode", "listed", "ping",
           "display_name", "list_priority", "show_hat"}

\* What is written for a mask is what is read for it, place by place.
LEMMA SameOrder ==
  ASSUME NEW v, NEW mask PROVE ReadOrder(v, mask) = WriteOrder(v, mask)
BY DEF ReadOrder, WriteOrder

\* The fields of a list entry are written if their bits are in the mask.
LEMMA FieldsWritten ==
  ASSUME NEW v, NEW mask
  PROVE  LET order == WriteOrder(v, mask) IN
         /\ order \in Seq(Fields)
         /\ 4 \in mask => Occurs("gamemode", order)
         /\ 16 \in mask => Occurs("ping", order)
         /\ 32 \in mask => Occurs("display_name", order)
<1> DEFINE c7 == LaterEq(v, 768) /\ ListOrderBit(v) \in mask
           c8 == LaterEq(v, 769) /\ 64 \in mask
           p1 == Present(1 \in mask, "name")
           p2 == Present(2 \in mask, "chat_session")
           p3 == Present(4 \in mask, "gamemode")
           p4 == Present(8 \in mask, "listed")
           p5 == Present(16 \in mask, "ping")
           p6 == Present(32 \in mask, "display_name")
           p7 == Present(c7, "list_priority")
           p8 == Present(c8, "show_hat")
           s2 == p1 \o p2
           s3 == s2 \o p3
           s4 == s3 \o p4
           s5 == s4 \o p5
           s6 == s5 \o p6
           s7 == s6 \o p7
           s8 == s7 \o p8
<1>1. WriteOrder(v, mask) = s8
  BY Zenon DEF WriteOrder
<1>2. /\ "name" \in Fields /\ "chat_session" \in Fields
      /\ "gamemode" \in Fields /\ "listed" \in Fields /\ "ping" \in Fields
      /\ "display_name" \in Fields /\ "list_priority" \in Fields
      /\ "show_hat" \in Fields
  BY DEF Fields
<1>3. /\ p1 \in Seq(Fields) /\ p2 \in Seq(Fields) /\ p3 \in Seq(Fields)
      /\ p4 \in Seq(Fields) /\ p5 \in Seq(Fields) /\ p6 \in Seq(Fields)
      /\ p7 \in Seq(Fields) /\ p8 \in Seq(Fields)
  BY <1>2, OccursPresent, Zenon
<1>4. /\ 4 \in mask => Occurs("gamemode", p3)
      /\ 16 \in mask => Occurs("ping", p5)
      /\ 32 \in mask => Occurs("display_name", p6)
  BY <1>2, OccursPresent, Zenon
<1> HIDE DEF p1, p2, p3, p4, p5, p6, p7, p8, c7, c8
<1>5. s2 \in Seq(Fields) /\ s3 \in Seq(Fields)
  BY <1>3
<1>6. 4 \in mask => Occurs("gamemode", s3)
  BY <1>3, <1>4, <1>5, OccursConcat
<1> HIDE DEF s3
<1>7. s4 \in Seq(Fields) /\ s5 \in Seq(Fields)
  BY <1>3, <1>5
<1>8. /\ 4 \in mask => Occurs("gamemode", s5)
      /\ 16 \in mask => Occurs("ping", s5)
  BY <1>3, <1>4, <1>5, <1>6, <1>7, OccursConcat
<1> HIDE DEF s5
<1>9. s6 \in Seq(Fields) /\ s7 \in Seq(Fields) /\ s8 \in Seq(Fields)
  BY <1>3, <1>7
<1>10. /\ 4 \in mask => Occurs("gamemode", s8)
       /\ 16 \in mask => Occurs("ping", s8)
       /\ 32 \in mask => Occurs("display_name", s8)
  BY <1>3, <1>4, <1>7, <1>8, <1>9, OccursConcat
<1> QED
  BY <1>1, <1>9, <1>10

\* The types of actions that an entry may be read as.
Types == {"RemovePlayer", "AddPlayer", "InitializeChat", "UpdateGameMode",
          "UpdateListed", "UpdateLatency", "UpdateDisplayName",
          "UpdateListOrder", "UpdateHat"}

\* The condition under which _read_bitmask makes an action of a type.
Asked(v, mask, type) ==
  CASE type = "RemovePlayer" -> SaysRemove(v, mask)
    [] type = "AddPlayer" -> 1 \in mask
    [] type = "InitializeChat" -> 2 \in mask
    [] type = "UpdateGameMode" -> 4 \in mask /\ 1 \notin mask
    [] type = "UpdateListed" -> 8 \in mask
    [] type = "UpdateLatency" -> 16 \in mask /\ 1 \notin mask
    [] type = "UpdateDisplayName" -> 32 \in mask /\ 1 \notin mask
    [] type = "UpdateListOrder" -> LaterEq(v, 768) /\ ListOrderBit(v) \in mask
    [] type = "UpdateHat" -> LaterEq(v, 769) /\ 64 \in mask

\* How many a condition adds.
One(c) == IF c THEN 1 ELSE 0

\* It is no more than one.
LEMMA OneIsSmall == ASSUME NEW c PROVE One(c) \in 0..1
BY DEF One

\* A part adds one element or none.
LEMMA PresentLength ==
  ASSUME NEW c, NEW y
  PROVE  Len(Present(c, y)) = One(c) /\ One(c) \in 0..1
<1>1. CASE c
  <2>1. Present(c, y) = <<y>> /\ One(c) = 1
    BY <1>1, Zenon DEF Present, One
  <2> QED
    BY <2>1
<1>2. CASE ~c
  <2>1. Present(c, y) = <<>> /\ One(c) = 0
    BY <1>2, Zenon DEF Present, One
  <2> QED
    BY <2>1
<1> QED
  BY <1>1, <1>2

\* The actions that are made of an entry are those that the mask asks for.
LEMMA ActionsMade ==
  ASSUME NEW v, NEW mask
  PROVE  LET types == ActionsOfMask(v, mask) IN
         /\ types \in Seq(Types)
         /\ Len(types) = One(Asked(v, mask, "RemovePlayer"))
              + One(Asked(v, mask, "AddPlayer"))
              + One(Asked(v, mask, "InitializeChat"))
              + One(Asked(v, mask, "UpdateGameMode"))
              + One(Asked(v, mask, "UpdateListed"))
              + One(Asked(v, mask, "UpdateLatency"))
              + One(Asked(v, mask, "UpdateDisplayName"))
              + One(Asked(v, mask, "UpdateListOrder"))
              + One(Asked(v, mask, "UpdateHat"))
         /\ \A x \in Types : Occurs(x, types) <=> Asked(v, mask, x)
<1> DEFINE Q(x) == Present(Asked(v, mask, x), x)
           q1 == Q("RemovePlayer")
           q2 == Q("AddPlayer")
           q3 == Q("InitializeChat")
           q4 == Q("UpdateGameMode")
           q5 == Q("UpdateListed")
           q6 == Q("UpdateLatency")
           q7 == Q("UpdateDisplayName")
           q8 == Q("UpdateListOrder")
           q9 == Q("UpdateHat")
           t2 == q1 \o q2
           t3 == t2 \o q3
           t4 == t3 \o q4
           t5 == t4 \o q5
           t6 == t5 \o q6
           t7 == t6 \o q7
           t8 == t7 \o q8
           t9 == t8 \o q9
<1>1. ActionsOfMask(v, mask) = t9
  BY DEF ActionsOfMask, Asked
<1>2. \A y \in Types : /\ Q(y) \in Seq(Types)
                        /\ Len(Q(y)) = One(Asked(v, mask, y))
                        /\ \A x : Occurs(x, Q(y)) <=> Asked(v, mask, y) /\ x = y
  BY OccursPresent, PresentLength, Zenon
<1> HIDE DEF Q
<1>3. /\ q1 \in Seq(Types)
      /\ q2 \in Seq(Types)
      /\ q3 \in Seq(Types)
      /\ q4 \in Seq(Types)
      /\ q5 \in Seq(Types)
      /\ q6 \in Seq(Types)
      /\ q7 \in Seq(Types)
      /\ q8 \in Seq(Types)
      /\ q9 \in Seq(Types)
  BY <1>2 DEF Types
<1>4. /\ Len(q1) = One(Asked(v, mask, "RemovePlayer"))
      /\ Len(q2) = One(Asked(v, mask, "AddPlayer"))
      /\ Len(q3) = One(Asked(v, mask, "InitializeChat"))
      /\ Len(q4) = One(Asked(v, mask, "UpdateGameMode"))
      /\ Len(q5) = One(Asked(v, mask, "UpdateListed"))
      /\ Len(q6) = One(Asked(v, mask, "UpdateLatency"))
      /\ Len(q7) = One(Asked(v, mask, "UpdateDisplayName"))
      /\ Len(q8) = One(Asked(v, mask, "UpdateListOrder"))
      /\ Len(q9) = One(Asked(v, mask, "UpdateHat"))
  BY <1>2 DEF Types
<1>5. \A x : /\ Occurs(x, q1) <=>
                  Asked(v, mask, "RemovePlayer") /\ x = "RemovePlayer"
             /\ Occurs(x, q2) <=>
                  Asked(v, mask, "AddPlayer") /\ x = "AddPlayer"
             /\ Occurs(x, q3) <=>
                  Asked(v, mask, "InitializeChat") /\ x = "InitializeChat"
             /\ Occurs(x, q4) <=>
                  Asked(v, mask, "UpdateGameMode") /\ x = "UpdateGameMode"
             /\ Occurs(x, q5) <=>
                  Asked(v, mask, "UpdateListed") /\ x = "UpdateListed"
             /\ Occurs(x, q6) <=>
                  Asked(v, mask, "UpdateLatency") /\ x = "UpdateLatency"
             /\ Occurs(x, q7) <=>
                  Asked(v, mask, "UpdateDisplayName") /\ x = "UpdateDisplayName"
             /\ Occurs(x, q8) <=>
                  Asked(v, mask, "UpdateListOrder") /\ x = "UpdateListOrder"
             /\ Occurs(x, q9) <=>
                  Asked(v, mask, "UpdateHat") /\ x = "UpdateHat"
  BY <1>2 DEF Types
<1> HIDE DEF q1, q2, q3, q4, q5, q6, q7, q8, q9
<1>6. /\ t2 \in Seq(Types)
      /\ t3 \in Seq(Types)
      /\ t4 \in Seq(Types)
      /\ t5 \in Seq(Types)
  BY <1>3
<1>7. Len(t5) = Len(q1) + Len(q2) + Len(q3) + Len(q4) + Len(q5)
  BY <1>3, <1>6
<1>8. \A x : Occurs(x, t5) <=> \/ Occurs(x, q1)
              \/ Occurs(x, q2)
              \/ Occurs(x, q3)
              \/ Occurs(x, q4)
              \/ Occurs(x, q5)
  <2> TAKE x
  <2>9. /\ t2 = q1 \o q2
        /\ t3 = t2 \o q3
        /\ t4 = t3 \o q4
        /\ t5 = t4 \o q5
    OBVIOUS
  <2> HIDE DEF t2, t3, t4, t5
  <2>1. Occurs(x, q1 \o q2) <=> Occurs(x, q1) \/ Occurs(x, q2)
    BY <1>3, <1>6, OccursConcat
  <2>2. Occurs(x, t2 \o q3) <=> Occurs(x, t2) \/ Occurs(x, q3)
    BY <1>3, <1>6, OccursConcat
  <2>3. Occurs(x, t3 \o q4) <=> Occurs(x, t3) \/ Occurs(x, q4)
    BY <1>3, <1>6, OccursConcat
  <2>4. Occurs(x, t4 \o q5) <=> Occurs(x, t4) \/ Occurs(x, q5)
    BY <1>3, <1>6, OccursConcat
  <2> QED
    BY <2>1, <2>2, <2>3, <2>4, <2>9, Zenon
<1> HIDE DEF t5
<1>9. /\ t6 \in Seq(Types)
      /\ t7 \in Seq(Types)
      /\ t8 \in Seq(Types)
      /\ t9 \in Seq(Types)
  BY <1>3, <1>6
<1>10. Len(t9) = Len(t5) + Len(q6) + Len(q7) + Len(q8) + Len(q9)
  BY <1>3, <1>6, <1>9
<1>11. \A x : Occurs(x, t9) <=> \/ Occurs(x, t5)
              \/ Occurs(x, q6)
              \/ Occurs(x, q7)
              \/ Occurs(x, q8)
              \/ Occurs(x, q9)
  <2> TAKE x
  <2>9. /\ t6 = t5 \o q6
        /\ t7 = t6 \o q7
        /\ t8 = t7 \o q8
        /\ t9 = t8 \o q9
    OBVIOUS
  <2> HIDE DEF t6, t7, t8, t9
  <2>1. Occurs(x, t5 \o q6) <=> Occurs(x, t5) \/ Occurs(x, q6)
    BY <1>3, <1>6, <1>9, OccursConcat
  <2>2. Occurs(x, t6 \o q7) <=> Occurs(x, t6) \/ Occurs(x, q7)
    BY <1>3, <1>6, <1>9, OccursConcat
  <2>3. Occurs(x, t7 \o q8) <=> Occurs(x, t7) \/ Occurs(x, q8)
    BY <1>3, <1>6, <1>9, OccursConcat
  <2>4. Occurs(x, t8 \o q9) <=> Occurs(x, t8) \/ Occurs(x, q9)
    BY <1>3, <1>6, <1>9, OccursConcat
  <2> QED
    BY <2>1, <2>2, <2>3, <2>4, <2>9, Zenon
<1> HIDE DEF t9
<1>12. ASSUME NEW x \in Types
       PROVE  Occurs(x, t9) <=> Asked(v, mask, x)
  BY <1>5, <1>8, <1>11 DEF Types
<1>13. \A y \in Types : One(Asked(v, mask, y)) \in 0..1
  BY PresentLength
<1>14. Len(t9) = One(Asked(v, mask, "RemovePlayer"))
              + One(Asked(v, mask, "AddPlayer"))
              + One(Asked(v, mask, "InitializeChat"))
              + One(Asked(v, mask, "UpdateGameMode"))
              + One(Asked(v, mask, "UpdateListed"))
              + One(Asked(v, mask, "UpdateLatency"))
              + One(Asked(v, mask, "UpdateDisplayName"))
              + One(Asked(v, mask, "UpdateListOrder"))
              + One(Asked(v, mask, "UpdateHat"))
  BY <1>4, <1>7, <1>10
<1> QED
  BY <1>1, <1>9, <1>12, <1>14

\* The conditions, type by type.
LEMMA AskedCases ==
  ASSUME NEW v, NEW mask
  PROVE  /\ Asked(v, mask, "RemovePlayer") <=> 64 \in mask /\ Earlier(v, 768)
         /\ Asked(v, mask, "AddPlayer") <=> 1 \in mask
         /\ Asked(v, mask, "InitializeChat") <=> 2 \in mask
         /\ Asked(v, mask, "UpdateGameMode") <=> 4 \in mask /\ 1 \notin mask
         /\ Asked(v, mask, "UpdateListed") <=> 8 \in mask
         /\ Asked(v, mask, "UpdateLatency") <=> 16 \in mask /\ 1 \notin mask
         /\ Asked(v, mask, "UpdateDisplayName") <=> 32 \in mask /\ 1 \notin mask
         /\ Asked(v, mask, "UpdateListOrder") <=>
              LaterEq(v, 768) /\ ListOrderBit(v) \in mask
         /\ Asked(v, mask, "UpdateHat") <=> LaterEq(v, 769) /\ 64 \in mask
BY DEF Asked, SaysRemove

\* The masks of the types.
LEMMA BitsCases ==
  ASSUME NEW v
  PROVE  /\ ActionBits(v, "RemovePlayer") = {64}
         /\ ActionBits(v, "AddPlayer") = {1, 4, 16, 32}
         /\ ActionBits(v, "InitializeChat") = {2}
         /\ ActionBits(v, "UpdateGameMode") = {4}
         /\ ActionBits(v, "UpdateListed") = {8}
         /\ ActionBits(v, "UpdateLatency") = {16}
         /\ ActionBits(v, "UpdateDisplayName") = {32}
         /\ ActionBits(v, "UpdateListOrder") = {ListOrderBit(v)}
         /\ ActionBits(v, "UpdateHat") = {64}
BY DEF ActionBits

\* Of the mask of one type, the reader makes an action of that type.
LEMMA OneType ==
  ASSUME NEW v \in ListVersions, LaterEq(v, 761), NEW type \in ActionTypes(v)
  PROVE  ActionsOfMask(v, ActionBits(v, type)) = <<type>>
<1> DEFINE mask == ActionBits(v, type)
           types == ActionsOfMask(v, mask)
<1>1. type \in Types
  BY DEF ActionTypes, Types
<1>2. \A x \in Types : Asked(v, mask, x) <=> x = type
  <2>1. type = "RemovePlayer" => ~LaterEq(v, 768) /\ ~LaterEq(v, 769)
    BY VersionFacts DEF ActionTypes
  <2>2. type = "UpdateListOrder" => LaterEq(v, 768)
    BY VersionFacts DEF ActionTypes
  <2>3. type = "UpdateHat" => LaterEq(v, 768) /\ LaterEq(v, 769)
    BY VersionFacts DEF ActionTypes
  <2>4. LaterEq(v, 768) <=> ~Earlier(v, 768)
    BY VersionFacts
  <2>5. CASE type = "RemovePlayer"
    <3>1. mask = {64}
      BY <2>5, BitsCases
    <3> HIDE DEF mask
    <3> QED
      BY <2>1, <2>4, <2>5, <3>1, AskedCases DEF Types
  <2>6. CASE type = "UpdateListOrder"
    <3>1. mask = {ListOrderBit(v)}
      BY <2>6, BitsCases
    <3> HIDE DEF mask
    <3> QED
      BY <2>2, <2>4, <2>6, <3>1, AskedCases DEF Types, ListOrderBit
  <2>7. CASE type = "UpdateHat"
    <3>1. mask = {64} /\ ListOrderBit(v) = 128
      BY <2>3, <2>7, BitsCases DEF ListOrderBit
    <3> HIDE DEF mask
    <3> QED
      BY <2>3, <2>4, <2>7, <3>1, AskedCases DEF Types
  <2>8. CASE type \notin {"RemovePlayer", "UpdateListOrder", "UpdateHat"}
    <3>1. /\ 64 \notin mask /\ 128 \notin mask
          /\ ListOrderBit(v) \in {64, 128}
          /\ type = "AddPlayer" => mask = {1, 4, 16, 32}
          /\ type = "InitializeChat" => mask = {2}
          /\ type = "UpdateGameMode" => mask = {4}
          /\ type = "UpdateListed" => mask = {8}
          /\ type = "UpdateLatency" => mask = {16}
          /\ type = "UpdateDisplayName" => mask = {32}
      BY <1>1, <2>8, BitsCases DEF Types, ListOrderBit
    <3> HIDE DEF mask
    <3> QED
      BY <1>1, <2>8, <3>1, AskedCases DEF Types
  <2> QED
    BY <2>5, <2>6, <2>7, <2>8
<1> HIDE DEF mask
<1>3. \A x \in Types : One(Asked(v, mask, x)) = IF x = type THEN 1 ELSE 0
  BY <1>2 DEF One
<1>4. /\ types \in Seq(Types)
      /\ Occurs(type, types)
  BY <1>1, <1>2, ActionsMade
<1>5. Len(types) = 1
  <2> DEFINE N(x) == IF x = type THEN 1 ELSE 0
  <2>1. Len(types) = N("RemovePlayer") + N("AddPlayer") + N("InitializeChat")
                     + N("UpdateGameMode") + N("UpdateListed")
                     + N("UpdateLatency") + N("UpdateDisplayName")
                     + N("UpdateListOrder") + N("UpdateHat")
    BY <1>3, ActionsMade DEF Types
  <2> QED
    BY <1>1, <2>1 DEF Types
<1> HIDE DEF types
<1>6. types = <<type>>
  BY <1>4, <1>5 DEF Occurs
<1> QED
  BY <1>6 DEF types, mask

\* A reader that expects the fields that were written finds a value at its
\* place.
LEMMA AtPlace ==
  ASSUME NEW fields, NEW a, NEW field, Occurs(field, fields)
  PROVE  At(fields, Values(fields, a), field) = ValueOf(a, field)
<1> DEFINE k == CHOOSE i \in DOMAIN fields : fields[i] = field
           values == Values(fields, a)
<1>1. k \in DOMAIN fields /\ fields[k] = field
  BY Zenon DEF Occurs
<1>2. At(fields, values, field) = values[k]
  BY <1>1, Zenon DEF At
<1> HIDE DEF k
<1>3. values[k] = ValueOf(a, fields[k])
  BY <1>1 DEF Values
<1> QED
  BY <1>1, <1>2, <1>3

\* What is read of the values of a under a mask has these, as far as the mask
\* has their bits.
LEMMA EntryRead ==
  ASSUME NEW v, NEW mask, NEW type, NEW uuid, NEW a
  PROVE  LET b == ActionRead(type, uuid, ReadOrder(v, mask),
                             Values(WriteOrder(v, mask), a))
         IN  /\ b.type = type /\ b.uuid = uuid
             /\ 4 \in mask => b.gamemode = ValueOf(a, "gamemode")
             /\ 16 \in mask => b.ping = ValueOf(a, "ping")
             /\ 32 \in mask => b.display_name = ValueOf(a, "display_name")
<1> DEFINE order == WriteOrder(v, mask)
           values == Values(order, a)
<1>1. ReadOrder(v, mask) = order
  BY SameOrder
<1>2. /\ 4 \in mask => At(order, values, "gamemode") = ValueOf(a, "gamemode")
      /\ 16 \in mask => At(order, values, "ping") = ValueOf(a, "ping")
      /\ 32 \in mask =>
           At(order, values, "display_name") = ValueOf(a, "display_name")
  <2>1. /\ 4 \in mask => Occurs("gamemode", order)
        /\ 16 \in mask => Occurs("ping", order)
        /\ 32 \in mask => Occurs("display_name", order)
    BY FieldsWritten
  <2> QED
    BY <2>1, AtPlace
<1> HIDE DEF order, values
<1>3. ActionRead(type, uuid, order, values)
        = [type |-> type, uuid |-> uuid, gamemode |-> At(order, values, "gamemode"),
           ping |-> At(order, values, "ping"),
           display_name |-> At(order, values, "display_name")]
  BY Zenon DEF ActionRead
<1>4. LET b == ActionRead(type, uuid, order, values)
      IN  /\ b.type = type /\ b.uuid = uuid
          /\ 4 \in mask => b.gamemode = ValueOf(a, "gamemode")
          /\ 16 \in mask => b.ping = ValueOf(a, "ping")
          /\ 32 \in mask => b.display_name = ValueOf(a, "display_name")
  BY <1>2, <1>3
<1> QED
  BY <1>1, <1>4 DEF order, values

\* Likewise of the fields of one type, before protocol 761.
LEMMA TypeRead ==
  ASSUME NEW v, NEW type, NEW uuid, NEW a
  PROVE  LET b == ActionRead(type, uuid, ReadFields(v, type),
                             Values(SentFields(v, type), a))
         IN  /\ b.type = type /\ b.uuid = uuid
             /\ type \in {"AddPlayer", "UpdateGameMode"} =>
                  b.gamemode = ValueOf(a, "gamemode")
             /\ type \in {"AddPlayer", "UpdateLatency"} =>
                  b.ping = ValueOf(a, "ping")
             /\ type \in {"AddPlayer", "UpdateDisplayName"} =>
                  b.display_name = ValueOf(a, "display_name")
<1> DEFINE fields == SentFields(v, type)
           values == Values(fields, a)
           keys == Present(HasKeys(v), "keys")
           added == <<"name", "gamemode", "ping", "display_name">>
           All == {"name", "gamemode", "ping", "display_name", "keys"}
<1>1. ReadFields(v, type) = fields
  BY Zenon DEF ReadFields, SentFields
<1>2. ASSUME type = "AddPlayer"
      PROVE  /\ Occurs("gamemode", fields) /\ Occurs("ping", fields)
             /\ Occurs("display_name", fields)
  <2>1. fields = added \o keys
    BY <1>2 DEF SentFields
  <2>2. keys \in Seq(All)
    BY OccursPresent
  <2>3. /\ added \in Seq(All)
        /\ Occurs("gamemode", added) /\ Occurs("ping", added)
        /\ Occurs("display_name", added)
    <3>1. /\ DOMAIN added = 1..4 /\ added[2] = "gamemode" /\ added[3] = "ping"
          /\ added[4] = "display_name" /\ added \in Seq(All)
      OBVIOUS
    <3> HIDE DEF added
    <3> QED
      BY <3>1 DEF Occurs
  <2> HIDE DEF added, keys, fields, All
  <2> QED
    BY <2>1, <2>2, <2>3, OccursConcat
<1>3. ASSUME type = "UpdateGameMode" PROVE Occurs("gamemode", fields)
  <2>1. fields = <<"gamemode">>
    BY <1>3 DEF SentFields
  <2> HIDE DEF fields
  <2> QED
    BY <2>1, OneOccurs
<1>4. ASSUME type = "UpdateLatency" PROVE Occurs("ping", fields)
  <2>1. fields = <<"ping">>
    BY <1>4 DEF SentFields
  <2> HIDE DEF fields
  <2> QED
    BY <2>1, OneOccurs
<1>5. ASSUME type = "UpdateDisplayName" PROVE Occurs("display_name", fields)
  <2>1. fields = <<"display_name">>
    BY <1>5 DEF SentFields
  <2> HIDE DEF fields
  <2> QED
    BY <2>1, OneOccurs
<1>6. /\ type \in {"AddPlayer", "UpdateGameMode"} =>
           At(fields, values, "gamemode") = ValueOf(a, "gamemode")
      /\ type \in {"AddPlayer", "UpdateLatency"} =>
           At(fields, values, "ping") = ValueOf(a, "ping")
      /\ type \in {"AddPlayer", "UpdateDisplayName"} =>
           At(fields, values, "display_name") = ValueOf(a, "display_name")
  <2> HIDE DEF fields
  <2> QED
    BY <1>2, <1>3, <1>4, <1>5, AtPlace
<1> HIDE DEF fields, values
<1>7. ActionRead(type, uuid, fields, values)
        = [type |-> type, uuid |-> uuid, gamemode |-> At(fields, values, "gamemode"),
           ping |-> At(fields, values, "ping"),
           display_name |-> At(fields, values, "display_name")]
  BY Zenon DEF ActionRead
<1>8. LET b == ActionRead(type, uuid, fields, values)
      IN  /\ b.type = type /\ b.uuid = uuid
          /\ type \in {"AddPlayer", "UpdateGameMode"} =>
               b.gamemode = ValueOf(a, "gamemode")
          /\ type \in {"AddPlayer", "UpdateLatency"} =>
               b.ping = ValueOf(a, "ping")
          /\ type \in {"AddPlayer", "UpdateDisplayName"} =>
               b.display_name = ValueOf(a, "display_name")
  BY <1>6, <1>7
<1> QED
  BY <1>1, <1>8 DEF fields, values

-----------------------------------------------------------------------------
(* The lists.                                                               *)

\* The types of lists and of actions.
Lists == [Players -> Entries \cup {Absent}]
Acts == [type : Types, uuid : Players, gamemode : {0, 1}, ping : {0, 1},
         display_name : {"none", "some"}]

\* An action keeps the type of a list.
LEMMA ApplyTyped ==
  ASSUME NEW list \in Lists, NEW a \in Acts
  PROVE  Apply(list, a) \in Lists
<1> DEFINE player == list[a.uuid]
           Set(new) == [list EXCEPT ![a.uuid] = IF player = Absent THEN Absent ELSE new]
<1>1. /\ a.uuid \in Players /\ player \in Entries \cup {Absent}
      /\ a.gamemode \in {0, 1} /\ a.ping \in {0, 1}
      /\ a.display_name \in {"none", "some"} /\ a.type \in Types
  BY DEF Lists, Acts
<1>2. ASSUME NEW new, player # Absent => new \in Entries
      PROVE  Set(new) \in Lists
  BY <1>1, <1>2 DEF Lists
<1>3. ASSUME player # Absent
      PROVE  /\ [player EXCEPT !.gamemode = a.gamemode] \in Entries
             /\ [player EXCEPT !.ping = a.ping] \in Entries
             /\ [player EXCEPT !.display_name = a.display_name] \in Entries
  BY <1>1, <1>3 DEF Entries
<1>4. CASE a.type = "AddPlayer"
  <2>1. Apply(list, a) = [list EXCEPT ![a.uuid] =
          [gamemode |-> a.gamemode, ping |-> a.ping,
           display_name |-> a.display_name]]
    BY <1>4 DEF Apply
  <2> QED
    BY <1>1, <2>1 DEF Lists, Entries
<1>5. CASE a.type = "RemovePlayer"
  <2>1. Apply(list, a) = [list EXCEPT ![a.uuid] = Absent]
    BY <1>5 DEF Apply
  <2> QED
    BY <1>1, <2>1 DEF Lists
<1>6. CASE a.type = "UpdateGameMode"
  <2>1. Apply(list, a) = Set([player EXCEPT !.gamemode = a.gamemode])
    BY <1>6 DEF Apply
  <2> QED
    BY <1>2, <1>3, <2>1
<1>7. CASE a.type = "UpdateLatency"
  <2>1. Apply(list, a) = Set([player EXCEPT !.ping = a.ping])
    BY <1>7 DEF Apply
  <2> QED
    BY <1>2, <1>3, <2>1
<1>8. CASE a.type = "UpdateDisplayName"
  <2>1. Apply(list, a) = Set([player EXCEPT !.display_name = a.display_name])
    BY <1>8 DEF Apply
  <2> QED
    BY <1>2, <1>3, <2>1
<1>9. CASE a.type \notin {"AddPlayer", "RemovePlayer", "UpdateGameMode",
                          "UpdateLatency", "UpdateDisplayName"}
  BY <1>9 DEF Apply
<1> QED
  BY <1>4, <1>5, <1>6, <1>7, <1>8, <1>9

\* Two actions of one type do the same if they have in common what it needs.
LEMMA SameEffect ==
  ASSUME NEW list, NEW a, NEW b, a.type = b.type, a.uuid = b.uuid,
         a.type \in {"AddPlayer", "UpdateGameMode"} => a.gamemode = b.gamemode,
         a.type \in {"AddPlayer", "UpdateLatency"} => a.ping = b.ping,
         a.type \in {"AddPlayer", "UpdateDisplayName"} =>
           a.display_name = b.display_name
  PROVE  Apply(list, a) = Apply(list, b)
BY DEF Apply

\* An action that is written with those of its type, before protocol 761 or
\* under the mask of the type, and read again does what it has done.
LEMMA EntryEffect ==
  ASSUME NEW v \in ListVersions, NEW a \in Acts, a.type \in ActionTypes(v)
  PROVE  LET mask == ActionBits(v, a.type)
             old == ActionRead(a.type, a.uuid, ReadFields(v, a.type),
                               Values(SentFields(v, a.type), a))
             new == ReadEntry(v, mask, a.uuid, Values(WriteOrder(v, mask), a))
         IN  /\ \A list : Apply(list, old) = Apply(list, a)
             /\ LaterEq(v, 761) =>
                  \E b : new = <<b>> /\ \A list : Apply(list, b) = Apply(list, a)
<1> DEFINE mask == ActionBits(v, a.type)
           old == ActionRead(a.type, a.uuid, ReadFields(v, a.type),
                             Values(SentFields(v, a.type), a))
           new == ReadEntry(v, mask, a.uuid, Values(WriteOrder(v, mask), a))
           b == ActionRead(a.type, a.uuid, ReadOrder(v, mask),
                           Values(WriteOrder(v, mask), a))
<1>1. /\ ValueOf(a, "gamemode") = a.gamemode
      /\ ValueOf(a, "ping") = a.ping
      /\ ValueOf(a, "display_name") = a.display_name
  BY DEF ValueOf, Acts
<1>2. ASSUME NEW list PROVE Apply(list, old) = Apply(list, a)
  <2>1. /\ old.type = a.type /\ old.uuid = a.uuid
        /\ a.type \in {"AddPlayer", "UpdateGameMode"} =>
             old.gamemode = ValueOf(a, "gamemode")
        /\ a.type \in {"AddPlayer", "UpdateLatency"} =>
             old.ping = ValueOf(a, "ping")
        /\ a.type \in {"AddPlayer", "UpdateDisplayName"} =>
             old.display_name = ValueOf(a, "display_name")
    BY TypeRead
  <2> HIDE DEF old
  <2> QED
    BY <1>1, <2>1, SameEffect
<1>3. ASSUME LaterEq(v, 761) PROVE new = <<b>>
  <2>1. ActionsOfMask(v, mask) = <<a.type>>
    BY <1>3, OneType
  <2>2. new = [i \in DOMAIN <<a.type>> |->
                 ActionRead(<<a.type>>[i], a.uuid, ReadOrder(v, mask),
                            Values(WriteOrder(v, mask), a))]
    BY <2>1, Zenon DEF ReadEntry
  <2> HIDE DEF new
  <2>3. DOMAIN <<a.type>> = 1..1 /\ <<a.type>>[1] = a.type
    OBVIOUS
  <2>4. new = [i \in 1..1 |-> b]
    BY <2>2, <2>3
  <2> HIDE DEF b
  <2> QED
    BY <2>4
<1>4. ASSUME NEW list PROVE Apply(list, b) = Apply(list, a)
  <2>1. /\ a.type \in {"AddPlayer", "UpdateGameMode"} => 4 \in mask
        /\ a.type \in {"AddPlayer", "UpdateLatency"} => 16 \in mask
        /\ a.type \in {"AddPlayer", "UpdateDisplayName"} => 32 \in mask
    BY BitsCases
  <2> HIDE DEF mask
  <2>2. /\ b.type = a.type /\ b.uuid = a.uuid
        /\ 4 \in mask => b.gamemode = ValueOf(a, "gamemode")
        /\ 16 \in mask => b.ping = ValueOf(a, "ping")
        /\ 32 \in mask => b.display_name = ValueOf(a, "display_name")
    BY EntryRead
  <2> HIDE DEF b
  <2> QED
    BY <1>1, <2>1, <2>2, SameEffect
<1>5. LaterEq(v, 761) =>
        \E c : new = <<c>> /\ \A list : Apply(list, c) = Apply(list, a)
  <2> HIDE DEF b, new
  <2> QED
    BY <1>3, <1>4
<1> QED
  BY <1>2, <1>5, Zenon

\* type_from_id finds the type that has the id.
LEMMA TypeOfId ==
  ASSUME NEW type \in DOMAIN ActionIds
  PROVE  TypeFromId(ActionIds[type]) = type
<1>1. DOMAIN ActionIds = {"AddPlayer", "UpdateGameMode", "UpdateLatency",
                          "UpdateDisplayName", "RemovePlayer"}
  BY DEF ActionIds
<1>2. /\ ActionIds["AddPlayer"] = 0 /\ ActionIds["UpdateGameMode"] = 1
      /\ ActionIds["UpdateLatency"] = 2 /\ ActionIds["UpdateDisplayName"] = 3
      /\ ActionIds["RemovePlayer"] = 4
  BY DEF ActionIds
<1>3. \A x, y \in DOMAIN ActionIds : ActionIds[x] = ActionIds[y] => x = y
  BY <1>1, <1>2
<1> QED
  BY <1>3 DEF TypeFromId

\* One action, or two of a type, do when received what they have done.
LEMMA ReceivedEffect ==
  ASSUME NEW v \in ListVersions, NEW list, NEW actions \in Seq(Acts),
         Len(actions) \in {1, 2},
         \A i \in DOMAIN actions : /\ actions[i].type = actions[1].type
                                   /\ actions[i].type \in ActionTypes(v)
  PROVE  ApplyAll(list, Received(v, actions)) = ApplyAll(list, actions)
<1> DEFINE mask == UNION {ActionBits(v, actions[i].type) : i \in DOMAIN actions}
           type == TypeFromId(ActionIds[actions[1].type])
           Old(a) == ActionRead(type, a.uuid, ReadFields(v, type),
                                Values(SentFields(v, a.type), a))
           New(a) == ReadEntry(v, mask, a.uuid, Values(WriteOrder(v, mask), a))
           Entry(a) == IF Earlier(v, 761) THEN <<Old(a)>> ELSE New(a)
<1>1. DOMAIN actions = 1..Len(actions) /\ 1 \in DOMAIN actions
  OBVIOUS
<1>2. mask = ActionBits(v, actions[1].type)
  BY <1>1
<1>3. Received(v, actions) = IF Len(actions) = 1 THEN Entry(actions[1])
                             ELSE Entry(actions[1]) \o Entry(actions[2])
  BY Zenon DEF Received
<1>4. ASSUME Earlier(v, 761) PROVE type = actions[1].type
  <2>1. ~LaterEq(v, 761) /\ ~LaterEq(v, 768) /\ ~LaterEq(v, 769)
    BY <1>4, VersionFacts, ListVersionsAssumption
    DEF LaterEq, EarlierEq, Earlier
  <2>2. actions[1].type \in DOMAIN ActionIds
    <3>1. actions[1].type \in {"AddPlayer", "UpdateGameMode", "UpdateLatency",
                               "UpdateDisplayName", "RemovePlayer"}
      BY <1>1, <2>1 DEF ActionTypes
    <3> QED
      BY <3>1 DEF ActionIds
  <2> QED
    BY <2>2, TypeOfId
<1>5. ASSUME NEW i \in DOMAIN actions
      PROVE  \E b : /\ Entry(actions[i]) = <<b>>
                    /\ \A l : Apply(l, b) = Apply(l, actions[i])
  <2> DEFINE a == actions[i]
  <2>1. /\ a \in Acts /\ a.type \in ActionTypes(v)
        /\ mask = ActionBits(v, a.type) /\ a.type = actions[1].type
    BY <1>1, <1>2
  <2> HIDE DEF mask, a
  <2>2. CASE Earlier(v, 761)
    <3>1. type = a.type
      BY <1>4, <2>1, <2>2
    <3> HIDE DEF type
    <3>2. \A l : Apply(l, Old(a)) = Apply(l, a)
      BY <2>1, <3>1, EntryEffect
    <3> HIDE DEF Old
    <3> QED
      BY <2>2, <3>2 DEF a
  <2>3. CASE ~Earlier(v, 761)
    <3>1. LaterEq(v, 761)
      BY <2>3, VersionFacts
    <3>2. \E b : New(a) = <<b>> /\ \A l : Apply(l, b) = Apply(l, a)
      BY <2>1, <3>1, EntryEffect
    <3> HIDE DEF New, Old
    <3> QED
      BY <2>3, <3>2 DEF a
  <2> QED
    BY <2>2, <2>3
<1> HIDE DEF Entry
<1>6. PICK b : /\ Entry(actions[1]) = <<b>>
               /\ \A l : Apply(l, b) = Apply(l, actions[1])
  BY <1>1, <1>5
<1>7. CASE Len(actions) = 1
  <2>1. Received(v, actions) = <<b>>
    BY <1>3, <1>6, <1>7
  <2>2. ApplyAll(list, <<b>>) = Apply(list, b)
    <3>1. Len(<<b>>) = 1 /\ <<b>>[1] = b
      OBVIOUS
    <3> QED
      BY <3>1, FirstApplied
  <2>3. ApplyAll(list, actions) = Apply(list, actions[1])
    BY <1>7, FirstApplied
  <2> QED
    BY <1>6, <2>1, <2>2, <2>3
<1>8. CASE Len(actions) = 2
  <2>1. PICK c : /\ Entry(actions[2]) = <<c>>
                 /\ \A l : Apply(l, c) = Apply(l, actions[2])
    BY <1>1, <1>5, <1>8
  <2>2. Received(v, actions) = <<b>> \o <<c>>
    BY <1>3, <1>6, <1>8, <2>1
  <2>3. ApplyAll(list, <<b>> \o <<c>>) = Apply(Apply(list, b), c)
    <3> DEFINE s == <<b>> \o <<c>>
    <3>1. Len(s) = 2 /\ s[1] = b /\ s[2] = c
      OBVIOUS
    <3> HIDE DEF s
    <3>2. ApplyAll(list, s) = Apply(Apply(list, b), c)
      BY <3>1, FirstApplied
    <3> QED
      BY <3>2 DEF s
  <2>4. ApplyAll(list, actions) = Apply(Apply(list, actions[1]), actions[2])
    BY <1>8, FirstApplied
  <2> QED
    BY <1>6, <2>1, <2>2, <2>3, <2>4
<1> QED
  BY <1>7, <1>8

-----------------------------------------------------------------------------
(* A mask of several actions.                                               *)

\* What a mask means keeps the type of a list.
LEMMA MaskTyped ==
  ASSUME NEW mask, NEW p \in Players, NEW e \in Entries, NEW list \in Lists
  PROVE  Masked(list, mask, p, e) \in Lists
<1> DEFINE New(bit, field) == IF bit \in mask THEN e[field] ELSE list[p][field]
           changed == [gamemode |-> New(4, "gamemode"), ping |-> New(16, "ping"),
                       display_name |-> New(32, "display_name")]
           x == IF 1 \in mask THEN e
                ELSE IF list[p] = Absent THEN Absent ELSE changed
<1>1. Masked(list, mask, p, e) = [list EXCEPT ![p] = x]
  BY Zenon DEF Masked
<1>2. list[p] # Absent => changed \in Entries
  BY DEF Lists, Entries
<1>3. x \in Entries \cup {Absent}
  BY <1>2
<1> HIDE DEF x
<1> QED
  BY <1>1, <1>3 DEF Lists

\* Read as several actions, one after the other, an entry does what the mask
\* means: each action that the mask asks for sets its own field, none undoes
\* what another has set, and with 'add_player' the one action sets all.
LEMMA MaskEffect ==
  ASSUME NEW v \in ListVersions, NEW mask, NEW p \in Players,
         NEW e \in Entries, NEW list \in Lists,
         64 \in mask => LaterEq(v, 768),
         1 \in mask => {4, 16, 32} \subseteq mask
  PROVE  ApplyAll(list, ReadEntry(v, mask, p, Values(WriteOrder(v, mask), e)))
           = Masked(list, mask, p, e)
<1> DEFINE types == ActionsOfMask(v, mask)
           Read(type) == ActionRead(type, p, ReadOrder(v, mask),
                                    Values(WriteOrder(v, mask), e))
           read == ReadEntry(v, mask, p, Values(WriteOrder(v, mask), e))
           n == Len(types)
           Did(x, i) == \E j \in 1..i : types[j] = x
           Value(x, i, field) == IF Did(x, i) THEN e[field] ELSE list[p][field]
           State(i) ==
             IF Did("AddPlayer", i) THEN e
             ELSE IF list[p] = Absent THEN Absent
             ELSE [gamemode |-> Value("UpdateGameMode", i, "gamemode"),
                   ping |-> Value("UpdateLatency", i, "ping"),
                   display_name |-> Value("UpdateDisplayName", i, "display_name")]
           g == [i \in 0..n |-> [list EXCEPT ![p] = State(i)]]
<1>1. /\ types \in Seq(Types) /\ n \in 0..9
      /\ \A x \in Types : Occurs(x, types) <=> Asked(v, mask, x)
  <2> DEFINE N(x) == One(Asked(v, mask, x))
  <2>1. \A x : N(x) \in 0..1
    BY Zenon, OneIsSmall
  <2>2. /\ types \in Seq(Types)
        /\ \A x \in Types : Occurs(x, types) <=> Asked(v, mask, x)
    BY ActionsMade
  <2>3. Len(types) = N("RemovePlayer") + N("AddPlayer") + N("InitializeChat")
                     + N("UpdateGameMode") + N("UpdateListed")
                     + N("UpdateLatency") + N("UpdateDisplayName")
                     + N("UpdateListOrder") + N("UpdateHat")
    BY ActionsMade, Zenon
  <2> HIDE DEF N, types
  <2> QED
    BY <2>1, <2>2, <2>3
<1>2. read = [i \in DOMAIN types |-> Read(types[i])]
  BY Zenon DEF ReadEntry
<1>3. ASSUME NEW type
      PROVE  /\ Read(type).type = type /\ Read(type).uuid = p
             /\ 4 \in mask => Read(type).gamemode = e.gamemode
             /\ 16 \in mask => Read(type).ping = e.ping
             /\ 32 \in mask => Read(type).display_name = e.display_name
  <2>1. /\ ValueOf(e, "gamemode") = e.gamemode
        /\ ValueOf(e, "ping") = e.ping
        /\ ValueOf(e, "display_name") = e.display_name
    BY DEF ValueOf, Entries
  <2> QED
    BY <2>1, EntryRead
<1>4. LaterEq(v, 768) <=> ~Earlier(v, 768)
  BY VersionFacts
<1> HIDE DEF Read
<1>5. ASSUME NEW i \in 1..n
      PROVE  /\ types[i] \in Types \ {"RemovePlayer"}
             /\ types[i] = "AddPlayer" => 1 \in mask
             /\ types[i] = "UpdateGameMode" => 4 \in mask /\ 1 \notin mask
             /\ types[i] = "UpdateLatency" => 16 \in mask /\ 1 \notin mask
             /\ types[i] = "UpdateDisplayName" => 32 \in mask /\ 1 \notin mask
  <2> HIDE DEF types
  <2>1. types[i] \in Types /\ i \in DOMAIN types
    BY <1>1
  <2>2. Asked(v, mask, types[i])
    BY <1>1, <2>1 DEF Occurs
  <2> QED
    BY <1>4, <2>1, <2>2, AskedCases
<1> HIDE DEF types
<1>6. Len(read) = n /\ \A i \in 1..n : read[i] = Read(types[i])
  BY <1>1, <1>2
<1> HIDE DEF read, n
<1>8. \A i \in 1..n : \A x : Did(x, i) <=> Did(x, i - 1) \/ types[i] = x
  BY <1>1
<1>9. \A x : ~Did(x, 0)
  OBVIOUS
<1>10. ASSUME NEW i \in 0..n
       PROVE  /\ Did("AddPlayer", i) => 1 \in mask
              /\ \/ Did("UpdateGameMode", i) \/ Did("UpdateLatency", i)
                 \/ Did("UpdateDisplayName", i)
                 => 1 \notin mask
  <2>1. \A j \in 1..i : j \in 1..n
    BY <1>1
  <2> QED
    BY <1>5, <2>1
<1> HIDE DEF Did
<1>11. list[p] \in Entries \cup {Absent} /\ Absent \notin Entries
  BY DEF Lists, Entries, Absent
<1>12. ASSUME NEW i \in 0..n
       PROVE  /\ State(i) \in Entries \cup {Absent}
              /\ ~Did("AddPlayer", i) => (State(i) = Absent <=> list[p] = Absent)
  <2>1. list[p] # Absent =>
          [gamemode |-> Value("UpdateGameMode", i, "gamemode"),
           ping |-> Value("UpdateLatency", i, "ping"),
           display_name |-> Value("UpdateDisplayName", i, "display_name")] \in Entries
    BY <1>11 DEF Entries
  <2> QED
    BY <1>11, <2>1
<1>13. g[0] = list
  <2>1. State(0) = list[p]
    BY <1>9, <1>11 DEF Entries
  <2>2. g[0] = [list EXCEPT ![p] = State(0)]
    BY <1>1
  <2> HIDE DEF State, g
  <2> QED
    BY <2>1, <2>2 DEF Lists
<1>14. ASSUME NEW i \in 1..n PROVE g[i] = Apply(g[i - 1], read[i])
  <2> DEFINE b == Read(types[i])
             l == g[i - 1]
             player == l[b.uuid]
             Set(new) == [l EXCEPT ![b.uuid] = IF player = Absent THEN Absent ELSE new]
  <2>1. i \in 0..n /\ i - 1 \in 0..n
    BY <1>1
  <2>2. /\ g[i] = [list EXCEPT ![p] = State(i)]
        /\ l = [list EXCEPT ![p] = State(i - 1)]
    BY <2>1
  <2>3. b.uuid = p /\ b.type = types[i] /\ read[i] = b
    BY <1>3, <1>6
  <2>4. /\ 4 \in mask => b.gamemode = e.gamemode
        /\ 16 \in mask => b.ping = e.ping
        /\ 32 \in mask => b.display_name = e.display_name
    BY <1>3
  <2> HIDE DEF b, g
  <2>5. l[p] = State(i - 1) /\ \A new : [l EXCEPT ![p] = new] = [list EXCEPT ![p] = new]
    <3> HIDE DEF l, State
    <3> QED
      BY <2>2 DEF Lists
  <2>6. /\ ~Did("AddPlayer", i) => ~Did("AddPlayer", i - 1)
        /\ types[i] # "AddPlayer" /\ Did("AddPlayer", i) => Did("AddPlayer", i - 1)
    BY <1>8
  <2> HIDE DEF l
  <2>7. CASE types[i] = "AddPlayer"
    <3>1. {4, 16, 32} \subseteq mask
      BY <1>5, <2>7
    <3>2. Apply(l, b) = [l EXCEPT ![p] =
            [gamemode |-> b.gamemode, ping |-> b.ping,
             display_name |-> b.display_name]]
      BY <2>3, <2>7 DEF Apply
    <3>3. [gamemode |-> b.gamemode, ping |-> b.ping,
           display_name |-> b.display_name] = e
      BY <2>4, <3>1 DEF Entries
    <3>4. State(i) = e
      BY <1>8, <2>7
    <3> HIDE DEF State
    <3> QED
      <4>1. g[i] = Apply(l, b)
        BY <2>2, <2>5, <3>2, <3>3, <3>4
      <4> QED
        BY <2>3, <4>1, Zenon DEF l
  <2>8. ASSUME NEW new, ~Did("AddPlayer", i),
               Apply(l, b) = Set(new), list[p] # Absent => new = State(i)
        PROVE  g[i] = Apply(l, b)
    <3>1. ~Did("AddPlayer", i - 1)
      BY <2>6, <2>8
    <3>2. player = State(i - 1) /\ (player = Absent <=> list[p] = Absent)
      BY <1>12, <2>1, <2>3, <2>5, <3>1
    <3>3. list[p] = Absent => State(i) = Absent
      BY <2>8
    <3> HIDE DEF State, player
    <3>4. Apply(l, b) = [l EXCEPT ![p] = State(i)]
      BY <2>3, <2>8, <3>2, <3>3
    <3> QED
      BY <2>2, <2>5, <3>4
  <2>9. CASE types[i] = "UpdateGameMode"
    <3> DEFINE new == [player EXCEPT !.gamemode = b.gamemode]
    <3>1. 4 \in mask /\ ~Did("AddPlayer", i)
      BY <1>5, <1>10, <2>1, <2>9
    <3>2. Apply(l, b) = Set(new)
      BY <2>3, <2>9 DEF Apply
    <3>3. ASSUME list[p] # Absent PROVE new = State(i)
      <4>1. player = State(i - 1) /\ ~Did("AddPlayer", i - 1)
        BY <2>3, <2>5, <2>6, <3>1
      <4>2. State(i - 1) =
              [gamemode |-> Value("UpdateGameMode", i - 1, "gamemode"),
               ping |-> Value("UpdateLatency", i - 1, "ping"),
               display_name |-> Value("UpdateDisplayName", i - 1, "display_name")]
        BY <3>3, <4>1
      <4>3. State(i) =
              [gamemode |-> e.gamemode,
               ping |-> Value("UpdateLatency", i - 1, "ping"),
               display_name |-> Value("UpdateDisplayName", i - 1, "display_name")]
        BY <1>8, <2>9, <3>1, <3>3
      <4> HIDE DEF State, Value, player
      <4> QED
        BY <2>4, <3>1, <4>1, <4>2, <4>3
    <3> HIDE DEF new, State
    <3> QED
      <4>1. g[i] = Apply(l, b)
        BY <2>8, <3>1, <3>2, <3>3
      <4> QED
        BY <2>3, <4>1, Zenon DEF l
  <2>10. CASE types[i] = "UpdateLatency"
    <3> DEFINE new == [player EXCEPT !.ping = b.ping]
    <3>1. 16 \in mask /\ ~Did("AddPlayer", i)
      BY <1>5, <1>10, <2>1, <2>10
    <3>2. Apply(l, b) = Set(new)
      BY <2>3, <2>10 DEF Apply
    <3>3. ASSUME list[p] # Absent PROVE new = State(i)
      <4>1. player = State(i - 1) /\ ~Did("AddPlayer", i - 1)
        BY <2>3, <2>5, <2>6, <3>1
      <4>2. State(i - 1) =
              [gamemode |-> Value("UpdateGameMode", i - 1, "gamemode"),
               ping |-> Value("UpdateLatency", i - 1, "ping"),
               display_name |-> Value("UpdateDisplayName", i - 1, "display_name")]
        BY <3>3, <4>1
      <4>3. State(i) =
              [gamemode |-> Value("UpdateGameMode", i - 1, "gamemode"),
               ping |-> e.ping,
               display_name |-> Value("UpdateDisplayName", i - 1, "display_name")]
        BY <1>8, <2>10, <3>1, <3>3
      <4> HIDE DEF State, Value, player
      <4> QED
        BY <2>4, <3>1, <4>1, <4>2, <4>3
    <3> HIDE DEF new, State
    <3> QED
      <4>1. g[i] = Apply(l, b)
        BY <2>8, <3>1, <3>2, <3>3
      <4> QED
        BY <2>3, <4>1, Zenon DEF l
  <2>11. CASE types[i] = "UpdateDisplayName"
    <3> DEFINE new == [player EXCEPT !.display_name = b.display_name]
    <3>1. 32 \in mask /\ ~Did("AddPlayer", i)
      BY <1>5, <1>10, <2>1, <2>11
    <3>2. Apply(l, b) = Set(new)
      BY <2>3, <2>11 DEF Apply
    <3>3. ASSUME list[p] # Absent PROVE new = State(i)
      <4>1. player = State(i - 1) /\ ~Did("AddPlayer", i - 1)
        BY <2>3, <2>5, <2>6, <3>1
      <4>2. State(i - 1) =
              [gamemode |-> Value("UpdateGameMode", i - 1, "gamemode"),
               ping |-> Value("UpdateLatency", i - 1, "ping"),
               display_name |-> Value("UpdateDisplayName", i - 1, "display_name")]
        BY <3>3, <4>1
      <4>3. State(i) =
              [gamemode |-> Value("UpdateGameMode", i - 1, "gamemode"),
               ping |-> Value("UpdateLatency", i - 1, "ping"),
               display_name |-> e.display_name]
        BY <1>8, <2>11, <3>1, <3>3
      <4> HIDE DEF State, Value, player
      <4> QED
        BY <2>4, <3>1, <4>1, <4>2, <4>3
    <3> HIDE DEF new, State
    <3> QED
      <4>1. g[i] = Apply(l, b)
        BY <2>8, <3>1, <3>2, <3>3
      <4> QED
        BY <2>3, <4>1, Zenon DEF l
  <2>12. CASE types[i] \notin {"AddPlayer", "UpdateGameMode", "UpdateLatency",
                               "UpdateDisplayName"}
    <3>1. Apply(l, b) = l
      BY <1>5, <2>3, <2>12 DEF Apply, Types
    <3>2. State(i) = State(i - 1)
      <4>1. /\ Did("AddPlayer", i) <=> Did("AddPlayer", i - 1)
            /\ Did("UpdateGameMode", i) <=> Did("UpdateGameMode", i - 1)
            /\ Did("UpdateLatency", i) <=> Did("UpdateLatency", i - 1)
            /\ Did("UpdateDisplayName", i) <=> Did("UpdateDisplayName", i - 1)
        BY <1>8, <2>12
      <4> QED
        BY <4>1
    <3> HIDE DEF State
    <3> QED
      BY <2>2, <2>3, <3>1, <3>2 DEF l
  <2> QED
    BY <2>3, <2>7, <2>9, <2>10, <2>11, <2>12 DEF l
<1>15. ApplyAll(list, read) = g[n]
  <2> HIDE DEF g
  <2> QED
    BY <1>1, <1>6, <1>13, <1>14, StepsApplied
<1>16. \A x \in Types : Did(x, n) <=> Asked(v, mask, x)
  <2>1. \A x : Did(x, n) <=> Occurs(x, types)
    BY <1>1 DEF Did, Occurs, n
  <2> QED
    BY <1>1, <2>1
<1>17. /\ Did("AddPlayer", n) <=> 1 \in mask
       /\ Did("UpdateGameMode", n) <=> 4 \in mask /\ 1 \notin mask
       /\ Did("UpdateLatency", n) <=> 16 \in mask /\ 1 \notin mask
       /\ Did("UpdateDisplayName", n) <=> 32 \in mask /\ 1 \notin mask
  BY <1>16, AskedCases DEF Types
<1>18. [list EXCEPT ![p] = State(n)] = Masked(list, mask, p, e)
  <2> DEFINE New(bit, field) == IF bit \in mask THEN e[field] ELSE list[p][field]
             x == IF 1 \in mask THEN e
                  ELSE IF list[p] = Absent THEN Absent
                  ELSE [gamemode |-> New(4, "gamemode"), ping |-> New(16, "ping"),
                        display_name |-> New(32, "display_name")]
  <2>1. State(n) = x
    BY <1>17
  <2>2. Masked(list, mask, p, e) = [list EXCEPT ![p] = x]
    BY Zenon DEF Masked
  <2> HIDE DEF State, x
  <2> QED
    BY <2>1, <2>2
<1>19. g[n] = [list EXCEPT ![p] = State(n)]
  BY <1>1
<1> HIDE DEF g, State
<1> QED
  BY <1>15, <1>18, <1>19 DEF read

-----------------------------------------------------------------------------
\* The lists are the same, so that a packet, whose actions have the effect of
\* what the server did, leaves them the same.
ListInv ==
  /\ listVersion \in ListVersions
  /\ serverList \in Lists
  /\ ListsAgree

\* The server does one or two actions and sends them.
LEMMA SendActionsInv == ListInv /\ SendActions => ListInv'
<1> SUFFICES ASSUME ListInv, SendActions PROVE ListInv'
  OBVIOUS
<1>1. PICK type \in ActionTypes(listVersion), p \in Players, q \in Players :
        \E e \in EntriesFor(type) :
          LET Action(u, x) == [type |-> type, uuid |-> u, gamemode |-> x.gamemode,
                               ping |-> x.ping, display_name |-> x.display_name]
              actions == IF p = q THEN <<Action(p, e)>>
                         ELSE <<Action(p, e), Action(q, Opposite(e))>>
          IN  /\ serverList' = ApplyAll(serverList, actions)
              /\ clientList' = ApplyAll(clientList, Received(listVersion, actions))
              /\ UNCHANGED listVersion
  BY Zenon DEF SendActions
<1> DEFINE Action(u, x) == [type |-> type, uuid |-> u, gamemode |-> x.gamemode,
                            ping |-> x.ping, display_name |-> x.display_name]
<1>2. PICK e \in EntriesFor(type) :
        LET actions == IF p = q THEN <<Action(p, e)>>
                       ELSE <<Action(p, e), Action(q, Opposite(e))>>
        IN  /\ serverList' = ApplyAll(serverList, actions)
            /\ clientList' = ApplyAll(clientList, Received(listVersion, actions))
            /\ UNCHANGED listVersion
  BY <1>1, Zenon
<1> DEFINE first == Action(p, e)
           second == Action(q, Opposite(e))
           actions == IF p = q THEN <<first>> ELSE <<first, second>>
<1>3. /\ serverList' = ApplyAll(serverList, actions)
      /\ clientList' = ApplyAll(clientList, Received(listVersion, actions))
      /\ listVersion' = listVersion
  BY <1>2, Zenon
<1>4. e \in Entries /\ Opposite(e) \in Entries
  BY DEF EntriesFor, Entries, Opposite
<1>5. type \in Types
  BY DEF ActionTypes, Types
<1>6. /\ first \in Acts /\ second \in Acts
      /\ first.type = type /\ second.type = type
  BY <1>4, <1>5 DEF Acts, Entries
<1> HIDE DEF first, second
<1>7. CASE p = q
  <2>1. actions = <<first>> /\ Len(<<first>>) = 1 /\ <<first>> \in Seq(Acts)
        /\ <<first>>[1] = first /\ DOMAIN <<first>> = {1}
    BY <1>6, <1>7
  <2> HIDE DEF actions
  <2>2. serverList' = Apply(serverList, first)
    BY <1>3, <2>1, FirstApplied
  <2>3. clientList' = serverList'
    <3>1. ApplyAll(clientList, Received(listVersion, actions))
            = ApplyAll(clientList, actions)
      BY <1>6, <2>1, ReceivedEffect DEF ListInv
    <3> QED
      BY <1>3, <3>1 DEF ListInv, ListsAgree
  <2>4. serverList' \in Lists
    BY <1>6, <2>2, ApplyTyped DEF ListInv
  <2> QED
    BY <1>3, <2>3, <2>4 DEF ListInv, ListsAgree
<1>8. CASE p # q
  <2> DEFINE two == <<first, second>>
  <2>1. actions = two /\ Len(two) = 2 /\ two \in Seq(Acts)
        /\ two[1] = first /\ two[2] = second /\ DOMAIN two = {1, 2}
    BY <1>6, <1>8
  <2> HIDE DEF actions, two
  <2>2. serverList' = Apply(Apply(serverList, first), second)
    BY <1>3, <2>1, FirstApplied
  <2>3. clientList' = serverList'
    <3>1. ApplyAll(clientList, Received(listVersion, actions))
            = ApplyAll(clientList, actions)
      BY <1>6, <2>1, ReceivedEffect DEF ListInv
    <3> QED
      BY <1>3, <3>1 DEF ListInv, ListsAgree
  <2>4. serverList' \in Lists
    BY <1>6, <2>2, ApplyTyped DEF ListInv
  <2> QED
    BY <1>3, <2>3, <2>4 DEF ListInv, ListsAgree
<1> QED
  BY <1>7, <1>8

\* The server sends an entry under a mask.
LEMMA SendMaskInv == ListInv /\ SendMask => ListInv'
<1> SUFFICES ASSUME ListInv, SendMask PROVE ListInv'
  OBVIOUS
<1>1. PICK mask \in SUBSET {1, 2, 4, 8, 16, 32, 64, 128}, p \in Players,
           e \in EntriesFor("mask") :
        /\ LaterEq(listVersion, 761)
        /\ 64 \in mask => LaterEq(listVersion, 768)
        /\ 1 \in mask => {4, 16, 32} \subseteq mask
        /\ serverList' = Masked(serverList, mask, p, e)
        /\ clientList' = ApplyAll(clientList,
             ReadEntry(listVersion, mask, p, Values(WriteOrder(listVersion, mask), e)))
        /\ UNCHANGED listVersion
  BY Zenon DEF SendMask
<1>2. e \in Entries
  BY DEF EntriesFor, Entries, Opposite
<1>3. clientList' = ApplyAll(serverList,
        ReadEntry(listVersion, mask, p, Values(WriteOrder(listVersion, mask), e)))
  BY <1>1, Zenon DEF ListInv, ListsAgree
<1>4. clientList' = serverList'
  BY <1>1, <1>2, <1>3, MaskEffect DEF ListInv
<1>5. serverList' \in Lists
  BY <1>1, <1>2, MaskTyped DEF ListInv
<1> QED
  BY <1>1, <1>4, <1>5 DEF ListInv, ListsAgree

\* It removes players.
LEMMA SendRemoveInv == ListInv /\ SendRemove => ListInv'
<1> SUFFICES ASSUME ListInv, SendRemove PROVE ListInv'
  OBVIOUS
<1>1. PICK uuids \in SUBSET Players :
        LET Without(list) == [p \in Players |-> IF p \in uuids THEN Absent ELSE list[p]]
        IN  /\ serverList' = Without(serverList)
            /\ clientList' = Without(clientList)
            /\ UNCHANGED listVersion
  BY DEF SendRemove
<1>2. serverList' \in Lists
  BY <1>1 DEF ListInv, Lists
<1> QED
  BY <1>1, <1>2 DEF ListInv, ListsAgree

\* For all players and under every version: a packet of one type of action
\* does to the client's list what the server did to its own, and so does an
\* entry under any mask of a server, which is read as several actions.
THEOREM PlayerListsAgree == ListSpec => []ListsAgree
<1>1. ListInit => ListInv
  BY DEF ListInit, ListInv, Lists, ListsAgree
<1>2. ListInv /\ [ListNext]_listVars => ListInv'
  <2>1. ListInv /\ UNCHANGED listVars => ListInv'
    BY DEF ListInv, ListsAgree, listVars
  <2> QED
    BY <2>1, SendActionsInv, SendMaskInv, SendRemoveInv DEF ListNext
<1>3. ListInv => ListsAgree
  BY DEF ListInv
<1> QED
  BY <1>1, <1>2, <1>3, PTL DEF ListSpec
===============================================================================
