--------------------------- MODULE PacketTransfer ---------------------------
(***************************************************************************)
(* The packets of a session (PacketExchange), and what becomes of one that *)
(* has fields of its own: a packet of a class that the state registers is  *)
(* written and read again (PacketLayouts), and so are single fields        *)
(* (FieldTypes).  A transfer is looked at and ends the behaviour: what     *)
(* follows it is the same as without it.                                   *)
(***************************************************************************)
EXTENDS PacketExchange, PacketLayouts, FieldTypes

VARIABLE wire            \* what has been transferred; <<>>: nothing yet

allVars == <<version, reactor, table, outbox, server, readable, held, wire>>

TransferInit == Init /\ wire = <<>>

Exchange == wire = <<>> /\ Next /\ UNCHANGED wire

\* A packet with the choices 'p' is written by write_fields and read by read.
Transferred(c, p) ==
  wire' = <<[class |-> c, choices |-> p, written |-> Written(c, version, p),
             read |-> Read(c, version, p)]>>

\* The client of a session before the first packet has been answered.
Fresh == wire = <<>> /\ outbox = <<>> /\ server = reactor

TransferPlay ==
  /\ Fresh
  /\ reactor = "play"
  /\ \E c \in DOMAIN PlaySamples :
       /\ c \in DOMAIN table \cup readable
       /\ c = "JoinGame" => LaterEq(version, 766)
       /\ \E p \in PlaySamples[c] : Transferred(c, p)
  /\ UNCHANGED vars

TransferLogin ==
  /\ Fresh
  /\ reactor = "login"
  /\ \E c \in LoginClasses \cap readable, p \in LoginSamples : Transferred(c, p)
  /\ UNCHANGED vars

TransferField ==
  /\ Fresh
  /\ reactor = "status"
  /\ \E f \in FieldSamples : wire' = <<[field |-> f]>>
  /\ UNCHANGED vars

TransferNext == Exchange \/ TransferPlay \/ TransferLogin \/ TransferField

TransferSpec == TransferInit /\ [][TransferNext]_allVars

-----------------------------------------------------------------------------
\* Each packet is read by the code, in the order and under the types by which
\* it was written, for every version that registers it and all the branches of
\* 'read' and 'write_fields'.  Two packets are not.  A map packet from
\* protocol 452 on is written without 'is_locked', and from 21w03a on the
\* place of 'is_tracking_position' is another one for the reader; only a
\* server writes maps.  And from protocol 766 on, the sound of registry id 0
\* is taken for one that is defined inline.
ReadsWhatIsWritten ==
  wire # <<>> /\ "class" \in DOMAIN wire[1] =>
    LET t == wire[1]
    IN  \/ t.written = t.read
        \/ t.class = "Map" /\ LaterEq(version, 452)
        \/ /\ t.class = "SoundEffect" /\ LaterEq(version, 766)
           /\ t.choices.server /\ t.choices.sound = 1

IsField == wire # <<>> /\ "field" \in DOMAIN wire[1]

\* An angle, in tenths of a degree, that is nearer to 360 degrees than to the
\* last step before them.
NearFullTurn(f) == "angle" \in DOMAIN f /\ f.angle % 3600 >= 3593

\* A field that is packed into bits is read as the value that was written, up
\* to the last step before a full turn, for which see AnglesAreSent.
FieldsAreKept ==
  IsField /\ ~NearFullTurn(wire[1].field) => Kept(version, wire[1].field)

-----------------------------------------------------------------------------
(* Claims that the code does not keep.                                      *)

\* basic.py 142: "Normalize angle between 0 and 255 and convert to int", and
\* test_serialization.py 76-79, by which an angle is read within 360/256 of
\* what was written.
AnglesAreSent ==
  IsField /\ "angle" \in DOMAIN wire[1].field => Kept(version, wire[1].field)
=============================================================================
