------------------------- MODULE OutgoingQueue_proofs -------------------------
(***************************************************************************)
(* Proofs about OutgoingQueue, for any number of application threads,      *)
(* connections, packets and calls of listeners.                            *)
(***************************************************************************)
EXTENDS OutgoingQueue, TLAPS

\* The labels between the two sends of a packet, those of an actor that has
\* a packet to send in its hand, and those of one that holds the write lock.
Bodies == {"force_body", "drain_body", "flush_body"}
Carrying == Early \cup Bodies
Holding == Listening \cup Bodies
              \cup {"drain", "flush", "close", "c_open", "c_start"}

LockOwner == \A a \in Actors : pc[a] \in Holding <=> lock = a

\* An actor between the two sends has just sent the length of its packet.
BodyFollows ==
    \A a \in Actors : pc[a] \in Bodies =>
        /\ socket # 0
        /\ wire[socket] # <<>>
        /\ wire[socket][Len(wire[socket])] =
              [part |-> "length", packet |-> item[a]]

\* A length whose body is missing is the last send for ever, unless an actor
\* is about to send the body.
CutOnlyBroken ==
    \A g \in Connections :
        wire[g] # <<>> /\ wire[g][Len(wire[g])].part = "length" =>
            \/ g \in broken
            \/ socket = g /\ \E a \in Actors : pc[a] \in Bodies

\* What an actor has at hand belongs to the connection it was made for, or
\* was carried over to the installed one by its own listener.
HandOf(a) ==
    /\ pc[a] \in {"append", "force"} \cup Carrying => item[a] \in Packets
    /\ pc[a] \in {"force", "force_early", "force_body"} => item[a].forced
    /\ pc[a] = "append" => loaded[a] # 0 /\ item[a].asked = loaded[a]
    /\ pc[a] \in Carrying =>
          item[a].forced \/ item[a] \in carried \/ item[a].asked >= socket

AtHand == \A a \in Actors : HandOf(a)

\* A packet in queue g was queued for connection g.
QueuesNumbered ==
    \A g \in Connections : \A i \in DOMAIN queue[g] : queue[g][i].asked = g

\* How far an actor is with the connection that is installed.
LinkOf(a) ==
    /\ pc[a] = "c_open" => ~up
    /\ pc[a] = "c_start" => socket = attr
    /\ pc[a] \in Holding \cup {"force"} => attr # 0

Links ==
    /\ socket <= attr
    /\ up => socket # 0
    /\ pc[Net] \in {"drain_early", "drain_body", "drain_late"}
          => num_packets < Burst
    /\ \A a \in Actors : LinkOf(a)

\* A listener that has called something runs in the lock's owner.
Nesting ==
    /\ reentry # "none" => \E a \in Actors : lock = a /\ pc[a] \in Listening
    /\ reentry = "open" => ~up
    /\ reentry = "start" => socket = attr

\* The inductive invariant: who holds the lock, what is cut short on a wire,
\* whose packets are where, and what listeners are about.
Inv ==
    /\ TypeOK
    /\ LockOwner
    /\ BodyFollows
    /\ CutOnlyBroken
    /\ AtHand
    /\ QueuesNumbered
    /\ Links
    /\ Nesting
    /\ FramesIntact
    /\ NoCrossTalk

\* Net is an actor, and no actor is the free lock.
LEMMA ActorNames ==
    Net \in Actors /\ "none" \notin Actors /\ Net \notin Writers
BY WritersAssumption DEF Actors, Net

\* The labels, and where an actor is before a call and after it.
LEMMA LabelFacts ==
    /\ Early \cup Late = Listening /\ Early \cap Late = {}
    /\ Bodies \cup Listening \subseteq Holding /\ Holding \subseteq Labels
    /\ Bodies \cap Listening = {}
    /\ "append" \notin Holding /\ "force" \notin Holding
    /\ {"idle", "top", "read", "stuck", "react", "failed", "handled",
        "cleanup", "append", "force"} \subseteq Labels \ Holding
    /\ \A a \in Actors : Home(a) \in {"idle", "react"}
BY DEF Home, Labels, Holding, Bodies, Listening, Early, Late

\* What Append does to a sequence, entry by entry.
LEMMA Appended ==
    ASSUME NEW S, NEW w \in Seq(S), NEW x \in S
    PROVE  /\ Append(w, x) \in Seq(S)
           /\ Append(w, x) # <<>>
           /\ Len(Append(w, x)) = Len(w) + 1
           /\ DOMAIN Append(w, x) = 1..(Len(w) + 1)
           /\ \A i \in DOMAIN w : Append(w, x)[i] = w[i]
           /\ Append(w, x)[Len(w) + 1] = x
OBVIOUS

\* A length may be sent when the last packet is complete.
LEMMA FramedLength ==
    ASSUME NEW S, NEW w \in Seq(S), Framed(w),
           w = <<>> \/ w[Len(w)].part # "length",
           NEW p, NEW x \in S, x = [part |-> "length", packet |-> p],
           \A i \in DOMAIN w : w[i].part \in {"length", "body"}
    PROVE  Framed(Append(w, x))
<1> DEFINE v == Append(w, x)
<1>1. /\ DOMAIN v = 1..(Len(w) + 1) /\ Len(v) = Len(w) + 1
      /\ \A i \in DOMAIN w : v[i] = w[i]
      /\ v[Len(w) + 1] = x
      /\ DOMAIN w = 1..Len(w) /\ Len(w) \in Nat
  BY Appended
<1> HIDE DEF v
<1>2. ASSUME NEW i \in DOMAIN v, v[i].part = "length", i < Len(v)
      PROVE  v[i + 1].part = "body"
  <2>1. i \in DOMAIN w /\ v[i] = w[i]
    BY <1>1, <1>2
  <2>2. i # Len(w)
    BY <2>1, <1>1, <1>2
  <2>3. i + 1 \in DOMAIN w /\ i < Len(w)
    BY <2>1, <2>2, <1>1
  <2> QED
    BY <2>1, <2>3, <1>1, <1>2 DEF Framed
<1>3. ASSUME NEW i \in DOMAIN v, v[i].part # "length"
      PROVE  i > 1 /\ v[i - 1] = [v[i] EXCEPT !.part = "length"]
  <2>1. i # Len(w) + 1
    BY <1>1, <1>3
  <2>2. i \in DOMAIN w /\ v[i] = w[i]
    BY <2>1, <1>1
  <2>3. i > 1 /\ w[i - 1] = [w[i] EXCEPT !.part = "length"]
    BY <2>2, <1>3 DEF Framed
  <2>4. i - 1 \in DOMAIN w
    BY <2>2, <2>3, <1>1
  <2> QED
    BY <2>2, <2>3, <2>4, <1>1
<1>4. Framed(v)
  BY <1>2, <1>3 DEF Framed
<1> QED
  BY <1>4 DEF v

\* The body may be sent when its length is the last send.
LEMMA FramedBody ==
    ASSUME NEW S, NEW w \in Seq(S), Framed(w), w # <<>>,
           NEW p, w[Len(w)] = [part |-> "length", packet |-> p],
           NEW x \in S, x = [part |-> "body", packet |-> p]
    PROVE  Framed(Append(w, x))
<1> DEFINE v == Append(w, x)
<1>1. /\ DOMAIN v = 1..(Len(w) + 1) /\ Len(v) = Len(w) + 1
      /\ \A i \in DOMAIN w : v[i] = w[i]
      /\ v[Len(w) + 1] = x
      /\ DOMAIN w = 1..Len(w) /\ Len(w) \in Nat /\ Len(w) > 0
  BY Appended
<1> HIDE DEF v
<1>2. ASSUME NEW i \in DOMAIN v, v[i].part = "length", i < Len(v)
      PROVE  v[i + 1].part = "body"
  <2>1. i \in DOMAIN w /\ v[i] = w[i]
    BY <1>1, <1>2
  <2>2. CASE i = Len(w)
    BY <2>2, <1>1
  <2>3. CASE i # Len(w)
    <3>1. i + 1 \in DOMAIN w /\ i < Len(w)
      BY <2>1, <2>3, <1>1
    <3> QED
      BY <2>1, <3>1, <1>1, <1>2 DEF Framed
  <2> QED
    BY <2>2, <2>3
<1>3. ASSUME NEW i \in DOMAIN v, v[i].part # "length"
      PROVE  i > 1 /\ v[i - 1] = [v[i] EXCEPT !.part = "length"]
  <2>1. CASE i = Len(w) + 1
    <3>1. v[i] = x /\ v[i - 1] = w[Len(w)] /\ i > 1
      BY <2>1, <1>1
    <3>2. [x EXCEPT !.part = "length"] = [part |-> "length", packet |-> p]
      OBVIOUS
    <3> QED
      BY <3>1, <3>2
  <2>2. CASE i # Len(w) + 1
    <3>1. i \in DOMAIN w /\ v[i] = w[i]
      BY <2>2, <1>1
    <3>2. i > 1 /\ w[i - 1] = [w[i] EXCEPT !.part = "length"]
      BY <3>1, <1>3 DEF Framed
    <3>3. i - 1 \in DOMAIN w
      BY <3>1, <3>2, <1>1
    <3> QED
      BY <3>1, <3>2, <3>3, <1>1
  <2> QED
    BY <2>1, <2>2
<1>4. Framed(v)
  BY <1>2, <1>3 DEF Framed
<1> QED
  BY <1>4 DEF v

\* Initially nothing is queued, sent or held.
LEMMA InitInv == Init => Inv
<1> SUFFICES ASSUME Init PROVE Inv
  OBVIOUS
<1> USE BoundsAssumption, ActorNames DEF Init
<1>1. TypeOK
  <2>1. /\ lock \in Actors \cup {"none"}
        /\ pc \in [Actors -> Labels]
        /\ item \in [Actors -> Packets \cup {NoPacket}]
        /\ loaded \in [Actors -> 0..MaxConnections]
    BY DEF Labels
  <2>2. queue \in [Connections -> Seq(Packets)]
    OBVIOUS
  <2>3. wire \in [Connections -> Seq(Sends)]
    OBVIOUS
  <2>4. /\ attr \in 0..MaxConnections /\ socket \in 0..MaxConnections
        /\ count \in 0..MaxPackets /\ serving \in 0..MaxConnections
        /\ num_packets \in 0..Burst
    OBVIOUS
  <2>5. /\ up \in BOOLEAN /\ broken \subseteq Connections
        /\ write_error \in BOOLEAN
        /\ reentry \in {"none", "flush", "close", "open", "start", "raised"}
    OBVIOUS
  <2> QED
    BY <2>1, <2>2, <2>3, <2>4, <2>5 DEF TypeOK
<1>2. \A a \in Actors : pc[a] = "idle"
  OBVIOUS
<1>3. LockOwner /\ BodyFollows /\ AtHand /\ Links /\ Nesting
  BY <1>2, LabelFacts DEF LockOwner, Bodies, BodyFollows, AtHand, HandOf,
     Carrying, Links, LinkOf, Nesting
<1>4. CutOnlyBroken /\ QueuesNumbered
  BY DEF CutOnlyBroken, QueuesNumbered, Connections
<1>5. FramesIntact /\ NoCrossTalk
  BY DEF FramesIntact, Framed, NoCrossTalk, Sent, Connections
<1> QED
  BY <1>1, <1>3, <1>4, <1>5 DEF Inv

------------------------------------------------------------------------------
(* What the steps of the actors have in common.                             *)

\* How a step may change the lock, with the label l that it leads to.
LockMoves(a, l) ==
    \/ lock' = lock /\ (pc[a] \in Holding <=> l \in Holding)
    \/ lock = "none" /\ lock' = a /\ l \in Holding
    \/ lock \in {a, "none"} /\ lock' = "none" /\ l \notin Holding

\* A jump that takes, keeps or releases the lock as the labels tell.
LEMMA LockStep ==
    ASSUME TypeOK, LockOwner, NEW a \in Actors, NEW l \in Labels,
           pc' = [pc EXCEPT ![a] = l], LockMoves(a, l)
    PROVE  LockOwner'
<1>1. pc'[a] = l /\ \A b \in Actors : b # a => pc'[b] = pc[b]
  BY DEF TypeOK
<1>2. SUFFICES ASSUME NEW b \in Actors
               PROVE  pc'[b] \in Holding <=> lock' = b
  BY DEF LockOwner
<1> QED
  BY <1>1, <1>2, ActorNames DEF LockOwner, LockMoves

\* Nobody is between the sends of a packet while the lock is free, and only
\* its owner can be.
LEMMA OneSender ==
    ASSUME LockOwner, NEW a \in Actors, lock \in {a, "none"}
    PROVE  \A b \in Actors : b # a => pc[b] \notin Holding \cup Bodies
BY ActorNames, LabelFacts DEF LockOwner

\* Steps that send nothing.  If they touch the socket, or come from between
\* the two sends of a packet, then nothing is cut but on a broken socket.
LEMMA NoSend ==
    ASSUME Inv, NEW a \in Actors, NEW l \in Labels \ Bodies,
           pc' = [pc EXCEPT ![a] = l],
           wire' = wire, broken \subseteq broken', carried \subseteq carried',
           item' = item \/ \E p : item' = [item EXCEPT ![a] = p],
           \/ socket' = socket /\ (pc[a] \in Bodies => socket \in broken)
           \/ lock \in {a, "none"} /\ pc[a] \notin Bodies
    PROVE  BodyFollows' /\ CutOnlyBroken' /\ FramesIntact' /\ NoCrossTalk'
<1> USE DEF Inv
<1>1. pc'[a] = l /\ \A b \in Actors : b # a => pc'[b] = pc[b]
  BY DEF TypeOK
<1>2. \A b \in Actors : b # a => item'[b] = item[b]
  BY DEF TypeOK
<1>3. ASSUME NEW b \in Actors, pc'[b] \in Bodies
      PROVE  b # a /\ pc[b] \in Bodies /\ socket' = socket
  <2>1. b # a /\ pc[b] \in Bodies
    BY <1>1, <1>3
  <2> QED
    BY <2>1, OneSender
<1>4. BodyFollows'
  BY <1>2, <1>3 DEF BodyFollows
<1>5. CutOnlyBroken'
  <2> SUFFICES ASSUME NEW g \in Connections, g \notin broken,
                      wire[g] # <<>>, wire[g][Len(wire[g])].part = "length"
               PROVE  socket' = g /\ \E b \in Actors : pc'[b] \in Bodies
    BY DEF CutOnlyBroken
  <2>1. PICK b \in Actors : socket = g /\ pc[b] \in Bodies
    BY DEF CutOnlyBroken
  <2>2. b # a
    BY <2>1, OneSender
  <2>3. pc'[b] \in Bodies
    BY <1>1, <2>1, <2>2
  <2> QED
    BY <1>3, <2>1, <2>3
<1>6. FramesIntact' /\ NoCrossTalk'
  BY DEF FramesIntact, NoCrossTalk, Sent
<1> QED
  BY <1>4, <1>5, <1>6

\* The first send of a packet.
LEMMA LengthSent ==
    ASSUME Inv, NEW a \in Actors, NEW l \in Bodies,
           pc' = [pc EXCEPT ![a] = l], pc[a] \in Early, lock = a,
           SendLength(a), UNCHANGED <<socket, broken, carried>>
    PROVE  /\ BodyFollows' /\ CutOnlyBroken' /\ FramesIntact' /\ NoCrossTalk'
           /\ wire' \in [Connections -> Seq(Sends)]
<1> USE DEF Inv
<1> DEFINE x == [part |-> "length", packet |-> item[a]]
           w == wire[socket]
<1>1. pc'[a] = l /\ \A b \in Actors : b # a => pc'[b] = pc[b]
  BY DEF TypeOK, Bodies, Labels
<1>2. \A b \in Actors : pc[b] \notin Bodies
  BY OneSender, LabelFacts
<1>3. socket \in Connections /\ socket \notin broken /\ x \in Sends
  BY DEF SendLength, Send, CanSend, TypeOK, Connections, Sends, AtHand,
     HandOf, Carrying
<1>4. w \in Seq(Sends) /\ \A i \in DOMAIN w : w[i].part \in {"length", "body"}
  <2>1. w \in Seq(Sends)
    BY <1>3 DEF TypeOK
  <2>2. \A i \in DOMAIN w : w[i] \in Sends
    BY <2>1
  <2> QED
    BY <2>1, <2>2 DEF Sends
<1>5. wire' = [wire EXCEPT ![socket] = Append(w, x)]
  BY DEF SendLength, Send
<1>6. wire'[socket] = Append(w, x)
      /\ \A g \in Connections : g # socket => wire'[g] = wire[g]
  BY <1>3, <1>5 DEF TypeOK
<1>7. wire' \in [Connections -> Seq(Sends)]
  BY <1>3, <1>4, <1>5, Appended DEF TypeOK
<1>8. item'[a] = item[a]
  BY DEF SendLength
<1>9. BodyFollows'
  <2> SUFFICES ASSUME NEW b \in Actors, pc'[b] \in Bodies
               PROVE  /\ b = a /\ socket # 0
                      /\ wire'[socket] # <<>>
                      /\ wire'[socket][Len(wire'[socket])] = x
    BY <1>8 DEF BodyFollows
  <2>1. b = a
    BY <1>1, <1>2
  <2> QED
    BY <2>1, <1>3, <1>4, <1>6, Appended DEF Connections
<1>10. CutOnlyBroken'
  <2> SUFFICES ASSUME NEW g \in Connections, g # socket
               PROVE  wire'[g] # <<>> /\ wire'[g][Len(wire'[g])].part = "length"
                         => g \in broken
    BY <1>1 DEF CutOnlyBroken
  <2> QED
    BY <1>6 DEF CutOnlyBroken
<1>11. FramesIntact'
  <2>1. w = <<>> \/ w[Len(w)].part # "length"
    BY <1>2, <1>3 DEF CutOnlyBroken
  <2>2. Framed(w)
    BY <1>3 DEF FramesIntact
  <2>3. Framed(Append(w, x))
    BY <2>1, <2>2, <1>3, <1>4, FramedLength
  <2> QED
    BY <2>3, <1>6 DEF FramesIntact
<1>12. NoCrossTalk'
  <2> SUFFICES ASSUME NEW g \in Connections, NEW i \in DOMAIN wire'[g],
                      wire'[g][i].part = "body"
               PROVE  i \in DOMAIN wire[g] /\ wire'[g][i] = wire[g][i]
    BY DEF NoCrossTalk, Sent
  <2>1. CASE g # socket
    BY <2>1, <1>6
  <2>2. CASE g = socket
    BY <2>2, <1>3, <1>4, <1>6, Appended
  <2> QED
    BY <2>1, <2>2
<1> QED
  BY <1>7, <1>9, <1>10, <1>11, <1>12

\* The second send of a packet.
LEMMA BodySent ==
    ASSUME Inv, NEW a \in Actors, NEW l \in Labels \ Bodies,
           pc' = [pc EXCEPT ![a] = l], pc[a] \in Bodies,
           SendBody(a), UNCHANGED <<socket, broken, carried>>
    PROVE  /\ BodyFollows' /\ CutOnlyBroken' /\ FramesIntact' /\ NoCrossTalk'
           /\ wire' \in [Connections -> Seq(Sends)]
<1> USE DEF Inv
<1> DEFINE x == [part |-> "body", packet |-> item[a]]
           w == wire[socket]
<1>1. pc'[a] = l /\ \A b \in Actors : b # a => pc'[b] = pc[b]
  BY DEF TypeOK
<1>2. \A b \in Actors : b # a => pc[b] \notin Bodies
  <2>1. lock = a
    BY LabelFacts DEF LockOwner
  <2> QED
    BY <2>1, OneSender, LabelFacts
<1>3. socket \in Connections /\ x \in Sends
  BY DEF SendBody, Send, CanSend, TypeOK, Connections, Sends, AtHand,
     HandOf, Carrying
<1>4. /\ w \in Seq(Sends) /\ w # <<>>
      /\ w[Len(w)] = [part |-> "length", packet |-> item[a]]
  BY <1>3 DEF TypeOK, BodyFollows
<1>5. wire' = [wire EXCEPT ![socket] = Append(w, x)]
  BY DEF SendBody, Send
<1>6. wire'[socket] = Append(w, x)
      /\ \A g \in Connections : g # socket => wire'[g] = wire[g]
  BY <1>3, <1>5 DEF TypeOK
<1>7. wire' \in [Connections -> Seq(Sends)]
  BY <1>3, <1>4, <1>5, Appended DEF TypeOK
<1>8. BodyFollows'
  BY <1>1, <1>2 DEF BodyFollows
<1>9. CutOnlyBroken'
  <2> SUFFICES ASSUME NEW g \in Connections, wire'[g] # <<>>,
                      wire'[g][Len(wire'[g])].part = "length"
               PROVE  g \in broken
    BY DEF CutOnlyBroken
  <2>1. CASE g # socket
    BY <2>1, <1>6 DEF CutOnlyBroken
  <2>2. CASE g = socket
    BY <2>2, <1>3, <1>4, <1>6, Appended
  <2> QED
    BY <2>1, <2>2
<1>10. FramesIntact'
  <2>1. Framed(w)
    BY <1>3 DEF FramesIntact
  <2>2. Framed(Append(w, x))
    BY <2>1, <1>3, <1>4, FramedBody
  <2> QED
    BY <2>2, <1>6 DEF FramesIntact
<1>11. NoCrossTalk'
  <2> SUFFICES ASSUME NEW g \in Connections, NEW i \in DOMAIN wire'[g],
                      wire'[g][i].part = "body"
               PROVE  LET p == wire'[g][i].packet
                      IN  ~p.forced /\ p \notin carried => p.asked >= g
    BY DEF NoCrossTalk, Sent
  <2>1. CASE i \in DOMAIN wire[g] /\ wire'[g][i] = wire[g][i]
    BY <2>1 DEF NoCrossTalk, Sent
  <2>2. CASE g = socket /\ i = Len(w) + 1
    BY <2>2, <1>3, <1>4, <1>6, Appended DEF AtHand, HandOf, Carrying
  <2> QED
    BY <2>1, <2>2, <1>3, <1>4, <1>6, Appended
<1> QED
  BY <1>7, <1>8, <1>9, <1>10, <1>11

\* A listener of the lock's owner has both sends of a packet made.
LEMMA WholeSent ==
    ASSUME Inv, NEW a \in Actors, lock = a, pc[a] \in Listening,
           NEW p \in Packets, p.forced \/ p.asked >= socket,
           SendWhole(p), UNCHANGED <<pc, item, socket, broken, carried>>
    PROVE  /\ BodyFollows' /\ CutOnlyBroken' /\ FramesIntact' /\ NoCrossTalk'
           /\ wire' \in [Connections -> Seq(Sends)]
<1> USE DEF Inv
<1> DEFINE x == [part |-> "length", packet |-> p]
           y == [part |-> "body", packet |-> p]
           w == wire[socket]
           v == Append(Append(w, x), y)
<1>1. \A b \in Actors : pc[b] \notin Bodies
  BY OneSender, LabelFacts
<1>2. socket \in Connections /\ socket \notin broken /\ x \in Sends /\ y \in Sends
  BY DEF SendWhole, CanSend, TypeOK, Connections, Sends
<1>3. w \in Seq(Sends) /\ \A i \in DOMAIN w : w[i].part \in {"length", "body"}
  <2>1. w \in Seq(Sends)
    BY <1>2 DEF TypeOK
  <2>2. \A i \in DOMAIN w : w[i] \in Sends
    BY <2>1
  <2> QED
    BY <2>1, <2>2 DEF Sends
<1> HIDE DEF x, y, w
<1>4. v = w \o <<x, y>>
  BY <1>2, <1>3
<1>5. /\ Append(w, x) \in Seq(Sends) /\ v \in Seq(Sends) /\ v # <<>>
      /\ DOMAIN v = 1..(Len(w) + 2) /\ Len(v) = Len(w) + 2
      /\ \A i \in DOMAIN w : v[i] = w[i]
      /\ v[Len(w) + 1] = x /\ v[Len(w) + 2] = y
      /\ DOMAIN w = 1..Len(w) /\ Len(w) \in Nat
  BY <1>2, <1>3
<1>6. wire' = [wire EXCEPT ![socket] = v]
  BY <1>4 DEF SendWhole, w, x, y
<1>7. /\ wire'[socket] = v
      /\ \A g \in Connections : g # socket => wire'[g] = wire[g]
  BY <1>2, <1>6 DEF TypeOK
<1>8. wire' \in [Connections -> Seq(Sends)]
  BY <1>2, <1>5, <1>6 DEF TypeOK
<1>9. BodyFollows'
  BY <1>1 DEF BodyFollows
<1>10. CutOnlyBroken'
  <2> SUFFICES ASSUME NEW g \in Connections, wire'[g] # <<>>,
                      wire'[g][Len(wire'[g])].part = "length"
               PROVE  g \in broken
    BY DEF CutOnlyBroken
  <2>1. g # socket
    BY <1>5, <1>7 DEF y
  <2> QED
    BY <2>1, <1>7 DEF CutOnlyBroken
<1>11. FramesIntact'
  <2>1. w = <<>> \/ w[Len(w)].part # "length"
    BY <1>1, <1>2 DEF CutOnlyBroken, w
  <2>2. Framed(w)
    BY <1>2 DEF FramesIntact, w
  <2>3. Framed(Append(w, x))
    BY <2>1, <2>2, <1>2, <1>3, FramedLength DEF x
  <2>4. /\ Append(w, x) # <<>>
        /\ Append(w, x)[Len(Append(w, x))] = x
    BY <1>2, <1>3, Appended
  <2>5. Framed(v)
    BY <2>3, <2>4, <1>2, <1>5, FramedBody DEF x, y
  <2> QED
    BY <2>5, <1>7 DEF FramesIntact
<1>12. NoCrossTalk'
  <2> SUFFICES ASSUME NEW g \in Connections, NEW i \in DOMAIN wire'[g],
                      wire'[g][i].part = "body"
               PROVE  LET q == wire'[g][i].packet
                      IN  ~q.forced /\ q \notin carried => q.asked >= g
    BY DEF NoCrossTalk, Sent
  <2>1. CASE i \in DOMAIN wire[g] /\ wire'[g][i] = wire[g][i]
    BY <2>1 DEF NoCrossTalk, Sent
  <2>2. CASE g = socket /\ i \in {Len(w) + 1, Len(w) + 2}
    <3>1. wire'[g][i] \in {x, y}
      BY <2>2, <1>5, <1>7
    <3> QED
      BY <2>2, <3>1 DEF x, y
  <2>3. CASE g # socket
    BY <2>1, <2>3, <1>7
  <2>4. CASE g = socket
    <3>1. i \in 1..(Len(w) + 2) /\ wire'[g][i] = v[i] /\ wire[g] = w
      BY <2>4, <1>5, <1>7 DEF w
    <3>2. i \in DOMAIN w \/ i \in {Len(w) + 1, Len(w) + 2}
      BY <3>1, <1>5
    <3> QED
      BY <3>1, <3>2, <2>1, <2>2, <2>4, <1>5
  <2> QED
    BY <2>3, <2>4
<1> QED
  BY <1>8, <1>9, <1>10, <1>11, <1>12

\* The oldest packet leaves the queue that it was queued in.
LEMMA Popped ==
    ASSUME TypeOK, QueuesNumbered, attr # 0, Pop
    PROVE  /\ Oldest \in Packets
           /\ Oldest.asked = attr
           /\ queue' \in [Connections -> Seq(Packets)]
           /\ QueuesNumbered'
<1> DEFINE q == queue[attr]
<1>1. attr \in Connections /\ q \in Seq(Packets) /\ q # <<>>
  <2>1. attr \in Connections
    BY DEF TypeOK, Connections
  <2> QED
    BY <2>1 DEF TypeOK, Pop
<1>2. Oldest = q[1] /\ 1 \in DOMAIN q
  BY <1>1 DEF Oldest
<1>3. Oldest \in Packets /\ Oldest.asked = attr
  BY <1>1, <1>2 DEF QueuesNumbered
<1>4. Tail(q) \in Seq(Packets)
  BY <1>1
<1>5. queue' \in [Connections -> Seq(Packets)]
  BY <1>1, <1>4 DEF Pop, TypeOK
<1>6. \A i \in DOMAIN Tail(q) : i + 1 \in DOMAIN q /\ Tail(q)[i] = q[i + 1]
  BY <1>1
<1>7. QueuesNumbered'
  <2> SUFFICES ASSUME NEW g \in Connections, NEW i \in DOMAIN queue'[g]
               PROVE  queue'[g][i].asked = g
    BY DEF QueuesNumbered
  <2>1. CASE g = attr
    BY <2>1, <1>1, <1>6 DEF Pop, TypeOK, QueuesNumbered
  <2>2. CASE g # attr
    BY <2>2 DEF Pop, TypeOK, QueuesNumbered
  <2> QED
    BY <2>1, <2>2
<1> QED
  BY <1>3, <1>5, <1>7

\* A packet enters the queue of its connection.
LEMMA Pushed ==
    ASSUME TypeOK, QueuesNumbered, NEW g \in Connections, NEW p \in Packets,
           p.asked = g, queue' = [queue EXCEPT ![g] = Append(@, p)]
    PROVE  queue' \in [Connections -> Seq(Packets)] /\ QueuesNumbered'
<1>1. queue[g] \in Seq(Packets)
  BY DEF TypeOK
<1>2. queue' \in [Connections -> Seq(Packets)]
  BY <1>1, Appended DEF TypeOK
<1>3. QueuesNumbered'
  <2> SUFFICES ASSUME NEW h \in Connections, NEW i \in DOMAIN queue'[h]
               PROVE  queue'[h][i].asked = h
    BY DEF QueuesNumbered
  <2>1. CASE h = g
    BY <2>1, <1>1, Appended DEF TypeOK, QueuesNumbered
  <2>2. CASE h # g
    BY <2>2 DEF TypeOK, QueuesNumbered
  <2> QED
    BY <2>1, <2>2
<1> QED
  BY <1>2, <1>3


\* What the other actors have at hand, and how far they are, is disturbed
\* only by a step that changes the connection, and only the lock permits that.
LEMMA Others ==
    ASSUME Inv, NEW a \in Actors, NEW l \in Labels,
           pc' = [pc EXCEPT ![a] = l], carried \subseteq carried',
           item' = item \/ \E p : item' = [item EXCEPT ![a] = p],
           loaded' = loaded \/ \E g : loaded' = [loaded EXCEPT ![a] = g],
           \/ attr' = attr /\ socket' = socket /\ (up' => up)
           \/ lock \in {a, "none"} /\ attr' \in Nat /\ attr' >= attr,
           \/ /\ num_packets' = num_packets
              /\ a = Net /\ l \in {"drain_early", "drain_body", "drain_late"}
                     => num_packets < Burst
           \/ a = Net /\ l \notin {"drain_early", "drain_body", "drain_late"},
           socket' <= attr', up' => socket' # 0,
           HandOf(a)', LinkOf(a)'
    PROVE  AtHand' /\ Links'
<1> USE DEF Inv
<1>1. \A b \in Actors : b # a =>
         pc'[b] = pc[b] /\ item'[b] = item[b] /\ loaded'[b] = loaded[b]
  BY DEF TypeOK
<1>2. ASSUME NEW b \in Actors, b # a
      PROVE  HandOf(b)' /\ LinkOf(b)'
  <2>1. CASE attr' = attr /\ socket' = socket /\ (up' => up)
    BY <1>1, <1>2, <2>1 DEF AtHand, HandOf, Links, LinkOf
  <2>2. CASE lock \in {a, "none"} /\ attr' \in Nat /\ attr' >= attr
    <3>1. pc'[b] \notin Holding \cup Bodies
      BY <1>1, <1>2, <2>2, OneSender
    <3>2. pc'[b] \notin Carrying /\ pc'[b] \notin {"c_open", "c_start"}
      BY <3>1, LabelFacts DEF Carrying, Holding
    <3>3. HandOf(b)'
      BY <1>1, <1>2, <3>2, LabelFacts DEF AtHand, HandOf, Carrying, Early,
         Bodies
    <3>4. LinkOf(b)'
      BY <1>1, <1>2, <2>2, <3>1, <3>2 DEF Links, LinkOf, TypeOK
    <3> QED
      BY <3>3, <3>4
  <2> QED
    BY <2>1, <2>2
<1>3. pc'[Net] \in {"drain_early", "drain_body", "drain_late"}
         => num_packets' < Burst
  BY <1>1, ActorNames DEF Links, TypeOK
<1> QED
  BY <1>2, <1>3 DEF AtHand, Links

\* A step of somebody else, or of the lock's owner when its listeners have
\* nothing to do, leaves alone what listeners are about.
LEMMA NestingKept ==
    ASSUME Inv, NEW a \in Actors, NEW l \in Labels,
           pc' = [pc EXCEPT ![a] = l], LockMoves(a, l),
           pc[a] \in Listening => reentry = "none", reentry' = reentry,
           \/ attr' = attr /\ socket' = socket /\ (up' => up)
           \/ lock \in {a, "none"}
    PROVE  Nesting'
<1> USE DEF Inv
<1>1. CASE reentry = "none"
  BY <1>1 DEF Nesting
<1>2. CASE reentry # "none"
  <2>1. PICK b \in Actors : lock = b /\ pc[b] \in Listening
    BY <1>2 DEF Nesting
  <2>2. b # a /\ lock \notin {a, "none"}
    BY <1>2, <2>1, ActorNames
  <2>3. pc'[b] = pc[b] /\ lock' = lock
    BY <2>2 DEF TypeOK, LockMoves
  <2> QED
    BY <2>1, <2>2, <2>3 DEF Nesting
<1> QED
  BY <1>1, <1>2

\* A step that sends nothing preserves the invariant if it keeps the types
\* and the queues, moves with the lock, and leaves its actor with the right
\* packet at hand, in the right stage, and its listeners with the right call.
LEMMA Unsent ==
    ASSUME Inv, TypeOK', QueuesNumbered', NEW a \in Actors,
           NEW l \in Labels \ Bodies,
           pc' = [pc EXCEPT ![a] = l], LockMoves(a, l),
           wire' = wire, broken \subseteq broken', carried \subseteq carried',
           item' = item \/ \E p : item' = [item EXCEPT ![a] = p],
           loaded' = loaded \/ \E g : loaded' = [loaded EXCEPT ![a] = g],
           pc[a] \in Bodies => socket \in broken,
           \/ attr' = attr /\ socket' = socket /\ (up' => up)
           \/ /\ lock \in {a, "none"} /\ pc[a] \notin Bodies
              /\ attr' >= attr,
           \/ /\ num_packets' = num_packets
              /\ a = Net /\ l \in {"drain_early", "drain_late"}
                     => num_packets < Burst
           \/ a = Net /\ l \notin {"drain_early", "drain_late"},
           socket' <= attr', up' => socket' # 0,
           HandOf(a)', LinkOf(a)',
           \/ /\ pc[a] \in Listening => reentry = "none"
              /\ reentry' = reentry
           \/ Nesting'
    PROVE  Inv'
<1>1. BodyFollows' /\ CutOnlyBroken' /\ FramesIntact' /\ NoCrossTalk'
  BY NoSend
<1>2. l # "drain_body" /\ attr' \in Nat
  BY DEF Bodies, TypeOK
<1>3. AtHand' /\ Links'
  <2> DEFINE D == {"drain_early", "drain_body", "drain_late"}
  <2>1. \/ /\ num_packets' = num_packets
           /\ a = Net /\ l \in D => num_packets < Burst
        \/ a = Net /\ l \notin D
    BY <1>2
  <2>2. \/ attr' = attr /\ socket' = socket /\ (up' => up)
        \/ lock \in {a, "none"} /\ attr' \in Nat /\ attr' >= attr
    BY <1>2
  <2> QED
    BY <2>1, <2>2, Others
<1>4. LockOwner'
  BY LockStep DEF Inv
<1>5. Nesting'
  <2>1. \/ attr' = attr /\ socket' = socket /\ (up' => up)
        \/ lock \in {a, "none"}
    OBVIOUS
  <2> QED
    BY <2>1, NestingKept
<1> QED
  BY <1>1, <1>3, <1>4, <1>5 DEF Inv

------------------------------------------------------------------------------
(* write_packet.                                                            *)

\* WritePacket preserves the invariant.
LEMMA WritePacketInv ==
    ASSUME Inv, NEW a \in Actors, WritePacket(a)
    PROVE  Inv'
<1> USE DEF Inv
<1>1. PICK force \in BOOLEAN :
          /\ item' = [item EXCEPT ![a] = NextPacket(a, force)]
          /\ loaded' = [loaded EXCEPT ![a] = IF force THEN 0 ELSE attr]
          /\ pc' = [pc EXCEPT ![a] = IF force THEN "force" ELSE "append"]
  BY DEF WritePacket, Goto
<1> DEFINE l == IF force THEN "force" ELSE "append"
<1>2. /\ UNCHANGED <<lock, queue, attr, socket, up, broken, wire, serving,
                     num_packets, write_error, reentry, carried>>
      /\ attr # 0 /\ count < MaxPackets /\ count' = count + 1
      /\ pc[a] = Home(a)
  BY DEF WritePacket, link, netVars, Free, nested, history
<1>3. l \in Labels \ Bodies /\ l \notin Holding /\ pc[a] \notin Holding
  BY <1>2, LabelFacts
<1>4. NextPacket(a, force) \in Packets
  <2>1. count + 1 \in 0..MaxPackets
    BY <1>2, BoundsAssumption DEF TypeOK
  <2> QED
    BY <2>1 DEF NextPacket, Packets, TypeOK
<1>5. TypeOK'
  <2>1. pc' \in [Actors -> Labels]
    BY <1>1, <1>3 DEF TypeOK
  <2>2. item' \in [Actors -> Packets \cup {NoPacket}]
    BY <1>1, <1>4 DEF TypeOK
  <2>3. loaded' \in [Actors -> 0..MaxConnections]
    BY <1>1, BoundsAssumption DEF TypeOK
  <2>4. count' \in 0..MaxPackets
    BY <1>2, BoundsAssumption DEF TypeOK
  <2> QED
    BY <1>2, <2>1, <2>2, <2>3, <2>4 DEF TypeOK
<1>6. /\ pc'[a] = l /\ item'[a] = NextPacket(a, force)
      /\ loaded'[a] = IF force THEN 0 ELSE attr
  BY <1>1 DEF TypeOK
<1>7. HandOf(a)' /\ LinkOf(a)'
  BY <1>2, <1>4, <1>6 DEF HandOf, LinkOf, NextPacket, Carrying, Early, Bodies
<1>8. LockMoves(a, l) /\ QueuesNumbered'
  BY <1>2, <1>3 DEF LockMoves, QueuesNumbered
<1>9. /\ pc[a] \notin Bodies \cup Listening
      /\ l \notin {"drain_early", "drain_late"}
      /\ socket' <= attr' /\ (up' => socket' # 0)
  BY <1>2, <1>3, LabelFacts DEF Links
<1> QED
  BY <1>1, <1>2, <1>3, <1>5, <1>7, <1>8, <1>9, Unsent

\* AppendPacket preserves the invariant.
LEMMA AppendPacketInv ==
    ASSUME Inv, NEW a \in Actors, AppendPacket(a)
    PROVE  Inv'
<1> USE DEF Inv
<1>1. /\ pc[a] = "append"
      /\ queue' = [queue EXCEPT ![loaded[a]] = Append(@, item[a])]
      /\ item' = [item EXCEPT ![a] = NoPacket]
      /\ loaded' = [loaded EXCEPT ![a] = 0]
      /\ pc' = [pc EXCEPT ![a] = Home(a)]
      /\ UNCHANGED <<lock, attr, socket, up, broken, wire, count, serving,
                     num_packets, write_error, reentry, carried>>
  BY DEF AppendPacket, Goto, link, netVars, nested
<1>2. /\ item[a] \in Packets /\ item[a].asked = loaded[a]
      /\ loaded[a] \in Connections
  BY <1>1 DEF AtHand, HandOf, TypeOK, Connections
<1>3. queue' \in [Connections -> Seq(Packets)] /\ QueuesNumbered'
  BY <1>1, <1>2, Pushed
<1>4. /\ Home(a) \in {"idle", "react"} /\ Home(a) \in Labels \ Bodies
      /\ Home(a) \notin Holding /\ pc[a] \notin Holding
      /\ pc[a] \notin Bodies \cup Listening
      /\ Home(a) \notin {"drain_early", "drain_late"}
  BY <1>1, LabelFacts
<1>5. TypeOK'
  <2>1. /\ pc' \in [Actors -> Labels]
        /\ item' \in [Actors -> Packets \cup {NoPacket}]
        /\ loaded' \in [Actors -> 0..MaxConnections]
    BY <1>1, <1>4, BoundsAssumption DEF TypeOK
  <2> QED
    BY <1>1, <1>3, <2>1 DEF TypeOK
<1>6. HandOf(a)' /\ LinkOf(a)'
  <2>1. pc'[a] \in {"idle", "react"}
    BY <1>1, <1>4 DEF TypeOK
  <2> QED
    BY <2>1, LabelFacts DEF HandOf, LinkOf, Carrying, Early, Bodies
<1>7. LockMoves(a, Home(a)) /\ socket' <= attr' /\ (up' => socket' # 0)
  BY <1>1, <1>4 DEF LockMoves, Links
<1> QED
  BY <1>1, <1>3, <1>4, <1>5, <1>6, <1>7, Unsent

\* What a step takes from a queue, or has taken already, is at hand then.
LEMMA TakesInv ==
    ASSUME Inv, NEW a \in Actors, NEW l \in Early, NEW p \in Packets,
           pc' = [pc EXCEPT ![a] = l], pc[a] \notin Bodies \cup Listening,
           LockMoves(a, l), attr # 0, Take(a, p),
           p.forced \/ p.asked >= socket, l = "force_early" => p.forced,
           l = "drain_early" => num_packets < Burst,
           queue' \in [Connections -> Seq(Packets)], QueuesNumbered',
           UNCHANGED <<link, broken, wire, loaded, count, netVars, history,
                       nested>>
    PROVE  Inv'
<1> USE DEF Inv
<1>1. /\ UNCHANGED <<attr, socket, up, broken, wire, loaded, count, serving,
                     num_packets, write_error, reentry, carried>>
      /\ item' = [item EXCEPT ![a] = p]
  BY DEF link, netVars, nested, history, Take
<1>2. l \in Labels \ Bodies /\ l \in Holding
  BY LabelFacts
<1>3. TypeOK'
  <2>1. /\ pc' \in [Actors -> Labels]
        /\ item' \in [Actors -> Packets \cup {NoPacket}]
        /\ lock' \in Actors \cup {"none"}
    BY <1>1, <1>2 DEF TypeOK, LockMoves
  <2> QED
    BY <1>1, <2>1 DEF TypeOK
<1>4. HandOf(a)' /\ LinkOf(a)'
  <2>1. pc'[a] = l /\ item'[a] = p
    BY <1>1 DEF TypeOK
  <2> QED
    BY <1>1, <2>1 DEF HandOf, LinkOf, Carrying, Early, Bodies
<1>5. /\ socket' <= attr' /\ (up' => socket' # 0)
      /\ l \notin Late /\ l # "drain_late"
  BY <1>1, LabelFacts DEF Links, Late
<1> QED
  BY <1>1, <1>2, <1>3, <1>4, <1>5, Unsent

\* ForcedTake preserves the invariant.
LEMMA ForcedTakeInv ==
    ASSUME Inv, NEW a \in Actors, ForcedTake(a)
    PROVE  Inv'
<1> USE DEF Inv
<1>1. /\ pc[a] = "force" /\ lock = "none" /\ lock' = a
      /\ pc' = [pc EXCEPT ![a] = "force_early"]
      /\ UNCHANGED <<queue, item, loaded>>
      /\ UNCHANGED <<link, broken, wire, loaded, count, netVars, history,
                     nested>>
  BY DEF ForcedTake, Acquire, Goto, held
<1>2. item[a] \in Packets /\ item[a].forced /\ attr # 0
  BY <1>1 DEF AtHand, HandOf, Links, LinkOf
<1>3. /\ pc[a] \notin Bodies \cup Listening
      /\ "force_early" \in Early /\ LockMoves(a, "force_early")
  BY <1>1, LabelFacts DEF LockMoves, Early
<1>4. Take(a, item[a])
  BY <1>1 DEF Take, TypeOK
<1>5. queue' \in [Connections -> Seq(Packets)] /\ QueuesNumbered'
  BY <1>1 DEF TypeOK, QueuesNumbered
<1> QED
  BY <1>1, <1>2, <1>3, <1>4, <1>5, TakesInv

\* NetTake and FlushTake preserve the invariant.
LEMMA PopTakesInv ==
    ASSUME Inv, NEW a \in Actors, (a = Net /\ NetTake) \/ FlushTake(a)
    PROVE  Inv'
<1> USE DEF Inv
<1>1. /\ pc[a] \in {"drain", "flush"} /\ Pop /\ Take(a, Oldest)
      /\ lock' = lock
      /\ UNCHANGED <<link, broken, wire, loaded, count, netVars, history,
                     nested>>
  BY DEF NetTake, FlushTake
<1>2. PICK l \in {"drain_early", "flush_early"} :
          /\ pc' = [pc EXCEPT ![a] = l]
          /\ l = "drain_early" => num_packets < Burst
  BY DEF NetTake, FlushTake, Goto
<1>3. pc[a] \in Holding /\ pc[a] \notin Bodies \cup Listening
  BY <1>1 DEF Holding, Bodies, Listening, Early, Late
<1>4. attr # 0
  BY <1>3 DEF Links, LinkOf
<1>5. /\ Oldest \in Packets /\ Oldest.asked = attr
      /\ queue' \in [Connections -> Seq(Packets)] /\ QueuesNumbered'
  BY <1>1, <1>4, Popped
<1>6. Oldest.asked >= socket
  BY <1>5 DEF Links, TypeOK
<1>7. l \in Early /\ l # "force_early" /\ LockMoves(a, l)
  BY <1>1, <1>3, LabelFacts DEF LockMoves, Early
<1> QED
  BY <1>1, <1>2, <1>3, <1>4, <1>5, <1>6, <1>7, TakesInv

\* ForcedLength, NetLength and FlushLength preserve the invariant.
LEMMA LengthInv ==
    ASSUME Inv, NEW a \in Actors,
           ForcedLength(a) \/ (a = Net /\ NetLength) \/ FlushLength(a)
    PROVE  Inv'
<1> USE DEF Inv
<1>1. /\ pc[a] \in Early /\ Heard /\ SendLength(a) /\ lock' = lock
      /\ UNCHANGED <<queue, attr, socket, up, broken, item, loaded, count,
                     serving, num_packets, write_error, reentry, carried>>
  BY DEF ForcedLength, NetLength, FlushLength, Early, link, netVars, history,
     nested, SendLength
<1>2. PICK l \in Bodies :
          /\ pc' = [pc EXCEPT ![a] = l]
          /\ l = "force_body" <=> pc[a] = "force_early"
          /\ l = "drain_body" => pc[a] = "drain_early"
  BY DEF ForcedLength, NetLength, FlushLength, Goto, Bodies
<1>3. /\ l \in Labels /\ l \in Holding /\ pc[a] \in Holding
      /\ pc[a] \in Listening /\ pc[a] \notin Bodies
  BY <1>1, LabelFacts
<1>4. lock = a
  BY <1>3 DEF LockOwner
<1>5. /\ BodyFollows' /\ CutOnlyBroken' /\ FramesIntact' /\ NoCrossTalk'
      /\ wire' \in [Connections -> Seq(Sends)]
  BY <1>1, <1>2, <1>4, LengthSent
<1>6. TypeOK'
  <2>1. pc' \in [Actors -> Labels]
    BY <1>2, <1>3 DEF TypeOK
  <2> QED
    BY <1>1, <1>5, <2>1 DEF TypeOK
<1>7. LockMoves(a, l) /\ LockOwner'
  BY <1>1, <1>2, <1>3, LockStep DEF LockMoves
<1>8. HandOf(a)' /\ LinkOf(a)'
  <2>1. pc'[a] = l /\ l # "append" /\ l # "force" /\ l \notin {"c_open", "c_start"}
    BY <1>2 DEF TypeOK, Bodies
  <2>2. HandOf(a) /\ LinkOf(a)
    BY DEF AtHand, Links
  <2>3. item[a] \in Packets /\ attr # 0
        /\ (item[a].forced \/ item[a] \in carried \/ item[a].asked >= socket)
    BY <2>2, <1>1, <1>3 DEF HandOf, Carrying, LinkOf
  <2>4. l = "force_body" => item[a].forced
    BY <1>2, <2>2 DEF HandOf
  <2>5. l # "force_early"
    BY <1>2 DEF Bodies
  <2> QED
    BY <1>1, <2>1, <2>3, <2>4, <2>5 DEF HandOf, LinkOf
<1>9. AtHand' /\ Links'
  <2> DEFINE D == {"drain_early", "drain_body", "drain_late"}
  <2>1. l \in D => num_packets < Burst
    <3>1. CASE l = "drain_body"
      <4>1. pc[a] = "drain_early"
        BY <1>2, <3>1
      <4>2. a = Net
        BY <4>1 DEF ForcedLength, FlushLength
      <4> QED
        BY <4>1, <4>2 DEF Links
    <3> QED
      BY <3>1, <1>2 DEF Bodies
  <2> QED
    BY <2>1, <1>1, <1>2, <1>3, <1>8, Others DEF Links
<1>10. Nesting'
  BY <1>1, <1>2, <1>3, <1>7, NestingKept DEF Heard
<1>11. QueuesNumbered'
  BY <1>1 DEF QueuesNumbered
<1> QED
  BY <1>5, <1>6, <1>7, <1>9, <1>10, <1>11

\* ForcedBody, NetBody and FlushBody preserve the invariant.
LEMMA BodyInv ==
    ASSUME Inv, NEW a \in Actors,
           ForcedBody(a) \/ (a = Net /\ NetBody) \/ FlushBody(a)
    PROVE  Inv'
<1> USE DEF Inv
<1>1. /\ pc[a] \in Bodies /\ SendBody(a) /\ lock' = lock
      /\ item' = [item EXCEPT ![a] = NoPacket]
      /\ UNCHANGED <<queue, attr, socket, up, broken, loaded, count, serving,
                     num_packets, write_error, reentry, carried>>
  BY DEF ForcedBody, NetBody, FlushBody, Bodies, link, netVars, history,
     nested, SendBody, Drop
<1>2. PICK l \in Late :
          /\ pc' = [pc EXCEPT ![a] = l]
          /\ l = "drain_late" => pc[a] = "drain_body" /\ a = Net
  BY DEF ForcedBody, NetBody, FlushBody, Goto, Late
<1>3. /\ l \in Labels \ Bodies /\ l \in Holding /\ pc[a] \in Holding
      /\ l \notin Carrying /\ pc[a] \notin Listening
  BY <1>1, LabelFacts DEF Carrying
<1>4. lock = a
  BY <1>3 DEF LockOwner
<1>5. /\ BodyFollows' /\ CutOnlyBroken' /\ FramesIntact' /\ NoCrossTalk'
      /\ wire' \in [Connections -> Seq(Sends)]
  BY <1>1, <1>2, <1>3, BodySent
<1>6. TypeOK'
  <2>1. /\ pc' \in [Actors -> Labels]
        /\ item' \in [Actors -> Packets \cup {NoPacket}]
    BY <1>1, <1>2, <1>3 DEF TypeOK
  <2> QED
    BY <1>1, <1>5, <2>1 DEF TypeOK
<1>7. LockMoves(a, l) /\ LockOwner'
  BY <1>1, <1>2, <1>3, LockStep DEF LockMoves
<1>8. HandOf(a)' /\ LinkOf(a)'
  <2>1. pc'[a] = l
    BY <1>2 DEF TypeOK
  <2>2. l \notin {"append", "force", "force_early", "force_body", "c_open",
                  "c_start"}
    BY DEF Late
  <2>3. attr # 0
    BY <1>3 DEF Links, LinkOf
  <2> QED
    BY <1>1, <1>3, <2>1, <2>2, <2>3 DEF HandOf, LinkOf
<1>9. AtHand' /\ Links'
  <2> DEFINE D == {"drain_early", "drain_body", "drain_late"}
  <2>1. l \in D => num_packets < Burst
    BY <1>2 DEF Late, Links
  <2> QED
    BY <2>1, <1>1, <1>2, <1>3, <1>8, Others DEF Links
<1>10. Nesting'
  BY <1>1, <1>2, <1>3, <1>7, NestingKept
<1>11. QueuesNumbered'
  BY <1>1 DEF QueuesNumbered
<1> QED
  BY <1>5, <1>6, <1>7, <1>9, <1>10, <1>11

\* A step that lets go of the packet at hand, sent, ignored or lost, and
\* leaves the queues and the connection alone, preserves the invariant.
LEMMA LetsGoInv ==
    ASSUME Inv, NEW a \in Actors,
           NEW l \in {"idle", "react", "failed", "read", "drain", "flush"},
           pc' = [pc EXCEPT ![a] = l], pc[a] \in Bodies \cup Listening,
           pc[a] \in Bodies => ~CanSend, LockMoves(a, l), Drop(a),
           \/ /\ pc[a] \in Listening => Heard
              /\ reentry' = reentry
           \/ reentry' = "none",
           write_error' \in BOOLEAN, num_packets' \in 0..Burst,
           num_packets' = num_packets \/ a = Net,
           UNCHANGED <<queue, link, broken, wire, loaded, count, serving,
                       carried>>
    PROVE  Inv'
<1> USE DEF Inv
<1>1. /\ UNCHANGED <<attr, socket, up>>
      /\ item' = [item EXCEPT ![a] = NoPacket]
  BY DEF link, Drop
<1>2. /\ l \in Labels \ Bodies /\ l \notin Carrying /\ pc[a] \in Holding
      /\ l \notin {"append", "force", "c_open", "c_start", "drain_early",
                   "drain_late", "force_early", "force_body"}
  BY LabelFacts DEF Labels, Bodies, Carrying, Early
<1>3. TypeOK'
  <2>1. /\ pc' \in [Actors -> Labels]
        /\ item' \in [Actors -> Packets \cup {NoPacket}]
    BY <1>1, <1>2 DEF TypeOK
  <2>2. /\ lock' \in Actors \cup {"none"}
        /\ reentry' \in {"none", "flush", "close", "open", "start", "raised"}
    BY DEF TypeOK, LockMoves
  <2> QED
    BY <1>1, <2>1, <2>2 DEF TypeOK
<1>4. HandOf(a)' /\ LinkOf(a)'
  <2>1. pc'[a] = l
    BY DEF TypeOK
  <2>2. attr # 0
    BY <1>2 DEF Links, LinkOf
  <2> QED
    BY <1>1, <1>2, <2>1, <2>2 DEF HandOf, LinkOf
<1>5. pc[a] \in Bodies => socket \in broken
  BY DEF BodyFollows, CanSend
<1>6. \/ (pc[a] \in Listening => reentry = "none") /\ reentry' = reentry
      \/ Nesting'
  BY DEF Nesting, Heard
<1>7. QueuesNumbered' /\ socket' <= attr' /\ (up' => socket' # 0)
  BY <1>1 DEF QueuesNumbered, Links
<1>8. \/ /\ num_packets' = num_packets
         /\ l \in {"drain_early", "drain_late"} => num_packets < Burst
      \/ a = Net /\ l \notin {"drain_early", "drain_late"}
  BY <1>2
<1> QED
  BY <1>1, <1>2, <1>3, <1>4, <1>5, <1>6, <1>7, <1>8, Unsent

\* ForcedDone, NetDone and FlushDone preserve the invariant.
LEMMA DoneInv ==
    ASSUME Inv, NEW a \in Actors,
           ForcedDone(a) \/ (a = Net /\ NetDone) \/ FlushDone(a)
    PROVE  Inv'
<1> USE DEF Inv
<1>1. /\ pc[a] \in Listening /\ Heard /\ Drop(a) /\ reentry' = reentry
      /\ UNCHANGED <<queue, link, broken, wire, loaded, count, serving,
                     carried>>
      /\ write_error' \in BOOLEAN
  BY DEF ForcedDone, NetDone, FlushDone, Listening, Early, Late, nested,
     history, netVars, TypeOK
<1>2. pc[a] \in Holding /\ lock = a /\ pc[a] \notin Bodies
  BY <1>1, LabelFacts DEF LockOwner
<1>3. PICK l \in {"idle", "react", "drain", "flush"} :
          pc' = [pc EXCEPT ![a] = l] /\ LockMoves(a, l)
  <2>1. CASE ForcedDone(a)
    <3>1. Home(a) \in {"idle", "react"} /\ Home(a) \notin Holding
      BY LabelFacts
    <3>2. LockMoves(a, Home(a)) /\ pc' = [pc EXCEPT ![a] = Home(a)]
      BY <2>1, <3>1, <1>2 DEF ForcedDone, Goto, Release, LockMoves
    <3> QED
      BY <3>1, <3>2
  <2>2. CASE a = Net /\ NetDone
    BY <2>2, <1>2 DEF NetDone, Goto, LockMoves, Holding
  <2>3. CASE FlushDone(a)
    BY <2>3, <1>2 DEF FlushDone, Goto, LockMoves, Holding
  <2> QED
    BY <2>1, <2>2, <2>3
<1>4. num_packets' \in 0..Burst /\ (num_packets' = num_packets \/ a = Net)
  <2>1. CASE a = Net /\ NetDone
    <3>1. num_packets < Burst
      BY <2>1 DEF NetDone, Links
    <3> QED
      BY <2>1, <3>1, BoundsAssumption DEF NetDone, TypeOK
  <2>2. CASE ForcedDone(a) \/ FlushDone(a)
    BY <2>2 DEF ForcedDone, FlushDone, netVars, TypeOK
  <2> QED
    BY <2>1, <2>2
<1> QED
  BY <1>1, <1>2, <1>3, <1>4, LetsGoInv

\* ForcedFails, NetWriteRaises and FlushFails preserve the invariant.
LEMMA RaisesInv ==
    ASSUME Inv, NEW a \in Actors,
           ForcedFails(a) \/ (a = Net /\ NetWriteRaises) \/ FlushFails(a)
    PROVE  Inv'
<1> USE DEF Inv
<1>1. /\ pc[a] \in Bodies \cup Listening /\ (pc[a] \in Bodies => ~CanSend)
      /\ Drop(a) /\ lock' = "none"
      /\ UNCHANGED <<queue, link, broken, wire, loaded, count, serving,
                     carried, num_packets>>
      /\ write_error' \in BOOLEAN
  BY DEF ForcedFails, NetWriteRaises, FlushFails, Bodies, Listening, Early,
     Late, Release, history, netVars, TypeOK
<1>2. PICK l \in {"idle", "failed", "read"} : pc' = [pc EXCEPT ![a] = l]
  BY DEF ForcedFails, NetWriteRaises, FlushFails, Raises, Goto
<1>3. lock = a /\ LockMoves(a, l)
  BY <1>1, LabelFacts DEF LockOwner, LockMoves
<1>4. \/ /\ pc[a] \in Listening => Heard
         /\ reentry' = reentry
      \/ reentry' = "none"
  <2>1. Raised \/ (pc[a] \in Bodies /\ UNCHANGED nested)
    BY DEF ForcedFails, NetWriteRaises, FlushFails, Bodies
  <2> QED
    BY <2>1, LabelFacts DEF Raised, nested
<1>5. num_packets' \in 0..Burst
  BY <1>1 DEF TypeOK
<1> QED
  BY <1>1, <1>2, <1>3, <1>4, <1>5, LetsGoInv

------------------------------------------------------------------------------
(* connect and disconnect.                                                  *)

\* ConnectFails, ConnectStart, DisconnectClose and NetCleanup preserve the
\* invariant.
LEMMA ReleasesInv ==
    ASSUME Inv, NEW a \in Actors,
           \/ ConnectFails(a) \/ ConnectStart(a) \/ DisconnectClose(a)
           \/ a = Net /\ NetCleanup
    PROVE  Inv'
<1> USE DEF Inv
<1>1. PICK l \in {"idle", "react", "failed"} : pc' = [pc EXCEPT ![a] = l]
  BY LabelFacts
  DEF ConnectFails, ConnectStart, DisconnectClose, NetCleanup, Raises, Goto
<1>2. /\ pc[a] \in {"c_open", "c_start", "flush", "close", "cleanup"}
      /\ lock' = "none"
      /\ UNCHANGED <<queue, attr, broken, wire, item, loaded, count, serving,
                     num_packets, write_error, reentry, carried>>
  BY DEF ConnectFails, ConnectStart, DisconnectClose, NetCleanup, Release,
     held, netVars, nested, history, Acquire
<1>3. lock \in {a, "none"}
  <2>1. CASE pc[a] = "cleanup"
    BY <2>1 DEF ConnectFails, ConnectStart, DisconnectClose, NetCleanup
  <2>2. CASE pc[a] # "cleanup"
    BY <1>2, <2>2 DEF LockOwner, Holding
  <2> QED
    BY <2>1, <2>2
<1>4. socket' \in {socket, 0} /\ up' \in BOOLEAN /\ (up' => socket' # 0)
  <2>1. CASE ConnectFails(a)
    BY <2>1 DEF ConnectFails, Links, LinkOf, TypeOK
  <2>2. CASE ConnectStart(a)
    <3>1. attr # 0 /\ socket = attr
      BY <2>2 DEF ConnectStart, Links, LinkOf, Holding
    <3> QED
      BY <2>2, <3>1 DEF ConnectStart
  <2>3. CASE DisconnectClose(a) \/ NetCleanup
    BY <2>3 DEF DisconnectClose, NetCleanup
  <2> QED
    BY <2>1, <2>2, <2>3
<1>5. /\ l \in Labels \ Bodies /\ l \notin Holding \cup Carrying
      /\ l \notin {"append", "force", "c_open", "c_start", "force_early",
                   "force_body", "drain_early", "drain_late"}
      /\ pc[a] \notin Bodies \cup Listening
  BY <1>2, LabelFacts DEF Bodies, Listening, Carrying, Early, Late
<1>6. TypeOK'
  <2>1. pc' \in [Actors -> Labels]
    BY <1>1, <1>5 DEF TypeOK
  <2>2. socket' \in 0..MaxConnections
    BY <1>4, BoundsAssumption DEF TypeOK
  <2> QED
    BY <1>2, <1>4, <2>1, <2>2 DEF TypeOK
<1>7. HandOf(a)' /\ LinkOf(a)'
  <2>1. pc'[a] = l
    BY <1>1 DEF TypeOK
  <2> QED
    BY <1>5, <2>1 DEF HandOf, LinkOf
<1>8. attr' >= attr /\ socket' <= attr' /\ LockMoves(a, l) /\ QueuesNumbered'
  BY <1>2, <1>3, <1>4, <1>5, BoundsAssumption
  DEF Links, TypeOK, LockMoves, QueuesNumbered
<1>9. num_packets' = num_packets /\ l \notin {"drain_early", "drain_late"}
      /\ item' = item /\ loaded' = loaded /\ broken' = broken
      /\ carried' = carried /\ wire' = wire /\ reentry' = reentry
  BY <1>2, <1>5
<1> QED
  BY <1>1, <1>3, <1>4, <1>5, <1>6, <1>7, <1>8, <1>9, Unsent

\* ConnectQueue preserves the invariant.
LEMMA ConnectQueueInv ==
    ASSUME Inv, NEW a \in Actors, ConnectQueue(a)
    PROVE  Inv'
<1> USE DEF Inv
<1>1. /\ pc[a] = Home(a) /\ ~up /\ attr < MaxConnections
      /\ lock = "none" /\ lock' = a
      /\ attr' = attr + 1
      /\ pc' = [pc EXCEPT ![a] = "c_open"]
      /\ UNCHANGED <<queue, socket, up, broken, wire, item, loaded, count,
                     serving, num_packets, write_error, reentry, carried>>
  BY DEF ConnectQueue, Free, Acquire, Goto, held, netVars, nested, history
<1>2. /\ "c_open" \in Labels \ Bodies /\ "c_open" \in Holding
      /\ "c_open" \notin Carrying
  BY DEF Labels, Bodies, Holding, Carrying, Early
<1>3. pc[a] \notin Bodies \cup Listening
  BY <1>1, LabelFacts
<1>4. /\ attr' \in 1..MaxConnections /\ attr' # 0
      /\ attr' >= attr /\ socket' <= attr'
  BY <1>1, BoundsAssumption DEF TypeOK, Links
<1>5. TypeOK'
  <2>1. pc' \in [Actors -> Labels]
    BY <1>1, <1>2 DEF TypeOK
  <2>2. attr' \in 0..MaxConnections
    BY <1>4
  <2> QED
    BY <1>1, <2>1, <2>2 DEF TypeOK
<1>6. HandOf(a)' /\ LinkOf(a)'
  <2>1. pc'[a] = "c_open"
    BY <1>1 DEF TypeOK
  <2> QED
    BY <1>1, <1>2, <1>4, <2>1 DEF HandOf, LinkOf
<1>7. LockMoves(a, "c_open") /\ QueuesNumbered' /\ (up' => socket' # 0)
  BY <1>1, <1>2 DEF LockMoves, QueuesNumbered, Links
<1> QED
  BY <1>1, <1>2, <1>3, <1>4, <1>5, <1>6, <1>7, Unsent

\* ConnectHandshake preserves the invariant.
LEMMA ConnectHandshakeInv ==
    ASSUME Inv, NEW a \in Actors, ConnectHandshake(a)
    PROVE  Inv'
<1> USE DEF Inv
<1>1. /\ pc[a] = "c_open" /\ socket' = attr
      /\ queue' = [queue EXCEPT ![attr] = Append(@, Handshake(attr))]
      /\ pc' = [pc EXCEPT ![a] = "c_start"]
      /\ UNCHANGED <<lock, attr, up, broken, wire, item, loaded, count,
                     serving, num_packets, write_error, reentry, carried>>
  BY DEF ConnectHandshake, Goto, held, netVars, nested, history
<1>2. /\ "c_start" \in Labels \ Bodies /\ "c_start" \in Holding
      /\ "c_start" \notin Carrying
      /\ pc[a] \in Holding /\ pc[a] \notin Bodies \cup Listening
  BY <1>1 DEF Labels, Bodies, Holding, Listening, Carrying, Early, Late
<1>3. lock = a /\ attr # 0
  BY <1>2 DEF LockOwner, Links, LinkOf
<1>4. attr \in Connections
  BY <1>3 DEF TypeOK, Connections
<1>5. Handshake(attr) \in Packets /\ Handshake(attr).asked = attr
  BY BoundsAssumption DEF Handshake, Packets, TypeOK
<1>6. queue' \in [Connections -> Seq(Packets)] /\ QueuesNumbered'
  BY <1>1, <1>4, <1>5, Pushed
<1>7. TypeOK'
  <2>1. pc' \in [Actors -> Labels]
    BY <1>1, <1>2 DEF TypeOK
  <2>2. socket' \in 0..MaxConnections
    BY <1>1 DEF TypeOK
  <2> QED
    BY <1>1, <1>6, <2>1, <2>2 DEF TypeOK
<1>8. HandOf(a)' /\ LinkOf(a)'
  <2>1. pc'[a] = "c_start"
    BY <1>1 DEF TypeOK
  <2> QED
    BY <1>1, <1>2, <1>3, <2>1 DEF HandOf, LinkOf
<1>9. /\ socket' <= attr' /\ socket' # 0 /\ attr' >= attr
      /\ LockMoves(a, "c_start")
  BY <1>1, <1>2, <1>4, BoundsAssumption DEF Connections, LockMoves
<1> QED
  BY <1>1, <1>2, <1>3, <1>6, <1>7, <1>8, <1>9, Unsent

\* Disconnect preserves the invariant.
LEMMA DisconnectInv ==
    ASSUME Inv, NEW a \in Actors, Disconnect(a)
    PROVE  Inv'
<1> USE DEF Inv
<1>1. PICK l \in {"flush", "close"} : pc' = [pc EXCEPT ![a] = l]
  BY DEF Disconnect, Goto
<1>2. /\ pc[a] = Home(a) /\ socket # 0 /\ lock = "none" /\ lock' = a
      /\ UNCHANGED <<queue, attr, socket, up, broken, wire, item, loaded,
                     count, serving, num_packets, write_error, reentry,
                     carried>>
  BY DEF Disconnect, Free, Acquire, link, held, netVars, nested, history
<1>3. /\ l \in Labels \ Bodies /\ l \in Holding /\ l \notin Carrying
      /\ l \notin {"append", "force", "force_early", "force_body", "c_open",
                   "c_start", "drain_early", "drain_late"}
      /\ pc[a] \notin Bodies \cup Listening
  BY <1>2, LabelFacts DEF Labels, Bodies, Holding, Carrying, Early
<1>4. TypeOK'
  BY <1>1, <1>2, <1>3 DEF TypeOK
<1>5. attr # 0
  BY <1>2 DEF Links, TypeOK
<1>6. HandOf(a)' /\ LinkOf(a)'
  <2>1. pc'[a] = l
    BY <1>1 DEF TypeOK
  <2> QED
    BY <1>2, <1>3, <1>5, <2>1 DEF HandOf, LinkOf
<1>7. /\ LockMoves(a, l) /\ QueuesNumbered'
      /\ socket' <= attr' /\ (up' => socket' # 0)
  BY <1>2, <1>3 DEF LockMoves, QueuesNumbered, Links
<1> QED
  BY <1>1, <1>2, <1>3, <1>4, <1>6, <1>7, Unsent

------------------------------------------------------------------------------
(* The networking thread, and the server.                                   *)

\* The steps of the networking thread that change only its own variables,
\* take or release the lock, and possibly interrupt the thread, preserve the
\* invariant.
LEMMA NetInv ==
    ASSUME Inv,
           NEW l \in {"idle", "top", "drain", "read", "stuck", "react",
                      "failed", "handled", "cleanup"},
           pc' = [pc EXCEPT ![Net] = l], LockMoves(Net, l),
           pc[Net] \notin Bodies \cup Listening,
           l = "drain" => attr # 0,
           up' \in BOOLEAN, up' => up, serving' \in {serving, socket},
           num_packets' \in 0..Burst, write_error' \in BOOLEAN,
           UNCHANGED <<queue, attr, socket, broken, wire, held, count,
                       history, nested>>
    PROVE  Inv'
<1> USE ActorNames DEF Inv
<1>1. UNCHANGED <<queue, attr, socket, broken, wire, item, loaded, count,
                  reentry, carried>>
  BY DEF held, history, nested
<1>2. /\ l \in Labels \ Bodies /\ l \notin Carrying
      /\ l \notin {"append", "force", "force_early", "force_body", "c_open",
                   "c_start", "drain_early", "drain_late"}
      /\ l # "drain" => l \notin Holding
  BY LabelFacts DEF Labels, Bodies, Carrying, Early
<1>3. TypeOK'
  <2>1. pc' \in [Actors -> Labels] /\ lock' \in Actors \cup {"none"}
    BY <1>2 DEF TypeOK, LockMoves
  <2>2. serving' \in 0..MaxConnections
    BY DEF TypeOK
  <2> QED
    BY <1>1, <2>1, <2>2 DEF TypeOK
<1>4. HandOf(Net)' /\ LinkOf(Net)'
  <2>1. pc'[Net] = l
    BY DEF TypeOK
  <2> QED
    BY <1>1, <1>2, <2>1 DEF HandOf, LinkOf
<1>5. QueuesNumbered' /\ socket' <= attr' /\ (up' => socket' # 0)
  BY <1>1 DEF QueuesNumbered, Links
<1> QED
  BY <1>1, <1>2, <1>3, <1>4, <1>5, Unsent

\* NetTop and NetDrained preserve the invariant.
LEMMA NetLockInv == ASSUME Inv, NetTop \/ NetDrained PROVE Inv'
<1> USE DEF Inv
<1>1. CASE NetTop
  <2>1. PICK l \in {"idle", "drain"} :
            /\ pc' = [pc EXCEPT ![Net] = l]
            /\ \/ l = "idle" /\ lock' = lock
               \/ l = "drain" /\ up /\ lock = "none" /\ lock' = Net
    BY <1>1 DEF NetTop, Goto, Acquire, Interrupted
  <2>2. /\ pc[Net] = "top" /\ num_packets' = 0 /\ write_error' = FALSE
        /\ serving' = serving
        /\ UNCHANGED <<queue, attr, socket, up, broken, wire, held, count,
                       history, nested>>
    BY <1>1 DEF NetTop, link
  <2>3. pc[Net] \notin Holding /\ pc[Net] \notin Bodies \cup Listening
    BY <2>2, LabelFacts
  <2>4. LockMoves(Net, l)
    BY <2>1, <2>3, LabelFacts DEF LockMoves, Holding
  <2>5. l = "drain" => attr # 0
    BY <2>1 DEF Links, TypeOK
  <2>6. write_error' \in BOOLEAN /\ up' \in BOOLEAN
    BY <2>2 DEF TypeOK
  <2>7. num_packets' \in 0..Burst
    BY <2>2, BoundsAssumption
  <2> QED
    BY <2>1, <2>2, <2>3, <2>4, <2>5, <2>6, <2>7, NetInv
<1>2. CASE NetDrained
  <2>1. /\ pc[Net] = "drain" /\ lock' = "none"
        /\ pc' = [pc EXCEPT ![Net] = "read"]
        /\ UNCHANGED <<queue, attr, socket, up, broken, wire, held, count,
                       serving, num_packets, write_error, history, nested>>
    BY <1>2 DEF NetDrained, Goto, Release, link, netVars
  <2>2. lock = Net /\ pc[Net] \notin Bodies \cup Listening
    BY <2>1, ActorNames
    DEF LockOwner, Holding, Bodies, Listening, Early, Late
  <2>3. LockMoves(Net, "read")
    BY <2>1, <2>2, LabelFacts DEF LockMoves
  <2>4. num_packets' \in 0..Burst /\ write_error' \in BOOLEAN /\ up' \in BOOLEAN
    BY <2>1 DEF TypeOK
  <2> QED
    BY <2>1, <2>2, <2>3, <2>4, NetInv
<1> QED
  BY <1>1, <1>2

\* The steps of the networking thread outside the lock preserve the invariant.
LEMMA NetLocalInv ==
    ASSUME Inv,
           \/ NetStart \/ NetRead \/ NetStuck \/ NetRestArrives
           \/ NetStuckRaises \/ NetReacted \/ NetReadDone \/ NetFailed
           \/ NetCheck
    PROVE  Inv'
<1> USE ActorNames DEF Inv
<1>1. PICK l \in {"idle", "top", "read", "stuck", "react", "failed",
                  "handled", "cleanup"} : pc' = [pc EXCEPT ![Net] = l]
  BY DEF NetStart, NetRead, NetStuck, NetRestArrives, NetStuckRaises,
     NetReacted, NetReadDone, NetFailed, NetCheck, Goto
<1>2. /\ pc[Net] \in {"idle", "top", "read", "stuck", "react", "failed",
                      "handled"}
      /\ UNCHANGED <<lock, queue, attr, socket, broken, wire, held, count,
                     history, nested>>
      /\ up' \in BOOLEAN /\ (up' => up)
  <2>1. CASE NetFailed
    <3>1. up' = (up /\ serving # socket)
      BY <2>1 DEF NetFailed
    <3>2. up' \in BOOLEAN /\ (up' => up)
      BY <3>1, Zenon
    <3> QED
      BY <2>1, <3>2 DEF NetFailed
  <2>2. CASE ~NetFailed
    <3>1. /\ pc[Net] \in {"idle", "top", "read", "stuck", "react", "handled"}
          /\ UNCHANGED <<lock, queue, attr, socket, up, broken, wire, held,
                         count, history, nested>>
      BY <2>2
      DEF NetStart, NetRead, NetStuck, NetRestArrives, NetStuckRaises,
          NetReacted, NetReadDone, NetCheck, link
    <3> QED
      BY <3>1 DEF TypeOK
  <2> QED
    BY <2>1, <2>2
<1>3. /\ serving' \in {serving, socket} /\ num_packets' \in 0..Burst
      /\ write_error' \in BOOLEAN
  <2>1. CASE NetReacted
    <3>1. write_error' \in BOOLEAN
      BY <2>1 DEF NetReacted, TypeOK
    <3> QED
      BY <2>1, <3>1 DEF NetReacted, TypeOK
  <2>2. CASE ~NetReacted
    <3>1. write_error' = write_error /\ serving' \in {serving, socket}
      BY <2>2
      DEF NetStart, NetRead, NetStuck, NetRestArrives, NetStuckRaises,
          NetReadDone, NetFailed, NetCheck, netVars
    <3>2. \/ num_packets' = num_packets
          \/ num_packets < ReadLimit /\ num_packets' = num_packets + 1
      BY <2>2
      DEF NetStart, NetRead, NetStuck, NetRestArrives, NetStuckRaises,
          NetReadDone, NetFailed, NetCheck, netVars
    <3>3. num_packets' \in 0..Burst
      BY <3>2, BoundsAssumption DEF TypeOK
    <3> QED
      BY <3>1, <3>3 DEF TypeOK
  <2> QED
    BY <2>1, <2>2
<1>4. /\ l \notin Holding /\ pc[Net] \notin Holding /\ l # "drain"
      /\ pc[Net] \notin Bodies \cup Listening
  BY <1>2, LabelFacts
<1>5. LockMoves(Net, l)
  BY <1>2, <1>4 DEF LockMoves
<1> QED
  BY <1>1, <1>2, <1>3, <1>4, <1>5, NetInv

\* PeerCloses preserves the invariant.
LEMMA PeerClosesInv == ASSUME Inv, PeerCloses PROVE Inv'
<1> USE DEF Inv
<1>1. /\ socket # 0 /\ broken' = broken \cup {socket}
      /\ UNCHANGED <<lock, pc, queue, attr, socket, up, wire, item, loaded,
                     count, serving, num_packets, write_error, reentry,
                     carried>>
  BY DEF PeerCloses, link, held, netVars, nested, history
<1>2. TypeOK'
  <2>1. broken' \subseteq Connections
    BY <1>1 DEF TypeOK, Connections
  <2> QED
    BY <1>1, <2>1 DEF TypeOK
<1>3. LockOwner' /\ BodyFollows' /\ AtHand' /\ Links' /\ Nesting'
  BY <1>1
  DEF LockOwner, BodyFollows, AtHand, HandOf, Links, LinkOf, Nesting
<1>4. CutOnlyBroken' /\ QueuesNumbered'
  BY <1>1 DEF CutOnlyBroken, QueuesNumbered
<1>5. FramesIntact' /\ NoCrossTalk'
  BY <1>1 DEF FramesIntact, NoCrossTalk, Sent
<1> QED
  BY <1>2, <1>3, <1>4, <1>5

------------------------------------------------------------------------------
(* What listeners call.                                                     *)

\* Where the caller of a listener is, and what it has at hand.
LEMMA ListenFacts ==
    ASSUME Inv, NEW a \in Actors, Listens(a)
    PROVE  /\ lock = a /\ pc[a] \in Labels \ Bodies
           /\ attr \in Connections
           /\ a = Net /\ pc[a] \in {"drain_early", "drain_late"}
                  => num_packets < Burst
           /\ pc = [pc EXCEPT ![a] = pc[a]]
           /\ pc[a] \notin Bodies \cup
                  {"c_open", "c_start", "append", "force"}
           /\ HandOf(a)
           /\ CanSend => socket \in Connections
<1> USE DEF Inv
<1>1. lock = a /\ pc[a] \in Labels \ Bodies /\ pc[a] \in Holding
  BY LabelFacts DEF Listens
<1>2. attr \in Connections
  BY <1>1 DEF Links, LinkOf, TypeOK, Connections
<1>3. pc[a] \notin Bodies \cup {"c_open", "c_start", "append", "force"}
  BY DEF Listens, Listening, Early, Late, Bodies
<1>4. /\ a = Net /\ pc[a] \in {"drain_early", "drain_late"}
             => num_packets < Burst
      /\ pc = [pc EXCEPT ![a] = pc[a]]
      /\ HandOf(a)
      /\ CanSend => socket \in Connections
  BY DEF Links, TypeOK, AtHand, CanSend, Connections
<1> QED
  BY <1>1, <1>2, <1>3, <1>4

\* What a listener does while its caller stays where it is preserves the
\* invariant, if nothing is sent.
LEMMA ListenerInv ==
    ASSUME Inv, TypeOK', QueuesNumbered', NEW a \in Actors, Listens(a),
           carried \subseteq carried',
           UNCHANGED <<lock, pc, item, loaded, wire, broken, num_packets>>,
           attr' >= attr, socket' <= attr', up' => socket' # 0,
           HandOf(a)', Nesting'
    PROVE  Inv'
<1> USE DEF Inv
<1>1. LinkOf(a)'
  BY ListenFacts DEF LinkOf, Connections, TypeOK
<1>2. LockMoves(a, pc[a]) /\ pc' = [pc EXCEPT ![a] = pc[a]]
  BY ListenFacts DEF LockMoves
<1> QED
  BY <1>1, <1>2, ListenFacts, Unsent

\* ListenerDisconnects, ListenerCloses, ListenerConnects, ListenerStarts and
\* ListenerFails preserve the invariant.
LEMMA ListenerLinksInv ==
    ASSUME Inv, NEW a \in Actors,
           \/ ListenerDisconnects(a) \/ ListenerCloses(a)
           \/ ListenerConnects(a) \/ ListenerStarts(a) \/ ListenerFails(a)
    PROVE  Inv'
<1> USE DEF Inv
<1>1. /\ Listens(a)
      /\ UNCHANGED <<lock, pc, item, loaded, count, wire, broken, serving,
                     num_packets, write_error, carried>>
      /\ reentry' \in {"none", "flush", "close", "open", "start", "raised"}
  BY DEF ListenerDisconnects, ListenerCloses, ListenerConnects,
     ListenerStarts, ListenerFails, Reenters, held, netVars, history
<1>2. /\ attr' \in {attr, attr + 1} /\ attr' \in 0..MaxConnections
      /\ socket' \in {socket, 0} /\ up' \in BOOLEAN /\ (up' => socket' # 0)
  <2>1. CASE ListenerDisconnects(a)
    BY <2>1 DEF ListenerDisconnects, link, Links, TypeOK
  <2>2. CASE ListenerCloses(a)
    BY <2>2 DEF ListenerCloses, TypeOK
  <2>3. CASE ListenerConnects(a)
    BY <2>3, BoundsAssumption DEF ListenerConnects, Links, TypeOK
  <2>4. CASE ListenerStarts(a)
    <3>1. socket = attr /\ attr # 0
      BY <2>4, <1>1, ListenFacts
      DEF ListenerStarts, Nesting, Connections
    <3> QED
      BY <2>4, <3>1 DEF ListenerStarts, TypeOK
  <2>5. CASE ListenerFails(a)
    BY <2>5 DEF ListenerFails, Nesting, Links, TypeOK
  <2> QED
    BY <2>1, <2>2, <2>3, <2>4, <2>5
<1>3. queue' \in [Connections -> Seq(Packets)] /\ QueuesNumbered'
  <2>1. CASE UNCHANGED queue
    BY <2>1 DEF TypeOK, QueuesNumbered
  <2>2. CASE Pop
    BY <1>1, <2>2, ListenFacts, Popped DEF Connections
  <2> QED
    BY <2>1, <2>2
    DEF ListenerDisconnects, ListenerCloses, ListenerConnects,
        ListenerStarts, ListenerFails
<1>4. socket' \in 0..MaxConnections
  BY <1>2, BoundsAssumption DEF TypeOK
<1>5. TypeOK'
  BY <1>1, <1>2, <1>3, <1>4 DEF TypeOK
<1>6. attr' >= attr /\ socket' <= attr'
  BY <1>2, <1>4 DEF Links, TypeOK
<1>7. HandOf(a)'
  <2>1. HandOf(a) /\ socket' <= socket
    BY <1>1, <1>2, ListenFacts DEF TypeOK
  <2>2. pc[a] \in Carrying /\ ~item[a].forced /\ item[a] \notin carried
           => item[a].asked >= socket'
    <3>1. item[a] \in Packets /\ pc[a] \in Carrying => item[a].asked \in Nat
      BY DEF Packets
    <3> QED
      BY <1>2, <2>1, <3>1 DEF HandOf, TypeOK
  <2> QED
    BY <1>1, <2>1, <2>2 DEF HandOf
<1>8. Nesting'
  <2>1. reentry' # "none" => lock' = a /\ pc'[a] \in Listening
    BY <1>1 DEF Listens
  <2>2. (reentry' = "open" => ~up') /\ reentry' # "start"
    BY DEF ListenerDisconnects, ListenerCloses, ListenerConnects,
       ListenerStarts, ListenerFails
  <2> QED
    BY <2>1, <2>2 DEF Nesting
<1> QED
  BY <1>1, <1>2, <1>3, <1>5, <1>6, <1>7, <1>8, ListenerInv

\* ListenerHandshakes preserves the invariant: the packet in hand is carried
\* over.
LEMMA ListenerHandshakesInv ==
    ASSUME Inv, NEW a \in Actors, ListenerHandshakes(a)
    PROVE  Inv'
<1> USE DEF Inv
<1>1. /\ Listens(a) /\ reentry = "open" /\ reentry' = "start" /\ socket' = attr
      /\ queue' = [queue EXCEPT ![attr] = Append(@, Handshake(attr))]
      /\ carried' = carried \cup Hand(a)
      /\ UNCHANGED <<lock, pc, attr, up, broken, wire, item, loaded, count,
                     serving, num_packets, write_error>>
  BY DEF ListenerHandshakes, held, netVars
<1>2. attr \in Connections
  BY <1>1, ListenFacts
<1>3. Handshake(attr) \in Packets /\ Handshake(attr).asked = attr
  BY BoundsAssumption DEF Handshake, Packets, TypeOK
<1>4. queue' \in [Connections -> Seq(Packets)] /\ QueuesNumbered'
  BY <1>1, <1>2, <1>3, Pushed
<1>5. TypeOK'
  BY <1>1, <1>4 DEF TypeOK
<1>6. HandOf(a)'
  <2>1. HandOf(a)
    BY <1>1, ListenFacts
  <2>2. item[a] \in Packets => item[a] \in carried'
    <3>1. NoPacket \notin Packets
      BY WritersAssumption DEF NoPacket, Packets, Actors, Net
    <3> QED
      BY <1>1, <3>1 DEF Hand
  <2> QED
    BY <1>1, <2>1, <2>2 DEF HandOf
<1>7. Nesting' /\ attr' >= attr /\ socket' <= attr' /\ socket' # 0
  BY <1>1, <1>2 DEF Nesting, Listens, Connections, TypeOK
<1> QED
  BY <1>1, <1>4, <1>5, <1>6, <1>7, ListenerInv

\* ListenerWrites and ListenerFlushes preserve the invariant.
LEMMA ListenerPacketsInv ==
    ASSUME Inv, NEW a \in Actors, ListenerWrites(a) \/ ListenerFlushes(a)
    PROVE  Inv'
<1> USE DEF Inv
<1>1. /\ Listens(a) /\ reentry' = reentry
      /\ UNCHANGED <<lock, pc, attr, socket, up, broken, item, loaded,
                     serving, num_packets, write_error, carried>>
  BY DEF ListenerWrites, ListenerFlushes, Reenters, link, held, netVars, nested
<1>2. attr \in Connections /\ HandOf(a) /\ lock = a
  BY <1>1, ListenFacts
<1>3. count' \in 0..MaxPackets /\
      (ListenerWrites(a) => \A f \in BOOLEAN : NextPacket(a, f) \in Packets)
  <2>1. CASE ListenerWrites(a)
    <3>1. count + 1 \in 0..MaxPackets /\ count' = count + 1
      BY <2>1, BoundsAssumption DEF ListenerWrites, TypeOK
    <3> QED
      BY <3>1, <1>2 DEF NextPacket, Packets, TypeOK
  <2>2. CASE ~ListenerWrites(a)
    BY <2>2 DEF ListenerFlushes, TypeOK
  <2> QED
    BY <2>1, <2>2
<1>4. queue' \in [Connections -> Seq(Packets)] /\ QueuesNumbered'
  <2>1. CASE UNCHANGED queue
    BY <2>1 DEF TypeOK, QueuesNumbered
  <2>2. CASE Pop
    BY <1>2, <2>2, Popped DEF Connections
  <2>3. CASE ListenerWrites(a) /\ ~UNCHANGED queue
    <3>1. queue' = [queue EXCEPT ![attr] = Append(@, NextPacket(a, FALSE))]
      BY <2>3 DEF ListenerWrites
    <3>2. NextPacket(a, FALSE).asked = attr
      BY DEF NextPacket
    <3> QED
      BY <2>3, <3>1, <3>2, <1>2, <1>3, Pushed
  <2> QED
    BY <2>1, <2>2, <2>3 DEF ListenerFlushes
<1>5. Nesting' /\ HandOf(a)' /\ AtHand' /\ Links' /\ LockOwner'
  BY <1>1 DEF Nesting, HandOf, AtHand, Links, LinkOf, LockOwner
<1>6. CASE UNCHANGED wire
  <2>1. TypeOK'
    BY <1>1, <1>3, <1>4, <1>6 DEF TypeOK
  <2>2. attr' >= attr /\ socket' <= attr' /\ (up' => socket' # 0)
    BY <1>1 DEF Links, TypeOK
  <2> QED
    BY <2>1, <2>2, <1>1, <1>4, <1>5, <1>6, ListenerInv
<1>7. CASE ~UNCHANGED wire
  <2>1. PICK p \in Packets : SendWhole(p) /\ (p.forced \/ p.asked >= socket)
    <3>1. CASE ListenerWrites(a)
      <4>1. SendWhole(NextPacket(a, TRUE)) /\ NextPacket(a, TRUE).forced
        BY <1>7, <3>1 DEF ListenerWrites, NextPacket
      <4> QED
        BY <3>1, <4>1, <1>3
    <3>2. CASE ListenerFlushes(a)
      <4>1. Oldest \in Packets /\ Oldest.asked = attr
        BY <3>2, <1>2, Popped DEF ListenerFlushes, Connections
      <4>2. SendWhole(Oldest) /\ Oldest.asked >= socket
        BY <1>7, <3>2, <4>1 DEF ListenerFlushes, Links, TypeOK
      <4> QED
        BY <4>1, <4>2
    <3> QED
      BY <3>1, <3>2
  <2>2. /\ BodyFollows' /\ CutOnlyBroken' /\ FramesIntact' /\ NoCrossTalk'
        /\ wire' \in [Connections -> Seq(Sends)]
    BY <1>1, <1>2, <2>1, WholeSent DEF Listens
  <2>3. TypeOK'
    BY <1>1, <1>3, <1>4, <2>2 DEF TypeOK
  <2> QED
    BY <1>4, <1>5, <2>2, <2>3
<1> QED
  BY <1>6, <1>7

------------------------------------------------------------------------------
\* Every step preserves the invariant.
LEMMA NextInv == Inv /\ [Next]_vars => Inv'
<1> SUFFICES ASSUME Inv, [Next]_vars PROVE Inv'
  OBVIOUS
<1>1. ASSUME NEW a \in Actors, Call(a) PROVE Inv'
  BY <1>1, WritePacketInv, ConnectQueueInv, DisconnectInv, ListenerLinksInv,
     ListenerPacketsInv
  DEF Call
<1>2. ASSUME NEW a \in Actors, ActorStep(a) PROVE Inv'
  BY <1>2, AppendPacketInv, ForcedTakeInv, LengthInv, BodyInv, DoneInv,
     RaisesInv, ReleasesInv, ConnectHandshakeInv, PopTakesInv,
     ListenerLinksInv, ListenerPacketsInv, ListenerHandshakesInv
  DEF ActorStep
<1>3. ASSUME NetStep PROVE Inv'
  BY <1>3, ActorNames, NetLocalInv, NetLockInv, PopTakesInv, LengthInv,
     BodyInv, DoneInv, RaisesInv, ReleasesInv
  DEF NetStep
<1>4. CASE UNCHANGED vars
  BY <1>4 DEF vars, link, held, netVars, history, nested, Inv, TypeOK,
     LockOwner, BodyFollows, CutOnlyBroken, AtHand, HandOf, QueuesNumbered,
     Links, LinkOf, Nesting, FramesIntact, NoCrossTalk, Sent
<1> QED
  BY <1>1, <1>2, <1>3, <1>4, PeerClosesInv, NetLocalInv DEF Next

\* The invariant holds in every reachable state.
THEOREM Invariance == Spec => []Inv
<1> QED
  BY InitInv, NextInv, PTL DEF Spec

------------------------------------------------------------------------------
\* The variables have their types, and the write loop stays within its burst.
THEOREM TypeCorrect == Spec => []TypeOK
<1>1. Inv => TypeOK
  BY DEF Inv
<1> QED
  BY <1>1, Invariance, PTL

\* No packet is torn by another, whoever writes and whatever fails or is
\* called by a listener: between the length and the body of a packet nothing
\* else is sent (packet.py 95-96).
THEOREM FramesAreIntact == Spec => []FramesIntact
<1>1. Inv => FramesIntact
  BY DEF Inv
<1> QED
  BY <1>1, Invariance, PTL

\* What was queued before a connection was made is not sent on it (469, 482),
\* even when listeners reconnect between a packet's leaving the queue and its
\* being sent (358-364), but for the packet whose own listener does so.
THEOREM QueuesAreApart == Spec => []NoCrossTalk
<1>1. Inv => NoCrossTalk
  BY DEF Inv
<1> QED
  BY <1>1, Invariance, PTL

------------------------------------------------------------------------------
(* In which order packets leave.  A packet goes from its writer's hands to a *)
(* queue, from there to a sender's, and then on a wire; the order in which   *)
(* they were written goes the other way.                                     *)

\* The packets in queue g, those whose bodies were sent on socket g, and
\* those taken from a queue whose bodies were not sent.
InQueue(g) == {queue[g][i] : i \in DOMAIN queue[g]}
SentOn(g) == {wire[g][i].packet : i \in Sent(g)}
Taking == {"drain_early", "flush_early", "drain_body", "flush_body"}
Underway == {item[a] : a \in {b \in Actors : pc[b] \in Taking}}
Out == Underway \cup UNION {InQueue(g) \cup SentOn(g) : g \in Connections}

AllEarlier(P, Q) == \A p \in P, q \in Q : Earlier(p, q)

\* A listener that flushes the queue overtakes the packet in hand, but then
\* there is no socket left for that, or an exception.
Overtaking == reentry \in {"flush", "close", "raised"}

\* Whatever was sent on the installed socket was written before what is under
\* way, and that before what is in the queue.
Ordered(q) == \A i, j \in DOMAIN q : i < j => Earlier(q[i], q[j])
QueuesOrdered == \A g \in Connections : Ordered(queue[g])
Stages ==
    /\ socket # 0 => AllEarlier(SentOn(socket), InQueue(attr))
    /\ socket # 0 /\ ~Overtaking => AllEarlier(SentOn(socket), Underway)
    /\ attr # 0 => AllEarlier(Underway, InQueue(attr))

\* What a thread is about to append it wrote after all that is out.
Numbered == \A p \in Out : ~p.forced => p.n <= count
LastOf(a) ==
    /\ loaded[a] <= attr
    /\ pc[a] = "append" =>
          /\ item[a].by = a /\ ~item[a].forced /\ item[a].n <= count
          /\ AllEarlier(Out, {item[a]})
LastWritten == \A a \in Actors : LastOf(a)

\* A connection that is not made yet has nothing queued or sent, nor is its
\* handshake anywhere.
Opening == reentry = "open" \/ \E a \in Actors : pc[a] = "c_open"
NotMade(g) == g > attr \/ (g = attr /\ Opening)
Fresh ==
    /\ \A g \in Connections : g > attr => queue[g] = <<>>
    /\ \A g \in Connections : NotMade(g) => wire[g] = <<>> /\ socket # g
    /\ \A p \in Out : p.by = "handshake" /\ ~p.forced =>
          p.n = 0 /\ p.asked <= attr /\ ~NotMade(p.asked)

\* What was queued for the installed connection is accounted for, and so is
\* what was queued for the one that is being opened.
Accounted ==
    /\ \A p \in appended : p.asked \in 1..attr
    /\ socket = attr \/ Opening =>
          \A p \in appended : p.asked = attr =>
              p \in InQueue(attr) \cup lost \cup SentOn(attr) \cup Underway

OrderInv ==
    /\ InOrderOnce
    /\ QueuesOrdered
    /\ Stages
    /\ Numbered
    /\ LastWritten
    /\ Fresh
    /\ Accounted

\* The packets that are somewhere are packets.
LEMMA OutFacts ==
    ASSUME Inv
    PROVE  /\ \A g \in Connections : InQueue(g) \subseteq Packets \cap Out
           /\ \A g \in Connections : SentOn(g) \subseteq Packets \cap Out
           /\ Underway \subseteq Packets \cap Out
           /\ Out \subseteq Packets
           /\ \A p \in Packets : p.n \in Nat /\ p.asked \in Nat
<1> USE DEF Inv
<1>1. ASSUME NEW g \in Connections PROVE InQueue(g) \subseteq Packets
  <2>1. queue[g] \in Seq(Packets)
    BY DEF TypeOK
  <2> QED
    BY <2>1 DEF InQueue
<1>2. ASSUME NEW g \in Connections PROVE SentOn(g) \subseteq Packets
  <2>1. wire[g] \in Seq(Sends)
    BY DEF TypeOK
  <2>2. \A i \in Sent(g) : wire[g][i] \in Sends
    BY <2>1 DEF Sent
  <2> QED
    BY <2>2 DEF SentOn, Sends
<1>3. Underway \subseteq Packets
  <2>1. Taking \subseteq Carrying
    BY DEF Taking, Carrying, Early, Bodies
  <2> QED
    BY <2>1 DEF Underway, AtHand, HandOf
<1>4. Out \subseteq Packets
  <2> SUFFICES ASSUME NEW p \in Out, p \notin Underway PROVE p \in Packets
    BY <1>3
  <2>1. \E g \in Connections : p \in InQueue(g) \cup SentOn(g)
    BY DEF Out
  <2> QED
    BY <2>1, <1>1, <1>2
<1>5. \A p \in Packets : p.n \in Nat /\ p.asked \in Nat
  BY BoundsAssumption DEF Packets
<1>6. \A g \in Connections : InQueue(g) \cup SentOn(g) \subseteq Out
  BY DEF Out
<1>7. Underway \subseteq Out
  BY DEF Out
<1> QED
  BY <1>1, <1>2, <1>3, <1>4, <1>5, <1>6, <1>7

\* The connections and the counter are numbers.
LEMMA Numbers ==
    ASSUME Inv
    PROVE  /\ attr \in Nat /\ count \in Nat /\ socket \in Nat
           /\ attr \in 0..MaxConnections /\ socket <= attr
           /\ attr # 0 => attr \in Connections
           /\ socket # 0 => socket \in Connections
           /\ \A a \in Actors : loaded[a] \in Nat
BY BoundsAssumption DEF Inv, TypeOK, Links, Connections

\* Popping takes the oldest packet of the queue, and leaves it in order.
LEMMA PopEffect ==
    ASSUME Inv, QueuesOrdered, attr # 0, attr' = attr, Pop
    PROVE  /\ Oldest \in InQueue(attr)
           /\ InQueue(attr)' \subseteq InQueue(attr)
           /\ InQueue(attr) \subseteq InQueue(attr)' \cup {Oldest}
           /\ \A p \in InQueue(attr)' : Earlier(Oldest, p)
           /\ \A g \in Connections : g # attr => queue'[g] = queue[g]
           /\ QueuesOrdered'
<1> USE DEF Inv
<1> DEFINE q == queue[attr]
           r == Tail(q)
<1>1. attr \in Connections /\ q \in Seq(Packets) /\ q # <<>>
  <2>1. attr \in Connections
    BY DEF TypeOK, Connections
  <2> QED
    BY <2>1 DEF TypeOK, Pop
<1>2. /\ queue'[attr] = r
      /\ \A g \in Connections : g # attr => queue'[g] = queue[g]
  BY <1>1 DEF TypeOK, Pop
<1>3. /\ Oldest = q[1] /\ 1 \in DOMAIN q
      /\ r \in Seq(Packets) /\ Len(r) = Len(q) - 1
      /\ DOMAIN q = 1..Len(q) /\ DOMAIN r = 1..Len(r) /\ Len(q) \in Nat
      /\ \A i \in DOMAIN r : r[i] = q[i + 1]
  BY <1>1 DEF Oldest
<1> HIDE DEF r
<1>4. Ordered(q)
  BY <1>1 DEF QueuesOrdered
<1>5. \A i \in DOMAIN r : i + 1 \in DOMAIN q /\ 1 < i + 1
  BY <1>3
<1>6. \A i \in DOMAIN r : Earlier(Oldest, r[i])
  BY <1>3, <1>4, <1>5 DEF Ordered
<1>7. Ordered(r)
  <2> SUFFICES ASSUME NEW i \in DOMAIN r, NEW j \in DOMAIN r, i < j
               PROVE  Earlier(r[i], r[j])
    BY DEF Ordered
  <2>1. i + 1 < j + 1
    BY <1>3
  <2> QED
    BY <2>1, <1>3, <1>4, <1>5 DEF Ordered
<1>8. ASSUME NEW i \in DOMAIN q, i # 1 PROVE i - 1 \in DOMAIN r /\ r[i - 1] = q[i]
  BY <1>3, <1>8
<1>9. QueuesOrdered'
  <2> SUFFICES ASSUME NEW g \in Connections PROVE Ordered(queue'[g])
    BY DEF QueuesOrdered
  <2> QED
    BY <1>2, <1>7 DEF QueuesOrdered
<1>10. InQueue(attr)' = {r[i] : i \in DOMAIN r}
  BY <1>2 DEF InQueue
<1>11. InQueue(attr) = {q[i] : i \in DOMAIN q}
  BY DEF InQueue
<1>12. InQueue(attr) \subseteq InQueue(attr)' \cup {Oldest}
  BY <1>3, <1>8, <1>10, <1>11
<1>13. InQueue(attr)' \subseteq InQueue(attr)
  BY <1>3, <1>5, <1>10, <1>11
<1> QED
  BY <1>2, <1>3, <1>6, <1>9, <1>10, <1>11, <1>12, <1>13

\* Appending adds a packet that must be the latest of its writer.
LEMMA PushEffect ==
    ASSUME Inv, QueuesOrdered, NEW g \in Connections, NEW p \in Packets,
           \A q \in InQueue(g) : Earlier(q, p),
           queue' = [queue EXCEPT ![g] = Append(@, p)]
    PROVE  /\ InQueue(g)' = InQueue(g) \cup {p}
           /\ \A h \in Connections : h # g => queue'[h] = queue[h]
           /\ QueuesOrdered'
<1> USE DEF Inv
<1> DEFINE q == queue[g]
           r == Append(q, p)
<1>1. q \in Seq(Packets)
  BY DEF TypeOK
<1>2. queue'[g] = r /\ \A h \in Connections : h # g => queue'[h] = queue[h]
  BY DEF TypeOK
<1>3. /\ DOMAIN r = 1..(Len(q) + 1) /\ DOMAIN q = 1..Len(q) /\ Len(q) \in Nat
      /\ \A i \in DOMAIN q : r[i] = q[i]
      /\ r[Len(q) + 1] = p
  BY <1>1, Appended
<1> HIDE DEF r
<1>4. \A i \in DOMAIN q : Earlier(q[i], p)
  BY DEF InQueue
<1>5. Ordered(q)
  BY DEF QueuesOrdered
<1>6. Ordered(r)
  <2> SUFFICES ASSUME NEW i \in DOMAIN r, NEW j \in DOMAIN r, i < j
               PROVE  Earlier(r[i], r[j])
    BY DEF Ordered
  <2>1. i \in DOMAIN q /\ r[i] = q[i]
    BY <1>3
  <2>2. CASE j = Len(q) + 1
    BY <2>1, <2>2, <1>3, <1>4
  <2>3. CASE j \in DOMAIN q
    BY <2>1, <2>3, <1>3, <1>5 DEF Ordered
  <2> QED
    BY <2>2, <2>3, <1>3
<1>7. QueuesOrdered'
  <2> SUFFICES ASSUME NEW h \in Connections PROVE Ordered(queue'[h])
    BY DEF QueuesOrdered
  <2> QED
    BY <1>2, <1>6 DEF QueuesOrdered
<1>8. InQueue(g)' = {r[i] : i \in DOMAIN r}
  BY <1>2 DEF InQueue
<1>9. InQueue(g) = {q[i] : i \in DOMAIN q}
  BY DEF InQueue
<1>10. ASSUME NEW x \in InQueue(g)' PROVE x \in InQueue(g) \cup {p}
  <2>1. PICK i \in DOMAIN r : x = r[i]
    BY <1>8
  <2> QED
    BY <2>1, <1>3, <1>9
<1>11. ASSUME NEW x \in InQueue(g) PROVE x \in InQueue(g)'
  <2>1. PICK i \in DOMAIN q : x = q[i]
    BY <1>9
  <2>2. i \in DOMAIN r /\ x = r[i]
    BY <2>1, <1>3
  <2> QED
    BY <2>2, <1>8
<1>12. p \in InQueue(g)'
  BY <1>3, <1>8
<1> QED
  BY <1>2, <1>7, <1>10, <1>11, <1>12

\* Sending a length adds nothing to what was sent on a socket.
LEMMA LengthEffect ==
    ASSUME Inv, InOrderOnce, NEW p, Send("length", p)
    PROVE  /\ \A g \in Connections : SentOn(g)' = SentOn(g)
           /\ \A g \in Connections : g # socket => wire'[g] = wire[g]
           /\ InOrderOnce'
<1> USE DEF Inv
<1> DEFINE x == [part |-> "length", packet |-> p]
           w == wire[socket]
           v == Append(w, x)
<1>1. socket \in Connections
  BY DEF Send, CanSend, TypeOK, Connections
<1>2. w \in Seq(Sends)
  BY <1>1 DEF TypeOK
<1>3. wire'[socket] = v /\ \A g \in Connections : g # socket => wire'[g] = wire[g]
  BY <1>1 DEF Send, TypeOK
<1>4. /\ DOMAIN v = 1..(Len(w) + 1) /\ DOMAIN w = 1..Len(w) /\ Len(w) \in Nat
      /\ \A i \in DOMAIN w : v[i] = w[i]
      /\ v[Len(w) + 1] = x
  BY <1>2
<1> HIDE DEF v
<1>5. \A i \in DOMAIN v : v[i].part = "body" <=> i \in DOMAIN w /\ w[i].part = "body"
  BY <1>4
<1>6. ASSUME NEW g \in Connections
      PROVE  /\ Sent(g)' = Sent(g)
             /\ \A i \in Sent(g) : wire'[g][i] = wire[g][i]
  <2>1. CASE g = socket
    BY <2>1, <1>3, <1>4, <1>5 DEF Sent
  <2>2. CASE g # socket
    BY <2>2, <1>3 DEF Sent
  <2> QED
    BY <2>1, <2>2
<1>7. ASSUME NEW g \in Connections PROVE SentOn(g)' = SentOn(g)
  BY <1>6 DEF SentOn
<1>8. InOrderOnce'
  BY <1>6 DEF InOrderOnce
<1> QED
  BY <1>3, <1>7, <1>8

\* Whatever ends with the body of a packet adds that packet, which must be
\* the latest of its writer.
LEMMA EndEffect ==
    ASSUME Inv, InOrderOnce, CanSend, NEW p, NEW v, NEW n \in Nat,
           n > Len(wire[socket]), DOMAIN v = 1..n,
           \A i \in DOMAIN wire[socket] : v[i] = wire[socket][i],
           \A i \in (Len(wire[socket]) + 1)..n : v[i].part = "body" <=> i = n,
           v[n].packet = p,
           wire' = [wire EXCEPT ![socket] = v],
           \A q \in SentOn(socket) : Earlier(q, p)
    PROVE  /\ \A g \in Connections : g # socket => SentOn(g)' = SentOn(g)
           /\ socket' = socket => SentOn(socket)' = SentOn(socket) \cup {p}
           /\ \A g \in Connections : g # socket => wire'[g] = wire[g]
           /\ InOrderOnce'
<1> USE DEF Inv
<1>1. PICK s \in Connections : s = socket
  BY DEF CanSend, TypeOK, Connections
<1> DEFINE w == wire[s]
<1>2. w \in Seq(Sends)
  BY <1>1 DEF TypeOK
<1>3. wire'[s] = v /\ \A g \in Connections : g # s => wire'[g] = wire[g]
  BY <1>1 DEF TypeOK
<1>4. /\ DOMAIN v = 1..n /\ DOMAIN w = 1..Len(w) /\ Len(w) \in Nat
      /\ \A i \in DOMAIN w : v[i] = w[i] /\ i < n
      /\ v[n].packet = p /\ v[n].part = "body" /\ n \in 1..n
      /\ \A i \in 1..n : i \notin DOMAIN w => (v[i].part = "body" <=> i = n)
  BY <1>1, <1>2
<1>5. /\ Sent(s) \subseteq DOMAIN w
      /\ \A i \in DOMAIN v : v[i].part = "body" <=> i \in Sent(s) \cup {n}
  <2>1. Sent(s) = {i \in DOMAIN w : w[i].part = "body"}
    BY DEF Sent
  <2> QED
    BY <2>1, <1>4
<1>6. ASSUME NEW g \in Connections, g # s
      PROVE  /\ Sent(g)' = Sent(g)
             /\ \A i \in Sent(g) : wire'[g][i] = wire[g][i]
  BY <1>3, <1>6 DEF Sent
<1>7. Sent(s)' = Sent(s) \cup {n}
  BY <1>3, <1>4, <1>5 DEF Sent
<1>8. ASSUME NEW g \in Connections, g # s PROVE SentOn(g)' = SentOn(g)
  BY <1>6, <1>8 DEF SentOn
<1>9. /\ \A i \in Sent(s) : wire'[s][i] = wire[s][i]
      /\ wire'[s][n].packet = p
  BY <1>3, <1>4, <1>5
<1>10. SentOn(s)' = SentOn(s) \cup {p}
  <2>1. ASSUME NEW y \in SentOn(s)' PROVE y \in SentOn(s) \cup {p}
    <3>1. PICK i \in Sent(s)' : y = wire'[s][i].packet
      BY DEF SentOn
    <3> QED
      BY <3>1, <1>7, <1>9 DEF SentOn
  <2>2. ASSUME NEW y \in SentOn(s) PROVE y \in SentOn(s)'
    <3>1. PICK i \in Sent(s) : y = wire[s][i].packet
      BY DEF SentOn
    <3> QED
      BY <3>1, <1>7, <1>9 DEF SentOn
  <2>3. p \in SentOn(s)'
    BY <1>7, <1>9 DEF SentOn
  <2> QED
    BY <2>1, <2>2, <2>3
<1>11. InOrderOnce'
  <2> SUFFICES ASSUME NEW g \in Connections,
                      NEW i \in Sent(g)', NEW j \in Sent(g)', i < j
               PROVE  Earlier(wire'[g][i].packet, wire'[g][j].packet)
    BY DEF InOrderOnce, Earlier
  <2>1. CASE g # s
    BY <2>1, <1>6 DEF InOrderOnce, Earlier
  <2>2. CASE g = s /\ j # n
    <3>1. i \in Sent(s)
      BY <2>2, <1>4, <1>5, <1>7
    <3> QED
      BY <2>2, <3>1, <1>7, <1>9 DEF InOrderOnce, Earlier
  <2>3. CASE g = s /\ j = n
    <3>1. i \in Sent(s)
      BY <2>3, <1>4, <1>7
    <3>2. wire'[s][i].packet \in SentOn(s)
      BY <3>1, <1>9 DEF SentOn
    <3> QED
      BY <2>3, <3>2, <1>1, <1>9
  <2> QED
    BY <2>1, <2>2, <2>3
<1> QED
  <2>1. socket' = socket => SentOn(socket)' = SentOn(s)'
    BY <1>1 DEF SentOn, Sent
  <2> QED
    BY <2>1, <1>1, <1>3, <1>8, <1>10, <1>11

\* Sending a body, or both sends at once, adds a packet.
LEMMA SendEffect ==
    ASSUME Inv, InOrderOnce, NEW p, Send("body", p) \/ SendWhole(p),
           \A q \in SentOn(socket) : Earlier(q, p)
    PROVE  /\ \A g \in Connections : g # socket => SentOn(g)' = SentOn(g)
           /\ socket' = socket => SentOn(socket)' = SentOn(socket) \cup {p}
           /\ \A g \in Connections : g # socket => wire'[g] = wire[g]
           /\ InOrderOnce'
<1> DEFINE x == [part |-> "length", packet |-> p]
           y == [part |-> "body", packet |-> p]
           w == wire[socket]
<1>1. CanSend /\ socket \in Connections /\ w \in Seq(Sends)
  <2>1. CanSend /\ socket \in Connections
    BY DEF Send, SendWhole, CanSend, Inv, TypeOK, Connections
  <2> QED
    BY <2>1 DEF Inv, TypeOK
<1>2. y.part = "body" /\ x.part # "body" /\ y.packet = p
  OBVIOUS
<1> HIDE DEF x, y
<1>3. CASE Send("body", p)
  <2> DEFINE v == Append(w, y)
             n == Len(w) + 1
  <2>1. /\ n \in Nat /\ n > Len(w) /\ DOMAIN v = 1..n
        /\ \A i \in DOMAIN w : v[i] = w[i]
        /\ v[n] = y /\ \A i \in (Len(w) + 1)..n : i = n
    BY <1>1
  <2>2. wire' = [wire EXCEPT ![socket] = v]
    BY <1>3 DEF Send, y
  <2> HIDE DEF v, n
  <2>3. /\ v[n].packet = p
        /\ \A i \in (Len(w) + 1)..n : v[i].part = "body" <=> i = n
    BY <2>1, <1>2
  <2> HIDE DEF w
  <2> QED
    BY <2>1, <2>2, <2>3, <1>1, EndEffect DEF w
<1>4. CASE SendWhole(p)
  <2> DEFINE v == w \o <<x, y>>
             n == Len(w) + 2
  <2>1. /\ n \in Nat /\ n > Len(w) /\ DOMAIN v = 1..n
        /\ \A i \in DOMAIN w : v[i] = w[i]
        /\ v[Len(w) + 1] = x /\ v[n] = y
        /\ \A i \in (Len(w) + 1)..n : i # n => i = Len(w) + 1
    BY <1>1
  <2>2. wire' = [wire EXCEPT ![socket] = v]
    BY <1>4 DEF SendWhole, x, y
  <2> HIDE DEF v, n
  <2>3. /\ v[n].packet = p
        /\ \A i \in (Len(w) + 1)..n : v[i].part = "body" <=> i = n
    BY <2>1, <1>2
  <2> HIDE DEF w
  <2> QED
    BY <2>1, <2>2, <2>3, <1>1, EndEffect DEF w
<1> QED
  BY <1>3, <1>4

\* Only the owner of the lock has a packet under way.
LEMMA UnderwayOf ==
    ASSUME Inv, NEW a \in Actors, lock \in {a, "none"}
    PROVE  /\ \A b \in Actors : b # a => pc[b] \notin Taking
           /\ Underway = IF pc[a] \in Taking THEN {item[a]} ELSE {}
<1>1. Taking \subseteq Holding
  BY LabelFacts DEF Taking, Early, Listening, Bodies
<1>2. \A b \in Actors : b # a => pc[b] \notin Taking
  BY <1>1, OneSender DEF Inv
<1> QED
  BY <1>2 DEF Underway

\* Nothing starts or ends to be under way in the steps of an actor that has
\* nothing under way, or still the same.
LEMMA UnderwaySame ==
    ASSUME NEW a \in Actors, pc[a] \in Taking <=> pc'[a] \in Taking,
           pc[a] \in Taking => item'[a] = item[a],
           \A b \in Actors : b # a => pc'[b] = pc[b] /\ item'[b] = item[b]
    PROVE  Underway' = Underway
BY DEF Underway

\* What is out after a step.
LEMMA OutAfter ==
    ASSUME NEW X, Underway' \subseteq Out \cup X,
           \A g \in Connections : InQueue(g)' \subseteq Out \cup X,
           \A g \in Connections : SentOn(g)' \subseteq Out \cup X
    PROVE  Out' \subseteq Out \cup X
<1> SUFFICES ASSUME NEW p \in Out', p \notin Underway' PROVE p \in Out \cup X
  OBVIOUS
<1>1. \E g \in Connections : p \in InQueue(g)' \cup SentOn(g)'
  BY DEF Out
<1> QED
  BY <1>1

\* A step that lets out only packets of its own actor, handshakes or forced
\* packets leaves what the others are about to append the latest.
LEMMA Keeps ==
    ASSUME Inv, LastWritten, Numbered, NEW a \in Actors,
           NEW X \in SUBSET Packets, Out' \subseteq Out \cup X,
           \A p \in X : p.forced \/ (p.by \in {a, "handshake"} /\ p.n <= count'),
           \A b \in Actors : b # a =>
              pc'[b] = pc[b] /\ item'[b] = item[b] /\ loaded'[b] = loaded[b],
           count' \in Nat, count' >= count, attr' \in Nat, attr' >= attr,
           LastOf(a)'
    PROVE  LastWritten' /\ Numbered'
<1>1. count \in Nat /\ attr \in Nat /\ \A b \in Actors : loaded[b] \in Nat
  BY Numbers
<1>2. Numbered'
  <2> SUFFICES ASSUME NEW p \in Out', ~p.forced PROVE p.n <= count'
    BY DEF Numbered
  <2>1. p \in Packets /\ p.n \in Nat /\ (p.n <= count \/ p.n <= count')
    BY OutFacts DEF Numbered
  <2> QED
    BY <2>1, <1>1
<1>3. ASSUME NEW b \in Actors, b # a PROVE LastOf(b)'
  <2>1. LastOf(b) /\ pc'[b] = pc[b] /\ item'[b] = item[b] /\ loaded'[b] = loaded[b]
    BY <1>3 DEF LastWritten
  <2>2. loaded'[b] <= attr'
    BY <2>1, <1>1 DEF LastOf
  <2>3. ASSUME pc[b] = "append"
        PROVE  /\ item[b].by = b /\ ~item[b].forced /\ item[b].n <= count'
               /\ AllEarlier(Out', {item[b]})
    <3>1. item[b] \in Packets /\ item[b].n \in Nat
      BY <2>3, OutFacts DEF Inv, AtHand, HandOf
    <3>2. item[b].by = b /\ ~item[b].forced /\ item[b].n <= count'
      BY <2>1, <2>3, <3>1, <1>1 DEF LastOf
    <3>3. b # "handshake"
      BY WritersAssumption DEF Actors, Net
    <3>4. ASSUME NEW p \in Out' PROVE Earlier(p, item[b])
      <4>1. CASE p \in Out
        BY <4>1, <2>1, <2>3 DEF LastOf, AllEarlier
      <4>2. CASE p \in X
        BY <4>2, <3>2, <3>3, <1>3 DEF Earlier
      <4> QED
        BY <4>1, <4>2
    <3> QED
      BY <3>2, <3>4 DEF AllEarlier
  <2> QED
    BY <2>1, <2>2, <2>3 DEF LastOf
<1> QED
  BY <1>2, <1>3 DEF LastWritten

\* Where an actor is that holds the lock, and what its listeners are about.
LEMMA HolderFacts ==
    ASSUME Inv, NEW a \in Actors, pc[a] \in Holding, pc[a] # "c_open"
    PROVE  /\ attr \in Connections /\ attr # 0 /\ lock = a
           /\ \A b \in Actors : b # a => pc[b] \notin Taking
           /\ Underway = IF pc[a] \in Taking THEN {item[a]} ELSE {}
           /\ Opening => reentry = "open"
           /\ pc[a] \notin Listening => reentry = "none"
<1>1. lock = a
  BY DEF Inv, LockOwner
<1>2. attr \in Connections /\ attr # 0
  BY Numbers DEF Inv, Links, LinkOf
<1>3. Opening => reentry = "open"
  <2> SUFFICES ASSUME NEW b \in Actors, pc[b] = "c_open" PROVE FALSE
    BY DEF Opening
  <2>1. lock = b
    BY DEF Inv, LockOwner, Holding
  <2> QED
    BY <2>1, <1>1
<1>4. pc[a] \notin Listening => reentry = "none"
  BY <1>1 DEF Inv, Nesting
<1> QED
  BY <1>1, <1>2, <1>3, <1>4, UnderwayOf

\* Steps that neither queue nor take a packet; they may send a forced one.
LEMMA QuietOrder ==
    ASSUME Inv, OrderInv, NEW a \in Actors,
           NEW l \in Labels \ {"append", "c_open"},
           pc' = [pc EXCEPT ![a] = l],
           item' = item \/ \E p : item' = [item EXCEPT ![a] = p],
           Underway' = Underway,
           UNCHANGED <<queue, attr, loaded, appended>>, lost \subseteq lost',
           count' \in Nat, count' >= count, socket' \in {socket, 0},
           reentry' = "open" => reentry = "open",
           Overtaking' \/ ~Overtaking \/ socket' = 0 \/ Underway = {},
           NEW X \in SUBSET Packets, \A p \in X : p.forced,
           \A g \in Connections : SentOn(g) \subseteq SentOn(g)',
           \A g \in Connections : SentOn(g)' \subseteq SentOn(g) \cup X,
           \A g \in Connections : g # socket => wire'[g] = wire[g],
           InOrderOnce'
    PROVE  OrderInv'
<1> USE DEF OrderInv
<1>1. /\ pc'[a] = l
      /\ \A b \in Actors : b # a => pc'[b] = pc[b] /\ item'[b] = item[b]
  BY DEF Inv, TypeOK
<1>2. \A g : InQueue(g)' = InQueue(g)
  BY DEF InQueue
<1>3. InQueue(attr)' = InQueue(attr)
  BY DEF InQueue
<1>4. QueuesOrdered'
  BY DEF QueuesOrdered
<1>5. Stages'
  <2>1. ASSUME socket' # 0, NEW p \in SentOn(socket)', NEW q, ~q.forced
        PROVE  socket' = socket /\ (p \in SentOn(socket) \/ p.forced)
    BY <2>1, Numbers DEF SentOn, Sent
  <2>2. socket' # 0 => AllEarlier(SentOn(socket)', InQueue(attr))
    BY <2>1 DEF AllEarlier, Earlier, Stages
  <2>3. socket' # 0 /\ ~Overtaking' => AllEarlier(SentOn(socket)', Underway)
    <3>1. CASE Underway = {}
      BY <3>1 DEF AllEarlier
    <3>2. CASE ~Overtaking
      BY <2>1, <3>2 DEF AllEarlier, Earlier, Stages
    <3> QED
      BY <3>1, <3>2
  <2> QED
    BY <2>2, <2>3, <1>3 DEF Stages
<1>6. Out' \subseteq Out \cup X
  BY <1>2, OutFacts, OutAfter
<1>7. LastWritten' /\ Numbered'
  <2>1. attr' \in Nat /\ attr' >= attr
    BY Numbers
  <2>2. \A b \in Actors : b # a =>
           pc'[b] = pc[b] /\ item'[b] = item[b] /\ loaded'[b] = loaded[b]
    BY <1>1
  <2>3. LastWritten /\ Numbered /\ LastOf(a)'
    BY <1>1 DEF LastOf, LastWritten
  <2> QED
    BY <2>1, <2>2, <2>3, <1>6, Keeps
<1>8. (Opening' => Opening) /\ \A g : NotMade(g)' => NotMade(g)
  BY <1>1 DEF NotMade, Opening
<1>9. Fresh'
  <2>1. \A g \in Connections : NotMade(g)' => wire'[g] = <<>> /\ socket' # g
    BY <1>8 DEF Fresh, Connections
  <2>2. \A p \in Out' : p.by = "handshake" /\ ~p.forced =>
           p.n = 0 /\ p.asked <= attr' /\ ~NotMade(p.asked)'
    BY <1>6, <1>8 DEF Fresh
  <2>3. \A g \in Connections : g > attr' => queue'[g] = <<>>
    BY DEF Fresh
  <2> QED
    BY <2>1, <2>2, <2>3 DEF Fresh
<1>10. Accounted'
  <2> SUFFICES ASSUME NEW p \in appended, p.asked = attr,
                      socket' = attr \/ Opening'
               PROVE  p \in InQueue(attr) \cup lost' \cup SentOn(attr)'
                             \cup Underway
    BY <1>3 DEF Accounted
  <2>1. attr \in Connections
    BY Numbers DEF Accounted
  <2>2. p \in InQueue(attr) \cup lost \cup SentOn(attr) \cup Underway
    BY <2>1, <1>8 DEF Accounted, Connections
  <2>3. SentOn(attr) \subseteq SentOn(attr)'
    <3>1. PICK g \in Connections : g = attr
      BY <2>1
    <3>2. SentOn(attr)' = SentOn(g)'
      BY <3>1 DEF SentOn, Sent
    <3> QED
      BY <3>1, <3>2
  <2> QED
    BY <2>2, <2>3
<1> QED
  BY <1>4, <1>5, <1>7, <1>9, <1>10

\* Steps that send and take nothing.
LEMMA NoSendOrder ==
    ASSUME Inv, OrderInv, NEW a \in Actors,
           NEW l \in Labels \ {"append", "c_open"},
           pc' = [pc EXCEPT ![a] = l],
           item' = item \/ \E p : item' = [item EXCEPT ![a] = p],
           Underway' = Underway,
           UNCHANGED <<queue, attr, loaded, count, wire, appended>>,
           lost \subseteq lost', socket' \in {socket, 0},
           reentry' = "open" => reentry = "open",
           Overtaking' \/ ~Overtaking \/ socket' = 0 \/ Underway = {}
    PROVE  OrderInv'
<1>1. \A g : SentOn(g)' = SentOn(g)
  BY DEF SentOn, Sent
<1>2. InOrderOnce'
  BY DEF OrderInv, InOrderOnce, Sent
<1>3. count' \in Nat /\ count' >= count
  BY Numbers
<1> DEFINE X == {}
<1>4. /\ X \in SUBSET Packets /\ \A p \in X : p.forced
      /\ \A g \in Connections : SentOn(g) \subseteq SentOn(g)'
      /\ \A g \in Connections : SentOn(g)' \subseteq SentOn(g) \cup X
  BY <1>1
<1> HIDE DEF X
<1> QED
  BY <1>2, <1>3, <1>4, QuietOrder

\* Steps that send and take nothing, of an actor with nothing under way.
LEMMA IdleOrder ==
    ASSUME Inv, OrderInv, NEW a \in Actors,
           NEW l \in Labels \ (Taking \cup {"append", "c_open"}),
           pc' = [pc EXCEPT ![a] = l], pc[a] \notin Taking,
           item' = item \/ \E p : item' = [item EXCEPT ![a] = p],
           UNCHANGED <<queue, attr, loaded, count, wire, appended>>,
           lost \subseteq lost', socket' \in {socket, 0},
           reentry' = reentry \/ (reentry' = "none" /\ pc[a] \in Holding)
    PROVE  OrderInv'
<1>1. Underway' = Underway
  <2>1. /\ pc'[a] = l
        /\ \A b \in Actors : b # a => pc'[b] = pc[b] /\ item'[b] = item[b]
    BY DEF Inv, TypeOK
  <2> QED
    BY <2>1, UnderwaySame
<1>2. Overtaking' \/ ~Overtaking \/ Underway = {}
  <2>1. CASE reentry' = reentry
    BY <2>1 DEF Overtaking
  <2>2. CASE pc[a] \in Holding
    <3>1. lock = a
      BY <2>2 DEF Inv, LockOwner
    <3> QED
      BY <3>1, UnderwayOf
  <2> QED
    BY <2>1, <2>2
<1> QED
  BY <1>1, <1>2, NoSendOrder

\* The steps of the actors that neither send nor take a packet keep the order.
LEMMA QuietSteps ==
    ASSUME Inv, OrderInv, NEW a \in Actors,
           \/ Disconnect(a) \/ ForcedTake(a) \/ ForcedDone(a) \/ ForcedFails(a)
           \/ ConnectFails(a) \/ ConnectStart(a) \/ DisconnectClose(a)
    PROVE  OrderInv'
<1>1. PICK l \in {"flush", "close", "idle", "react", "failed",
                  "force_early"} : pc' = [pc EXCEPT ![a] = l]
  BY LabelFacts
  DEF Disconnect, ForcedTake, ForcedDone, ForcedFails, ConnectFails,
      ConnectStart, DisconnectClose, Raises, Goto
<1>2. l \in Labels \ (Taking \cup {"append", "c_open"})
  BY DEF Labels, Taking, Listening, Early, Late
<1>3. pc[a] \notin Taking
  BY LabelFacts
  DEF Disconnect, Free, ForcedTake, ForcedDone, ForcedFails, ConnectFails,
      ConnectStart, DisconnectClose, Taking
<1>4. /\ UNCHANGED <<queue, attr, loaded, count, wire, appended, lost>>
      /\ socket' \in {socket, 0}
      /\ item' = item \/ \E p : item' = [item EXCEPT ![a] = p]
  <2>1. CASE ConnectStart(a) \/ Disconnect(a) \/ ForcedTake(a)
    BY <2>1 DEF ConnectStart, Disconnect, ForcedTake, link, held, history
  <2>2. CASE ConnectFails(a) \/ DisconnectClose(a)
    BY <2>2 DEF ConnectFails, DisconnectClose, held, history
  <2>3. CASE ForcedDone(a) \/ ForcedFails(a)
    BY <2>3 DEF ForcedDone, ForcedFails, Drop, link, history
  <2> QED
    BY <2>1, <2>2, <2>3
<1>5. reentry' = reentry \/ (reentry' = "none" /\ pc[a] \in Holding)
  <2>1. CASE ForcedFails(a)
    <3>1. {"force_early", "force_late"} \subseteq Holding
      BY DEF Holding, Listening, Early, Late
    <3> QED
      BY <2>1, <3>1 DEF ForcedFails, Raised, nested
  <2>2. CASE ~ForcedFails(a)
    BY <2>2
    DEF Disconnect, ForcedTake, ForcedDone, ConnectFails, ConnectStart,
        DisconnectClose, nested
  <2> QED
    BY <2>1, <2>2
<1> QED
  BY <1>1, <1>2, <1>3, <1>4, <1>5, IdleOrder

\* Those of the networking thread.
LEMMA NetQuietSteps ==
    ASSUME Inv, OrderInv,
           \/ NetStart \/ NetTop \/ NetDrained \/ NetRead \/ NetStuck
           \/ NetRestArrives \/ NetStuckRaises \/ NetReacted \/ NetReadDone
           \/ NetFailed \/ NetCheck \/ NetCleanup
    PROVE  OrderInv'
<1>1. PICK l \in {"idle", "top", "drain", "read", "stuck", "react", "failed",
                  "handled", "cleanup"} : pc' = [pc EXCEPT ![Net] = l]
  <2>1. CASE NetStart \/ NetTop \/ NetDrained \/ NetRead \/ NetStuck
    BY <2>1 DEF NetStart, NetTop, NetDrained, NetRead, NetStuck, Goto
  <2>2. CASE NetRestArrives \/ NetStuckRaises \/ NetReacted \/ NetReadDone
    BY <2>2 DEF NetRestArrives, NetStuckRaises, NetReacted, NetReadDone, Goto
  <2>3. CASE NetFailed \/ NetCheck \/ NetCleanup
    BY <2>3 DEF NetFailed, NetCheck, NetCleanup, Goto
  <2> QED
    BY <2>1, <2>2, <2>3
<1>2. l \in Labels \ (Taking \cup {"append", "c_open"})
  BY DEF Labels, Taking
<1>3. pc[Net] \notin Taking
  BY DEF NetStart, NetTop, NetDrained, NetRead, NetStuck, NetRestArrives,
     NetStuckRaises, NetReacted, NetReadDone, NetFailed, NetCheck, NetCleanup,
     Taking
<1>4. /\ UNCHANGED <<queue, attr, item, loaded, count, wire, appended, lost,
                     reentry>>
      /\ socket' \in {socket, 0}
  <2>1. CASE NetStart \/ NetTop \/ NetDrained \/ NetRead \/ NetStuck
    BY <2>1 DEF NetStart, NetTop, NetDrained, NetRead, NetStuck, link, held,
       history, nested
  <2>2. CASE NetRestArrives \/ NetStuckRaises \/ NetReacted \/ NetReadDone
    BY <2>2 DEF NetRestArrives, NetStuckRaises, NetReacted, NetReadDone, link,
       held, history, nested
  <2>3. CASE NetFailed \/ NetCheck \/ NetCleanup
    BY <2>3 DEF NetFailed, NetCheck, NetCleanup, link, held, history, nested
  <2> QED
    BY <2>1, <2>2, <2>3
<1> QED
  BY <1>1, <1>2, <1>3, <1>4, ActorNames, IdleOrder

\* So do the ends of the late listeners.
LEMMA LateOrder ==
    ASSUME Inv, OrderInv, NEW a \in Actors, pc[a] \in Late,
           \/ a = Net /\ (NetDone \/ NetWriteRaises)
           \/ FlushDone(a) \/ FlushFails(a)
    PROVE  OrderInv'
<1>1. PICK l \in {"idle", "failed", "read", "drain", "flush"} :
          pc' = [pc EXCEPT ![a] = l]
  BY DEF NetDone, NetWriteRaises, FlushDone, FlushFails, Raises, Goto
<1>2. /\ l \in Labels \ (Taking \cup {"append", "c_open"})
      /\ pc[a] \notin Taking /\ pc[a] \in Holding
  BY LabelFacts DEF Labels, Taking, Late
<1>3. /\ item' = [item EXCEPT ![a] = NoPacket]
      /\ UNCHANGED <<queue, attr, socket, loaded, count, wire, appended>>
      /\ lost \subseteq lost'
      /\ reentry' = reentry \/ reentry' = "none"
  BY DEF NetDone, NetWriteRaises, FlushDone, FlushFails, Drop, link, nested,
     Raised
<1> QED
  BY <1>1, <1>2, <1>3, IdleOrder

\* The first send of a packet keeps the order.
LEMMA LengthOrder ==
    ASSUME Inv, OrderInv, NEW a \in Actors,
           (a = Net /\ NetLength) \/ ForcedLength(a) \/ FlushLength(a)
    PROVE  OrderInv'
<1> USE DEF OrderInv
<1>1. PICK l \in Bodies : /\ pc' = [pc EXCEPT ![a] = l]
                          /\ l \in Taking <=> pc[a] \in Taking
  BY DEF NetLength, ForcedLength, FlushLength, Goto, Bodies, Taking
<1>2. /\ Send("length", item[a])
      /\ UNCHANGED <<queue, attr, socket, item, loaded, count, appended, lost,
                     reentry>>
  BY DEF NetLength, ForcedLength, FlushLength, SendLength, link, history, nested
<1>3. l \in Labels \ {"append", "c_open"}
  BY LabelFacts DEF Bodies
<1>4. Underway' = Underway
  <2>1. pc'[a] = l /\ \A b \in Actors : b # a => pc'[b] = pc[b]
    BY <1>1, <1>3 DEF Inv, TypeOK
  <2> QED
    BY <2>1, <1>1, <1>2, UnderwaySame
<1>5. /\ \A g \in Connections : SentOn(g)' = SentOn(g)
      /\ \A g \in Connections : g # socket => wire'[g] = wire[g]
      /\ InOrderOnce'
  BY <1>2, LengthEffect
<1>6. /\ Overtaking' \/ ~Overtaking
      /\ count' \in Nat /\ count' >= count
  BY <1>2, Numbers DEF Overtaking
<1> DEFINE X == {}
<1>7. /\ X \in SUBSET Packets /\ \A p \in X : p.forced
      /\ \A g \in Connections : SentOn(g) \subseteq SentOn(g)'
      /\ \A g \in Connections : SentOn(g)' \subseteq SentOn(g) \cup X
  BY <1>5
<1> HIDE DEF X
<1> QED
  BY <1>1, <1>2, <1>3, <1>4, <1>5, <1>6, <1>7, QuietOrder

\* A forced packet may be sent at any time.
LEMMA ForcedOrder ==
    ASSUME Inv, OrderInv, NEW a \in Actors,
           NEW l \in Labels \ (Taking \cup {"append", "c_open"}),
           NEW p \in Packets, p.forced, Send("body", p) \/ SendWhole(p),
           \/ pc' = [pc EXCEPT ![a] = l] /\ pc[a] \notin Taking
           \/ UNCHANGED <<pc, item>> /\ pc[a] \in Listening,
           item' = item \/ \E q : item' = [item EXCEPT ![a] = q],
           UNCHANGED <<queue, attr, socket, loaded, appended, lost, reentry>>,
           count' \in {count, count + 1}
    PROVE  OrderInv'
<1> USE DEF OrderInv
<1>1. PICK m \in Labels \ {"append", "c_open"} :
          pc' = [pc EXCEPT ![a] = m] /\ (m \in Taking <=> pc[a] \in Taking)
                /\ (m \in Taking => item' = item)
  <2>1. CASE UNCHANGED <<pc, item>> /\ pc[a] \in Listening
    <3>1. pc' = [pc EXCEPT ![a] = pc[a]]
      BY <2>1 DEF Inv, TypeOK
    <3>2. pc[a] \in Labels \ {"append", "c_open"}
      BY <2>1, LabelFacts DEF Listening, Early, Late
    <3> QED
      BY <2>1, <3>1, <3>2
  <2>2. CASE pc' = [pc EXCEPT ![a] = l] /\ pc[a] \notin Taking
    BY <2>2
  <2> QED
    BY <2>1, <2>2
<1>2. Underway' = Underway
  <2>1. /\ pc'[a] = m
        /\ \A b \in Actors : b # a => pc'[b] = pc[b] /\ item'[b] = item[b]
    BY <1>1 DEF Inv, TypeOK
  <2> QED
    BY <2>1, <1>1, UnderwaySame
<1>3. \A q \in SentOn(socket) : Earlier(q, p)
  BY DEF Earlier
<1>4. /\ \A g \in Connections : g # socket => SentOn(g)' = SentOn(g)
      /\ SentOn(socket)' = SentOn(socket) \cup {p}
      /\ \A g \in Connections : g # socket => wire'[g] = wire[g]
      /\ InOrderOnce'
  BY <1>3, SendEffect
<1> DEFINE X == {p}
<1>5. ASSUME NEW g \in Connections
      PROVE  SentOn(g) \subseteq SentOn(g)' /\ SentOn(g)' \subseteq SentOn(g) \cup X
  <2>1. CASE g = socket
    <3>1. SentOn(g)' = SentOn(socket)'
      BY <2>1 DEF SentOn, Sent
    <3> QED
      BY <2>1, <3>1, <1>4
  <2>2. CASE g # socket
    BY <2>2, <1>4
  <2> QED
    BY <2>1, <2>2
<1>6. /\ Overtaking' \/ ~Overtaking
      /\ count' \in Nat /\ count' >= count
  BY Numbers DEF Overtaking
<1>7. X \in SUBSET Packets /\ \A q \in X : q.forced
  OBVIOUS
<1> HIDE DEF X
<1> QED
  BY <1>1, <1>2, <1>4, <1>5, <1>6, <1>7, QuietOrder

\* ForcedBody keeps the order of the unforced packets.
LEMMA ForcedBodyOrder ==
    ASSUME Inv, OrderInv, NEW a \in Actors, ForcedBody(a)
    PROVE  OrderInv'
<1> DEFINE l == "force_late"
<1>1. l \in Labels \ (Taking \cup {"append", "c_open"})
  BY DEF Labels, Listening, Late, Taking
<1>2. /\ pc' = [pc EXCEPT ![a] = l] /\ pc[a] \notin Taking
      /\ Send("body", item[a]) /\ item[a] \in Packets /\ item[a].forced
      /\ item' = [item EXCEPT ![a] = NoPacket]
      /\ UNCHANGED <<queue, attr, socket, loaded, count, appended, lost,
                     reentry>>
  BY DEF ForcedBody, SendBody, Drop, Goto, link, history, nested, Inv, AtHand,
     HandOf, Carrying, Bodies, Taking
<1> HIDE DEF l
<1> QED
  BY <1>1, <1>2, ForcedOrder

\* A step that takes the oldest packet from the queue, into a hand, to send
\* or to lose it.
LEMMA PopOrder ==
    ASSUME Inv, OrderInv, NEW a \in Actors, pc[a] \in Holding,
           pc[a] # "c_open", reentry # "open", reentry' # "open",
           NEW l \in Labels \ {"append", "c_open"},
           pc' = [pc EXCEPT ![a] = l],
           item' = item \/ \E p : item' = [item EXCEPT ![a] = p],
           Pop, UNCHANGED <<attr, socket, loaded, count, appended>>,
           \A g \in Connections : g # socket =>
              SentOn(g)' = SentOn(g) /\ wire'[g] = wire[g],
           socket # 0 =>
              /\ SentOn(socket) \subseteq SentOn(socket)'
              /\ SentOn(socket)' \subseteq SentOn(socket) \cup {Oldest},
           InOrderOnce', lost \subseteq lost',
           Underway \subseteq Underway',
           Underway' \subseteq Underway \cup {Oldest},
           Oldest \in lost' \cup Underway' \cup SentOn(socket)',
           \/ Overtaking'
           \/ /\ Underway = {}
              /\ socket # 0 => SentOn(socket)' = SentOn(socket)
    PROVE  OrderInv'
<1> USE DEF OrderInv
<1>1. attr \in Connections /\ attr # 0 /\ ~Opening
  BY HolderFacts
<1>2. /\ pc'[a] = l
      /\ \A b \in Actors : b # a =>
            pc'[b] = pc[b] /\ item'[b] = item[b] /\ loaded'[b] = loaded[b]
  BY DEF Inv, TypeOK
<1>3. ~Opening'
  BY <1>1, <1>2 DEF Opening
<1>4. /\ Oldest \in InQueue(attr)
      /\ InQueue(attr)' \subseteq InQueue(attr)
      /\ InQueue(attr) \subseteq InQueue(attr)' \cup {Oldest}
      /\ \A p \in InQueue(attr)' : Earlier(Oldest, p)
      /\ \A g \in Connections : g # attr => queue'[g] = queue[g]
      /\ QueuesOrdered'
  BY <1>1, PopEffect
<1>5. Stages'
  <2>1. socket # 0 => AllEarlier(SentOn(socket)', InQueue(attr)')
    BY <1>4 DEF Stages, AllEarlier
  <2>2. socket # 0 /\ ~Overtaking' => AllEarlier(SentOn(socket)', Underway')
    BY <1>4 DEF Stages, AllEarlier
  <2>3. AllEarlier(Underway', InQueue(attr)')
    BY <1>1, <1>4 DEF Stages, AllEarlier
  <2> QED
    BY <2>1, <2>2, <2>3 DEF Stages
<1>6. Out' \subseteq Out \cup {}
  <2>1. ASSUME NEW g \in Connections PROVE InQueue(g)' \subseteq Out
    <3>1. CASE g = attr
      <4>1. InQueue(g)' = InQueue(attr)'
        BY <3>1 DEF InQueue
      <4> QED
        BY <4>1, <1>1, <1>4, OutFacts
    <3>2. CASE g # attr
      BY <3>2, <1>4, OutFacts DEF InQueue
    <3> QED
      BY <3>1, <3>2
  <2>2. Oldest \in Out
    BY <1>1, <1>4, OutFacts
  <2>3. Underway' \subseteq Out
    BY <2>2, OutFacts
  <2>4. ASSUME NEW g \in Connections PROVE SentOn(g)' \subseteq Out
    <3>1. CASE g = socket
      <4>1. SentOn(g)' = SentOn(socket)' /\ socket # 0
        BY <3>1 DEF SentOn, Sent, Connections
      <4> QED
        BY <3>1, <4>1, <2>2, OutFacts
    <3>2. CASE g # socket
      BY <3>2, OutFacts
    <3> QED
      BY <3>1, <3>2
  <2> QED
    BY <2>1, <2>3, <2>4, OutAfter
<1>7. LastWritten' /\ Numbered'
  <2> DEFINE X == {}
  <2>1. LastWritten /\ Numbered /\ LastOf(a)'
    BY <1>2 DEF LastOf, LastWritten
  <2>2. /\ X \in SUBSET Packets /\ Out' \subseteq Out \cup X
        /\ \A p \in X : p.forced \/ (p.by \in {a, "handshake"} /\ p.n <= count')
    BY <1>6
  <2>3. count' \in Nat /\ count' >= count /\ attr' \in Nat /\ attr' >= attr
    BY Numbers
  <2> HIDE DEF X
  <2> QED
    BY <2>1, <2>2, <2>3, <1>2, Keeps
<1>8. \A g : NotMade(g)' => NotMade(g)
  BY <1>3 DEF NotMade
<1>9. Fresh'
  <2>1. \A g \in Connections : g > attr => queue'[g] = <<>>
    BY <1>4, Numbers DEF Fresh, Connections
  <2>2. \A g \in Connections : NotMade(g)' => wire'[g] = <<>> /\ socket # g
    BY <1>8 DEF Fresh
  <2>3. \A p \in Out' : p.by = "handshake" /\ ~p.forced =>
           p.n = 0 /\ p.asked <= attr /\ ~NotMade(p.asked)'
    BY <1>6, <1>8 DEF Fresh
  <2> QED
    BY <2>1, <2>2, <2>3 DEF Fresh
<1>10. Accounted'
  <2> SUFFICES ASSUME NEW p \in appended, p.asked = attr, socket = attr
               PROVE  p \in InQueue(attr)' \cup lost' \cup SentOn(attr)'
                               \cup Underway'
    BY <1>3 DEF Accounted
  <2>1. p \in InQueue(attr) \cup lost \cup SentOn(attr) \cup Underway
    BY DEF Accounted
  <2>2. SentOn(attr)' = SentOn(socket)'
    BY DEF SentOn, Sent
  <2> QED
    BY <2>1, <2>2, <1>1, <1>4
<1> QED
  BY <1>4, <1>5, <1>7, <1>9, <1>10

\* A step that ends the sending of a packet, whether it was sent or is lost.
LEMMA EndOrder ==
    ASSUME Inv, OrderInv, NEW a \in Actors, pc[a] \in Taking,
           reentry # "open", reentry' # "open",
           NEW l \in Labels \ (Taking \cup {"append", "c_open"}),
           pc' = [pc EXCEPT ![a] = l], Drop(a),
           UNCHANGED <<queue, attr, socket, loaded, count, appended>>,
           \A g \in Connections : g # socket =>
              SentOn(g)' = SentOn(g) /\ wire'[g] = wire[g],
           socket # 0 =>
              /\ SentOn(socket) \subseteq SentOn(socket)'
              /\ SentOn(socket)' \subseteq SentOn(socket) \cup {item[a]},
           InOrderOnce', lost \subseteq lost',
           item[a] \in lost' \cup SentOn(socket)'
    PROVE  OrderInv'
<1> USE DEF OrderInv
<1> DEFINE p == item[a]
<1>1. /\ attr \in Connections /\ attr # 0 /\ ~Opening /\ Underway = {p}
      /\ \A b \in Actors : b # a => pc[b] \notin Taking
  <2>1. pc[a] \in Holding /\ pc[a] # "c_open"
    BY DEF Taking, Holding, Bodies, Listening, Early
  <2> QED
    BY <2>1, HolderFacts
<1>2. /\ pc'[a] = l
      /\ \A b \in Actors : b # a =>
            pc'[b] = pc[b] /\ item'[b] = item[b] /\ loaded'[b] = loaded[b]
  BY DEF Inv, TypeOK, Drop
<1>3. Underway' = {} /\ ~Opening'
  <2>1. \A b \in Actors : pc'[b] \notin Taking
    BY <1>1, <1>2
  <2> QED
    BY <2>1, <1>1, <1>2 DEF Underway, Opening
<1>4. \A g : InQueue(g)' = InQueue(g)
  BY DEF InQueue
<1>5. InQueue(attr)' = InQueue(attr)
  BY DEF InQueue
<1>6. QueuesOrdered'
  BY DEF QueuesOrdered
<1>7. Stages'
  <2>1. socket # 0 => AllEarlier(SentOn(socket)', InQueue(attr))
    BY <1>1 DEF Stages, AllEarlier
  <2>2. AllEarlier(SentOn(socket)', {}) /\ AllEarlier({}, InQueue(attr))
    BY DEF AllEarlier
  <2> QED
    BY <2>1, <2>2, <1>3, <1>5 DEF Stages
<1>8. Out' \subseteq Out \cup {}
  <2>1. ASSUME NEW g \in Connections PROVE SentOn(g)' \subseteq Out
    <3>1. CASE g = socket
      <4>1. SentOn(g)' = SentOn(socket)' /\ socket # 0
        BY <3>1 DEF SentOn, Sent, Connections
      <4> QED
        BY <3>1, <4>1, <1>1, OutFacts
    <3>2. CASE g # socket
      BY <3>2, OutFacts
    <3> QED
      BY <3>1, <3>2
  <2> QED
    BY <2>1, <1>3, <1>4, OutFacts, OutAfter
<1>9. LastWritten' /\ Numbered'
  <2> DEFINE X == {}
  <2>1. LastWritten /\ Numbered /\ LastOf(a)'
    BY <1>2 DEF LastOf, LastWritten
  <2>2. /\ X \in SUBSET Packets /\ Out' \subseteq Out \cup X
        /\ \A q \in X : q.forced \/ (q.by \in {a, "handshake"} /\ q.n <= count')
    BY <1>8
  <2>3. count' \in Nat /\ count' >= count /\ attr' \in Nat /\ attr' >= attr
    BY Numbers
  <2> HIDE DEF X
  <2> QED
    BY <2>1, <2>2, <2>3, <1>2, Keeps
<1>10. \A g : NotMade(g)' => NotMade(g)
  BY <1>3 DEF NotMade
<1>11. Fresh'
  <2>1. \A g \in Connections : NotMade(g)' => wire'[g] = <<>> /\ socket # g
    BY <1>10 DEF Fresh
  <2>2. \A q \in Out' : q.by = "handshake" /\ ~q.forced =>
           q.n = 0 /\ q.asked <= attr /\ ~NotMade(q.asked)'
    BY <1>8, <1>10 DEF Fresh
  <2> QED
    BY <2>1, <2>2 DEF Fresh
<1>12. Accounted'
  <2> SUFFICES ASSUME NEW q \in appended, q.asked = attr, socket = attr
               PROVE  q \in InQueue(attr) \cup lost' \cup SentOn(attr)'
    BY <1>3, <1>5 DEF Accounted
  <2>1. q \in InQueue(attr) \cup lost \cup SentOn(attr) \cup {p}
    BY <1>1 DEF Accounted
  <2>2. SentOn(attr)' = SentOn(socket)'
    BY DEF SentOn, Sent
  <2> QED
    BY <2>1, <2>2, <1>1
<1> QED
  BY <1>6, <1>7, <1>9, <1>11, <1>12

\* NetTake and FlushTake keep the order.
LEMMA TakeOrder ==
    ASSUME Inv, OrderInv, NEW a \in Actors, (a = Net /\ NetTake) \/ FlushTake(a)
    PROVE  OrderInv'
<1> USE DEF OrderInv
<1>1. /\ pc[a] \in {"drain", "flush"} /\ Pop
      /\ item' = [item EXCEPT ![a] = Oldest]
      /\ UNCHANGED <<attr, socket, wire, loaded, count, appended, lost, reentry>>
  BY DEF NetTake, FlushTake, Take, link, history, nested
<1>2. PICK l \in {"drain_early", "flush_early"} : pc' = [pc EXCEPT ![a] = l]
  BY DEF NetTake, FlushTake, Goto
<1>3. l \in Labels \ {"append", "c_open"}
  BY DEF Labels, Listening, Early
<1>4. /\ pc[a] \in Holding /\ pc[a] # "c_open"
      /\ pc[a] \notin Taking /\ pc[a] \notin Listening
  BY <1>1 DEF Holding, Taking, Listening, Early, Late
<1>5. /\ reentry = "none" /\ Underway = {}
      /\ \A b \in Actors : b # a => pc[b] \notin Taking
  BY <1>4, HolderFacts
<1>6. Underway' = {Oldest}
  <2>1. /\ pc'[a] = l /\ item'[a] = Oldest
        /\ \A b \in Actors : b # a => pc'[b] = pc[b]
    BY <1>1, <1>2, <1>3 DEF Inv, TypeOK
  <2> QED
    BY <2>1, <1>5 DEF Underway, Taking
<1>7. InOrderOnce' /\ \A g : SentOn(g)' = SentOn(g)
  BY <1>1 DEF InOrderOnce, SentOn, Sent
<1>8. SentOn(socket)' = SentOn(socket)
  BY <1>1 DEF SentOn, Sent
<1> QED
  BY <1>1, <1>2, <1>3, <1>4, <1>5, <1>6, <1>7, <1>8, PopOrder

\* NetBody and FlushBody keep the order: the packet under way is the latest.
LEMMA BodyOrder ==
    ASSUME Inv, OrderInv, NEW a \in Actors, (a = Net /\ NetBody) \/ FlushBody(a)
    PROVE  OrderInv'
<1> USE DEF OrderInv
<1>1. /\ pc[a] \in {"drain_body", "flush_body"} /\ Send("body", item[a])
      /\ Drop(a)
      /\ UNCHANGED <<queue, attr, socket, loaded, count, appended, lost,
                     reentry>>
  BY DEF NetBody, FlushBody, SendBody, Drop, link, history, nested
<1>2. PICK l \in {"drain_late", "flush_late"} : pc' = [pc EXCEPT ![a] = l]
  BY DEF NetBody, FlushBody, Goto
<1>3. l \in Labels \ (Taking \cup {"append", "c_open"})
  BY DEF Labels, Listening, Late, Taking
<1>4. /\ pc[a] \in Taking /\ pc[a] \in Holding /\ pc[a] \notin Listening
      /\ pc[a] # "c_open"
  BY <1>1 DEF Taking, Holding, Bodies, Listening, Early, Late
<1>5. reentry = "none" /\ Underway = {item[a]}
  BY <1>4, HolderFacts
<1>6. socket # 0 /\ \A q \in SentOn(socket) : Earlier(q, item[a])
  BY <1>1, <1>5 DEF Send, CanSend, Stages, AllEarlier, Overtaking
<1>7. /\ \A g \in Connections : g # socket => SentOn(g)' = SentOn(g)
      /\ SentOn(socket)' = SentOn(socket) \cup {item[a]}
      /\ \A g \in Connections : g # socket => wire'[g] = wire[g]
      /\ InOrderOnce'
  BY <1>1, <1>6, SendEffect
<1> QED
  BY <1>1, <1>2, <1>3, <1>4, <1>5, <1>7, EndOrder

\* A packet that is ignored, or that costs an exception, before it was sent
\* is lost, and that keeps the order.
LEMMA LostOrder ==
    ASSUME Inv, OrderInv, NEW a \in Actors, pc[a] \in Taking,
           \/ a = Net /\ (NetDone \/ NetWriteRaises)
           \/ FlushDone(a) \/ FlushFails(a)
    PROVE  OrderInv'
<1> USE DEF OrderInv
<1>1. PICK l \in {"idle", "failed", "read", "drain", "flush"} :
          pc' = [pc EXCEPT ![a] = l]
  BY DEF NetDone, NetWriteRaises, FlushDone, FlushFails, Raises, Goto
<1>2. l \in Labels \ (Taking \cup {"append", "c_open"})
  BY DEF Labels, Taking
<1>3. /\ Drop(a) /\ lost' = lost \cup Hand(a)
      /\ UNCHANGED <<queue, attr, socket, wire, loaded, count, appended>>
  BY DEF NetDone, NetWriteRaises, FlushDone, FlushFails, link
<1>4. item[a] \in lost'
  <2>1. item[a] \in Packets
    BY DEF Inv, AtHand, HandOf, Carrying, Taking, Early, Bodies
  <2>2. item[a] # NoPacket
    BY <2>1, ActorNames DEF Packets, NoPacket
  <2> QED
    BY <2>2, <1>3 DEF Hand
<1>5. reentry # "open" /\ reentry' # "open"
  <2>1. CASE pc[a] \in Early
    BY <2>1
    DEF NetDone, NetWriteRaises, FlushDone, FlushFails, Heard, Raised, nested,
        Early
  <2>2. CASE pc[a] \notin Early
    <3>1. pc[a] \in Holding /\ pc[a] \notin Listening /\ pc[a] # "c_open"
      BY <2>2 DEF Taking, Holding, Bodies, Listening, Early, Late
    <3>2. reentry = "none"
      BY <3>1, HolderFacts
    <3> QED
      BY <3>2
      DEF NetDone, NetWriteRaises, FlushDone, FlushFails, Raised, nested
  <2> QED
    BY <2>1, <2>2
<1>6. InOrderOnce' /\ \A g : SentOn(g)' = SentOn(g)
  BY <1>3 DEF InOrderOnce, SentOn, Sent
<1>7. SentOn(socket)' = SentOn(socket)
  BY <1>3 DEF SentOn, Sent
<1> QED
  BY <1>1, <1>2, <1>3, <1>4, <1>5, <1>6, <1>7, EndOrder

\* The ends of the listeners, and sends that raise, keep the order.
LEMMA DoneOrder ==
    ASSUME Inv, OrderInv, NEW a \in Actors,
           \/ a = Net /\ (NetDone \/ NetWriteRaises)
           \/ FlushDone(a) \/ FlushFails(a)
    PROVE  OrderInv'
<1>1. pc[a] \in Taking \cup Late
  BY DEF NetDone, NetWriteRaises, FlushDone, FlushFails, Taking, Late
<1> QED
  BY <1>1, LateOrder, LostOrder

\* WritePacket keeps the order: the number is the highest so far.
LEMMA WritePacketOrder ==
    ASSUME Inv, OrderInv, NEW a \in Actors, WritePacket(a)
    PROVE  OrderInv'
<1> USE DEF OrderInv
<1>1. PICK force \in BOOLEAN :
          /\ item' = [item EXCEPT ![a] = NextPacket(a, force)]
          /\ loaded' = [loaded EXCEPT ![a] = IF force THEN 0 ELSE attr]
          /\ pc' = [pc EXCEPT ![a] = IF force THEN "force" ELSE "append"]
  BY DEF WritePacket, Goto
<1>2. /\ UNCHANGED <<queue, attr, socket, wire, appended, lost, reentry>>
      /\ count' = count + 1 /\ pc[a] = Home(a)
  BY DEF WritePacket, link, history, Free, nested
<1>3. /\ pc[a] \notin Taking \cup {"c_open"}
      /\ pc'[a] = IF force THEN "force" ELSE "append"
      /\ item'[a] = NextPacket(a, force)
      /\ loaded'[a] = IF force THEN 0 ELSE attr
      /\ \A b \in Actors : b # a =>
            pc'[b] = pc[b] /\ item'[b] = item[b] /\ loaded'[b] = loaded[b]
  BY <1>1, <1>2, LabelFacts DEF Inv, TypeOK, Taking
<1>4. /\ count \in Nat /\ count' \in Nat /\ count' >= count
      /\ attr \in Nat /\ attr' \in Nat /\ attr' >= attr
  BY <1>2, Numbers
<1>5. Underway' = Underway
  BY <1>3, UnderwaySame DEF Taking
<1>6. /\ \A g : InQueue(g)' = InQueue(g) /\ SentOn(g)' = SentOn(g)
      /\ InQueue(attr)' = InQueue(attr) /\ SentOn(attr)' = SentOn(attr)
      /\ SentOn(socket)' = SentOn(socket)
  BY <1>2 DEF InQueue, SentOn, Sent
<1>7. InOrderOnce' /\ QueuesOrdered'
  BY <1>2 DEF InOrderOnce, QueuesOrdered, Sent
<1>8. Stages'
  BY <1>2, <1>5, <1>6 DEF Stages, Overtaking
<1>9. Out' \subseteq Out \cup {}
  BY <1>5, <1>6, OutFacts, OutAfter
<1>10. LastWritten' /\ Numbered'
  <2> DEFINE X == {}
  <2>1. Out' \subseteq Out \cup X
    BY <1>9
  <2>2. /\ X \in SUBSET Packets
        /\ \A q \in X : q.forced \/ (q.by \in {a, "handshake"} /\ q.n <= count')
    OBVIOUS
  <2>3. LastOf(a)'
    <3>1. loaded'[a] <= attr'
      BY <1>2, <1>3, <1>4
    <3>2. CASE ~force
      <4>1. /\ item'[a].by = a /\ item'[a].forced = FALSE
            /\ item'[a].n = count + 1
        BY <1>3, <3>2 DEF NextPacket
      <4>2. AllEarlier(Out', {item'[a]})
        <5> SUFFICES ASSUME NEW p \in Out', ~p.forced PROVE p.n < item'[a].n
          BY DEF AllEarlier, Earlier
        <5>1. p.n <= count /\ p.n \in Nat
          BY <2>1, OutFacts DEF Numbered
        <5> QED
          BY <5>1, <4>1, <1>4
      <4> QED
        BY <3>1, <4>1, <4>2, <1>2, <1>4 DEF LastOf
    <3>3. CASE force
      BY <3>1, <3>3, <1>3 DEF LastOf
    <3> QED
      BY <3>2, <3>3
  <2>4. LastWritten /\ Numbered
    OBVIOUS
  <2> HIDE DEF X
  <2> QED
    BY <2>1, <2>2, <2>3, <2>4, <1>3, <1>4, Keeps
<1>11. (Opening' <=> Opening) /\ \A g : NotMade(g)' <=> NotMade(g)
  BY <1>2, <1>3 DEF NotMade, Opening
<1>12. Fresh'
  BY <1>2, <1>9, <1>11 DEF Fresh
<1>13. Accounted'
  BY <1>2, <1>5, <1>6, <1>11 DEF Accounted
<1> QED
  BY <1>7, <1>8, <1>10, <1>12, <1>13

\* A packet of an actor enters a queue, the latest of all that is out.
LEMMA PushOrder ==
    ASSUME Inv, OrderInv, NEW a \in Actors, NEW p \in Packets,
           NEW g \in Connections, g <= attr, p.asked = g, p.by = a, ~p.forced,
           p.n <= count', \A q \in Out : Earlier(q, p),
           queue' = [queue EXCEPT ![g] = Append(@, p)],
           appended' = appended \cup {p}, Underway' = Underway,
           NEW l \in Labels \ {"append", "c_open"},
           pc' = [pc EXCEPT ![a] = l],
           item' = item \/ item' = [item EXCEPT ![a] = NoPacket],
           loaded' = loaded \/ loaded' = [loaded EXCEPT ![a] = 0],
           count' \in {count, count + 1},
           UNCHANGED <<attr, socket, wire, lost, reentry>>
    PROVE  OrderInv'
<1> USE DEF OrderInv
<1>1. /\ pc'[a] = l
      /\ \A b \in Actors : b # a =>
            pc'[b] = pc[b] /\ item'[b] = item[b] /\ loaded'[b] = loaded[b]
      /\ loaded'[a] \in {loaded[a], 0}
  BY DEF Inv, TypeOK
<1>2. /\ InQueue(g)' = InQueue(g) \cup {p}
      /\ \A h \in Connections : h # g => queue'[h] = queue[h]
      /\ QueuesOrdered'
  BY OutFacts, PushEffect
<1>3. /\ count' \in Nat /\ count' >= count
      /\ attr' \in Nat /\ attr' >= attr /\ attr \in Connections
      /\ socket # 0 => socket \in Connections
  BY Numbers DEF Connections
<1>4. /\ \A h : SentOn(h)' = SentOn(h)
      /\ SentOn(attr)' = SentOn(attr) /\ SentOn(socket)' = SentOn(socket)
      /\ InOrderOnce'
  BY DEF SentOn, Sent, InOrderOnce
<1>5. /\ InQueue(attr)' = IF attr = g THEN InQueue(attr) \cup {p}
                                      ELSE InQueue(attr)
      /\ \A h \in Connections : InQueue(h)' \subseteq InQueue(h) \cup {p}
  <2>1. \A h \in Connections : h # g => InQueue(h)' = InQueue(h)
    BY <1>2 DEF InQueue
  <2>2. attr = g => InQueue(attr)' = InQueue(g)'
    BY DEF InQueue
  <2>3. ASSUME attr # g PROVE InQueue(attr)' = InQueue(attr)
    <3>1. queue'[attr'] = queue[attr]
      BY <2>3, <1>2, <1>3
    <3> QED
      BY <3>1 DEF InQueue
  <2> QED
    BY <2>1, <2>2, <2>3, <1>2
<1>6. Stages'
  <2>1. socket # 0 => \A q \in SentOn(socket) : Earlier(q, p)
    BY <1>3, OutFacts
  <2>2. \A q \in Underway : Earlier(q, p)
    BY OutFacts
  <2> QED
    BY <2>1, <2>2, <1>3, <1>4, <1>5 DEF Stages, AllEarlier, Overtaking
<1>7. Out' \subseteq Out \cup {p}
  BY <1>4, <1>5, OutFacts, OutAfter
<1>8. LastWritten' /\ Numbered'
  <2> DEFINE X == {p}
  <2>1. Out' \subseteq Out \cup X
    BY <1>7
  <2>2. /\ X \in SUBSET Packets
        /\ \A q \in X : q.forced \/ (q.by \in {a, "handshake"} /\ q.n <= count')
    OBVIOUS
  <2>3. LastOf(a)'
    <3>1. loaded'[a] <= attr
      <4>1. LastOf(a) /\ attr \in Nat
        BY Numbers DEF LastWritten
      <4>2. loaded[a] <= attr /\ 0 <= attr
        BY <4>1 DEF LastOf
      <4>3. loaded'[a] = loaded[a] \/ loaded'[a] = 0
        BY <1>1
      <4> QED
        BY <4>2, <4>3
    <3> QED
      BY <3>1, <1>1 DEF LastOf
  <2>4. LastWritten /\ Numbered
    OBVIOUS
  <2> HIDE DEF X
  <2> QED
    BY <2>1, <2>2, <2>3, <2>4, <1>1, <1>3, Keeps
<1>9. (Opening' => Opening) /\ \A h : NotMade(h)' => NotMade(h)
  BY <1>1 DEF NotMade, Opening
<1>10. Fresh'
  <2>1. p.by # "handshake"
    BY WritersAssumption DEF Actors, Net
  <2>2. \A h \in Connections : h > attr => queue'[h] = <<>>
    BY <1>2, <1>3 DEF Fresh, Connections
  <2>3. \A h \in Connections : NotMade(h)' => wire'[h] = <<>> /\ socket' # h
    BY <1>9 DEF Fresh
  <2>4. \A q \in Out' : q.by = "handshake" /\ ~q.forced =>
           q.n = 0 /\ q.asked <= attr' /\ ~NotMade(q.asked)'
    BY <2>1, <1>7, <1>9 DEF Fresh
  <2> QED
    BY <2>2, <2>3, <2>4 DEF Fresh
<1>11. Accounted'
  <2>1. p.asked \in 1..attr
    BY <1>3 DEF Connections
  <2> QED
    BY <2>1, <1>4, <1>5, <1>9 DEF Accounted
<1> QED
  BY <1>2, <1>4, <1>6, <1>8, <1>10, <1>11

\* AppendPacket keeps the order: the thread wrote nothing since.
LEMMA AppendPacketOrder ==
    ASSUME Inv, OrderInv, NEW a \in Actors, AppendPacket(a)
    PROVE  OrderInv'
<1> DEFINE p == item[a]
           g == loaded[a]
           l == Home(a)
<1>1. /\ pc[a] = "append"
      /\ queue' = [queue EXCEPT ![g] = Append(@, p)]
      /\ appended' = appended \cup {p}
      /\ item' = [item EXCEPT ![a] = NoPacket]
      /\ loaded' = [loaded EXCEPT ![a] = 0]
      /\ pc' = [pc EXCEPT ![a] = l]
      /\ UNCHANGED <<attr, socket, wire, count, lost, reentry>>
  BY DEF AppendPacket, Goto, link, nested
<1>2. p \in Packets /\ p.asked = g /\ g \in Connections
  BY <1>1 DEF Inv, AtHand, HandOf, TypeOK, Connections
<1>3. /\ g <= attr /\ p.by = a /\ ~p.forced /\ p.n <= count'
      /\ \A q \in Out : Earlier(q, p)
  BY <1>1 DEF OrderInv, LastWritten, LastOf, AllEarlier
<1>4. l \in Labels \ {"append", "c_open"} /\ l \notin Taking
  BY LabelFacts DEF Taking, Labels
<1>5. Underway' = Underway
  <2>1. /\ pc'[a] = l
        /\ \A b \in Actors : b # a => pc'[b] = pc[b] /\ item'[b] = item[b]
    BY <1>1 DEF Inv, TypeOK
  <2> QED
    BY <2>1, <1>1, <1>4, UnderwaySame DEF Taking
<1> HIDE DEF p, g, l
<1> QED
  BY <1>1, <1>2, <1>3, <1>4, <1>5, PushOrder

\* A new connection is begun: its queue is empty.
LEMMA OpenOrder ==
    ASSUME Inv, OrderInv, NEW a \in Actors, NEW l \in Labels \ {"append"},
           pc' = [pc EXCEPT ![a] = l], Underway' = Underway,
           attr' = attr + 1, attr' \in Connections, Overtaking' = Overtaking,
           UNCHANGED <<queue, socket, wire, item, loaded, count, appended, lost>>
    PROVE  OrderInv'
<1> USE DEF OrderInv
<1>1. attr \in Nat /\ attr' \in Nat /\ count \in Nat /\ attr' > attr
  BY Numbers
<1>2. pc'[a] = l /\ \A b \in Actors : b # a => pc'[b] = pc[b]
  BY DEF Inv, TypeOK
<1>3. InQueue(attr)' = {}
  BY <1>1 DEF Fresh, InQueue
<1>4. /\ \A g : InQueue(g)' = InQueue(g) /\ SentOn(g)' = SentOn(g)
      /\ SentOn(socket)' = SentOn(socket)
      /\ InOrderOnce' /\ QueuesOrdered'
  BY DEF InQueue, SentOn, Sent, InOrderOnce, QueuesOrdered
<1>5. Stages'
  BY <1>3, <1>4 DEF Stages, AllEarlier
<1>6. Out' \subseteq Out \cup {}
  BY <1>4, OutFacts, OutAfter
<1>7. LastWritten' /\ Numbered'
  <2> DEFINE X == {}
  <2>1. Out' \subseteq Out \cup X
    BY <1>6
  <2>2. /\ X \in SUBSET Packets
        /\ \A q \in X : q.forced \/ (q.by \in {a, "handshake"} /\ q.n <= count')
    OBVIOUS
  <2>3. LastOf(a)' /\ LastWritten /\ Numbered
    <3>1. loaded[a] \in Nat /\ loaded[a] <= attr
      BY Numbers DEF LastWritten, LastOf
    <3> QED
      BY <3>1, <1>1, <1>2 DEF LastOf
  <2>4. /\ count' \in Nat /\ count' >= count /\ attr' \in Nat /\ attr' >= attr
        /\ \A b \in Actors : b # a =>
              pc'[b] = pc[b] /\ item'[b] = item[b] /\ loaded'[b] = loaded[b]
    BY <1>1, <1>2
  <2> HIDE DEF X
  <2> QED
    BY <2>1, <2>2, <2>3, <2>4, Keeps
<1>8. Fresh'
  <2>1. \A g \in Connections : NotMade(g)' => g > attr
    BY <1>1 DEF NotMade, Connections
  <2>2. \A g \in Connections : g > attr => NotMade(g)
    BY DEF NotMade
  <2>3. \A g \in Connections : g > attr' => g > attr
    BY <1>1 DEF Connections
  <2>4. \A g \in Connections : NotMade(g)' => wire'[g] = <<>> /\ socket' # g
    BY <2>1, <2>2 DEF Fresh
  <2>5. \A g \in Connections : g > attr' => queue'[g] = <<>>
    BY <2>3 DEF Fresh
  <2>6. ASSUME NEW p \in Out', p.by = "handshake", ~p.forced
        PROVE  p.n = 0 /\ p.asked <= attr' /\ ~NotMade(p.asked)'
    <3>1. p \in Packets /\ p.asked \in Nat /\ p.n = 0 /\ p.asked <= attr
      BY <2>6, <1>6, OutFacts DEF Fresh
    <3> QED
      BY <3>1, <1>1 DEF NotMade
  <2> QED
    BY <2>4, <2>5, <2>6 DEF Fresh
<1>9. Accounted'
  <2>1. \A p \in appended' : p.asked \in 1..attr' /\ p.asked # attr'
    BY <1>1 DEF Accounted
  <2> QED
    BY <2>1 DEF Accounted
<1> QED
  BY <1>4, <1>5, <1>7, <1>8, <1>9

\* A connection is made: its socket has carried nothing, and no handshake
\* that is out is its own.
LEMMA MadeOrder ==
    ASSUME Inv, OrderInv, NEW a \in Actors,
           NEW l \in Labels \ {"append", "c_open"},
           pc' = [pc EXCEPT ![a] = l], Underway' = Underway,
           attr \in Connections, Opening, ~Opening', socket' = attr,
           queue' = [queue EXCEPT ![attr] = Append(@, Handshake(attr))],
           UNCHANGED <<attr, wire, item, loaded, count, appended, lost>>
    PROVE  OrderInv'
<1> USE DEF OrderInv
<1>1. /\ pc'[a] = l /\ \A b \in Actors : b # a => pc'[b] = pc[b]
      /\ NotMade(attr)
  BY DEF Inv, TypeOK, NotMade
<1>2. PICK p \in Packets, g \in Connections :
          /\ p = Handshake(attr) /\ g = attr
          /\ p.by = "handshake" /\ p.n = 0 /\ p.asked = attr
  <2>1. attr \in 0..MaxConnections
    BY Numbers
  <2>2. Handshake(attr) \in Packets
    BY <2>1, BoundsAssumption DEF Handshake, Packets
  <2> QED
    BY <2>2 DEF Handshake
<1>3. \A q \in Out : Earlier(q, p)
  <2> SUFFICES ASSUME NEW q \in Out, q.by = "handshake", ~q.forced
               PROVE  q.n = p.n /\ q.asked < p.asked
    BY <1>2 DEF Earlier
  <2>1. q.n = 0 /\ q.asked <= attr /\ q.asked # attr /\ q.asked \in Nat
    BY <1>1, OutFacts DEF Fresh
  <2> QED
    BY <2>1, <1>2, Numbers
<1>4. /\ InQueue(g)' = InQueue(g) \cup {p}
      /\ \A h \in Connections : h # g => queue'[h] = queue[h]
      /\ QueuesOrdered'
  <2>1. \A q \in InQueue(g) : Earlier(q, p)
    BY <1>3, OutFacts
  <2> QED
    BY <2>1, <1>2, PushEffect
<1>5. InQueue(attr)' = InQueue(attr) \cup {p}
  <2>1. InQueue(attr)' = InQueue(g)'
    BY <1>2 DEF InQueue
  <2> QED
    BY <2>1, <1>2, <1>4
<1>6. /\ \A h : SentOn(h)' = SentOn(h)
      /\ SentOn(attr)' = SentOn(attr) /\ InOrderOnce'
  BY DEF SentOn, Sent, InOrderOnce
<1>7. SentOn(attr) = {}
  <2>1. wire[attr] = <<>>
    BY <1>1 DEF Fresh
  <2> QED
    BY <2>1 DEF SentOn, Sent
<1>8. Stages'
  <2>1. SentOn(socket)' = {}
    <3>1. SentOn(socket)' = SentOn(attr)'
      BY DEF SentOn, Sent
    <3> QED
      BY <3>1, <1>6, <1>7
  <2>2. AllEarlier(Underway, InQueue(attr) \cup {p})
    BY <1>3, OutFacts DEF Stages, AllEarlier, Connections
  <2> QED
    BY <2>1, <2>2, <1>5 DEF Stages, AllEarlier
<1>9. Out' \subseteq Out \cup {p}
  <2>1. ASSUME NEW h \in Connections PROVE InQueue(h)' \subseteq Out \cup {p}
    <3>1. h # g => InQueue(h)' = InQueue(h)
      BY <1>4 DEF InQueue
    <3> QED
      BY <3>1, <1>4, OutFacts
  <2> QED
    BY <2>1, <1>6, OutFacts, OutAfter
<1>10. LastWritten' /\ Numbered'
  <2> DEFINE X == {p}
  <2>1. Out' \subseteq Out \cup X
    BY <1>9
  <2>2. count' \in Nat /\ count' >= count /\ attr' \in Nat /\ attr' >= attr
    BY Numbers
  <2>3. /\ X \in SUBSET Packets
        /\ \A q \in X : q.forced \/ (q.by \in {a, "handshake"} /\ q.n <= count')
    BY <2>2, <1>2
  <2>4. LastOf(a)' /\ LastWritten /\ Numbered
    BY <1>1 DEF LastOf, LastWritten
  <2>5. \A b \in Actors : b # a =>
           pc'[b] = pc[b] /\ item'[b] = item[b] /\ loaded'[b] = loaded[b]
    BY <1>1
  <2> HIDE DEF X
  <2> QED
    BY <2>1, <2>2, <2>3, <2>4, <2>5, Keeps
<1>11. \A h : NotMade(h)' => h > attr
  BY DEF NotMade
<1>12. Fresh'
  <2>1. \A h \in Connections : h > attr => queue'[h] = <<>>
    BY <1>2, <1>4, Numbers DEF Fresh
  <2>2. \A h \in Connections : h > attr => NotMade(h) /\ h # attr
    BY Numbers DEF NotMade
  <2>3. \A h \in Connections : NotMade(h)' => wire'[h] = <<>> /\ socket' # h
    BY <2>2, <1>11 DEF Fresh
  <2>4. ASSUME NEW q \in Out', q.by = "handshake", ~q.forced
        PROVE  q.n = 0 /\ q.asked <= attr' /\ ~NotMade(q.asked)'
    <3>1. q.n = 0 /\ q.asked <= attr /\ q.asked \in Nat
      BY <2>4, <1>2, <1>9, OutFacts, Numbers DEF Fresh
    <3> QED
      BY <3>1, <1>11, Numbers
  <2> QED
    BY <2>1, <2>3, <2>4 DEF Fresh
<1>13. Accounted'
  BY <1>5, <1>6 DEF Accounted
<1> QED
  BY <1>4, <1>6, <1>8, <1>10, <1>12, <1>13

\* ConnectQueue and ConnectHandshake keep the order.
LEMMA ConnectOrder ==
    ASSUME Inv, OrderInv, NEW a \in Actors, ConnectQueue(a) \/ ConnectHandshake(a)
    PROVE  OrderInv'
<1>1. PICK l \in {"c_open", "c_start"} :
          /\ pc' = [pc EXCEPT ![a] = l]
          /\ ConnectQueue(a) => l = "c_open"
          /\ ~ConnectQueue(a) => l = "c_start"
  BY DEF ConnectQueue, ConnectHandshake, Goto
<1>2. /\ pc[a] \notin Taking /\ l \notin Taking /\ l \in Labels \ {"append"}
      /\ UNCHANGED <<wire, item, loaded, count, appended, lost, reentry>>
  BY LabelFacts
  DEF ConnectQueue, ConnectHandshake, Free, Taking, Labels, held, history,
      nested
<1>3. Underway' = Underway /\ pc'[a] = l /\ \A b \in Actors : b # a => pc'[b] = pc[b]
  <2>1. pc'[a] = l /\ \A b \in Actors : b # a => pc'[b] = pc[b]
    BY <1>1, <1>2 DEF Inv, TypeOK
  <2> QED
    BY <2>1, <1>2, UnderwaySame
<1>4. CASE ConnectQueue(a)
  <2>1. attr' = attr + 1 /\ attr' \in Connections /\ UNCHANGED <<queue, socket>>
    BY <1>4, Numbers, BoundsAssumption DEF ConnectQueue, Connections
  <2>2. Overtaking' = Overtaking
    BY <1>2 DEF Overtaking
  <2> QED
    BY <2>1, <2>2, <1>1, <1>2, <1>3, OpenOrder
<1>5. CASE ~ConnectQueue(a)
  <2>1. /\ pc[a] = "c_open" /\ socket' = attr /\ UNCHANGED attr
        /\ queue' = [queue EXCEPT ![attr] = Append(@, Handshake(attr))]
    BY <1>5 DEF ConnectHandshake
  <2>2. lock = a /\ attr \in Connections
    BY <2>1, Numbers DEF Inv, LockOwner, Holding, Links, LinkOf
  <2>3. reentry = "none" /\ \A b \in Actors : b # a => pc[b] # "c_open"
    BY <2>1, <2>2 DEF Inv, LockOwner, Holding, Nesting, Listening, Early, Late
  <2>4. Opening /\ ~Opening'
    BY <2>1, <2>3, <1>1, <1>2, <1>3, <1>5 DEF Opening
  <2> QED
    BY <2>1, <2>2, <2>4, <1>1, <1>2, <1>3, <1>5, MadeOrder
<1> QED
  BY <1>4, <1>5

\* Where an actor is whose listeners do something.
LEMMA ListenPlace ==
    ASSUME Inv, NEW a \in Actors, Listens(a)
    PROVE  /\ pc[a] \in Labels \ {"append", "c_open"}
           /\ pc = [pc EXCEPT ![a] = pc[a]]
           /\ pc[a] \in Holding /\ attr \in Connections
           /\ \A b \in Actors : pc[b] # "c_open"
<1>1. pc[a] \in Labels \ {"append", "c_open"} /\ pc[a] \in Holding /\ lock = a
  BY LabelFacts DEF Listens, Listening, Early, Late
<1>2. \A b \in Actors : pc[b] # "c_open"
  BY <1>1 DEF Inv, LockOwner, Holding
<1> QED
  BY <1>1, <1>2, ListenFacts

\* What a listener does that neither queues nor takes a packet keeps the
\* order: with a flush to come, the packet in hand is overtaken.
LEMMA ListenerQuiet ==
    ASSUME Inv, OrderInv, NEW a \in Actors,
           \/ ListenerDisconnects(a) \/ ListenerCloses(a) \/ ListenerStarts(a)
           \/ ListenerFails(a) /\ reentry = "open"
    PROVE  OrderInv'
<1> DEFINE l == pc[a]
<1>1. /\ Listens(a) /\ pc' = pc /\ socket' \in {socket, 0}
      /\ UNCHANGED <<queue, attr, item, loaded, count, wire, appended, lost>>
      /\ reentry' # "open"
      /\ Overtaking' \/ ~Overtaking \/ socket' = 0
  <2>1. CASE ListenerDisconnects(a)
    BY <2>1 DEF ListenerDisconnects, Reenters, link, held, history, Overtaking
  <2>2. CASE ListenerCloses(a)
    BY <2>2 DEF ListenerCloses, held, history
  <2>3. CASE ListenerStarts(a)
    BY <2>3 DEF ListenerStarts, held, history, Overtaking
  <2>4. CASE ListenerFails(a) /\ reentry = "open"
    BY <2>4 DEF ListenerFails, held, Overtaking
  <2> QED
    BY <2>1, <2>2, <2>3, <2>4
<1>2. /\ l \in Labels \ {"append", "c_open"} /\ pc' = [pc EXCEPT ![a] = l]
      /\ Underway' = Underway
  BY <1>1, ListenPlace DEF Underway
<1> HIDE DEF l
<1> QED
  BY <1>1, <1>2, NoSendOrder

\* A packet that a listener's disconnect takes from the queue was written
\* after all that was sent.
LEMMA ListenerPops ==
    ASSUME Inv, OrderInv, NEW a \in Actors,
           \/ ListenerFlushes(a)
           \/ ListenerFails(a) /\ reentry # "open"
    PROVE  OrderInv'
<1> USE DEF OrderInv
<1> DEFINE l == pc[a]
<1>1. /\ Listens(a) /\ reentry = "flush" /\ reentry' \in {"flush", "raised"}
      /\ Pop
      /\ UNCHANGED <<pc, attr, socket, item, loaded, count, appended>>
      /\ \/ SendWhole(Oldest) /\ UNCHANGED lost
         \/ lost' = lost \cup {Oldest} /\ UNCHANGED wire
  <2>1. CASE ListenerFlushes(a)
    BY <2>1 DEF ListenerFlushes, link, held, nested
  <2>2. CASE ListenerFails(a) /\ reentry # "open"
    BY <2>2 DEF ListenerFails, held
  <2> QED
    BY <2>1, <2>2
<1>2. /\ l \in Labels \ {"append", "c_open"} /\ pc' = [pc EXCEPT ![a] = l]
      /\ l \in Holding /\ Underway' = Underway /\ Overtaking' /\ attr # 0
  BY <1>1, ListenPlace DEF Underway, Overtaking, Connections
<1>3. /\ \A g \in Connections : g # socket =>
            SentOn(g)' = SentOn(g) /\ wire'[g] = wire[g]
      /\ socket # 0 =>
            /\ SentOn(socket) \subseteq SentOn(socket)'
            /\ SentOn(socket)' \subseteq SentOn(socket) \cup {Oldest}
      /\ InOrderOnce' /\ lost \subseteq lost'
      /\ Oldest \in lost' \cup SentOn(socket)'
  <2>1. CASE SendWhole(Oldest) /\ UNCHANGED lost
    <3>1. socket # 0 /\ Oldest \in InQueue(attr)
      BY <2>1, <1>1, <1>2, PopEffect DEF SendWhole, CanSend
    <3>2. \A q \in SentOn(socket) : Earlier(q, Oldest)
      BY <3>1 DEF Stages, AllEarlier
    <3>3. /\ \A g \in Connections : g # socket => SentOn(g)' = SentOn(g)
          /\ SentOn(socket)' = SentOn(socket) \cup {Oldest}
          /\ \A g \in Connections : g # socket => wire'[g] = wire[g]
          /\ InOrderOnce'
      BY <2>1, <3>2, <1>1, SendEffect
    <3> QED
      BY <2>1, <3>3
  <2>2. CASE lost' = lost \cup {Oldest} /\ UNCHANGED wire
    <3>1. /\ \A g : SentOn(g)' = SentOn(g)
          /\ SentOn(socket)' = SentOn(socket) /\ InOrderOnce'
      BY <2>2, <1>1 DEF SentOn, Sent, InOrderOnce
    <3> QED
      BY <2>2, <3>1
  <2> QED
    BY <1>1, <2>1, <2>2
<1> HIDE DEF l
<1>4. pc[a] \in Holding /\ pc[a] # "c_open"
  BY <1>2 DEF l
<1> QED
  BY <1>1, <1>2, <1>3, <1>4, PopOrder

\* What a listener writes is the latest of its writer.
LEMMA ListenerWritesOrder ==
    ASSUME Inv, OrderInv, NEW a \in Actors, ListenerWrites(a)
    PROVE  OrderInv'
<1>1. /\ Listens(a) /\ pc[a] \in Listening /\ count < MaxPackets
      /\ count' = count + 1
      /\ UNCHANGED <<pc, attr, socket, item, loaded, lost, reentry>>
  BY DEF ListenerWrites, Reenters, Listens, link, held
<1>2. \A force \in BOOLEAN : NextPacket(a, force) \in Packets
  <2>1. count + 1 \in 0..MaxPackets /\ attr \in 0..MaxConnections
    BY <1>1, Numbers, BoundsAssumption
  <2> QED
    BY <2>1 DEF NextPacket, Packets
<1>3. CASE /\ queue' = [queue EXCEPT ![attr] = Append(@, NextPacket(a, FALSE))]
           /\ appended' = appended \cup {NextPacket(a, FALSE)}
           /\ UNCHANGED wire
  <2> DEFINE l == pc[a]
  <2>1. PICK p \in Packets, g \in Connections :
            /\ p = NextPacket(a, FALSE) /\ g = attr /\ p.asked = g
            /\ p.by = a /\ p.forced = FALSE /\ p.n = count + 1
    <3>1. attr \in Connections
      BY <1>1, ListenPlace
    <3> QED
      BY <3>1, <1>2 DEF NextPacket
  <2>2. \A q \in Out : Earlier(q, p)
    <3> SUFFICES ASSUME NEW q \in Out, ~q.forced PROVE q.n < p.n
      BY DEF Earlier
    <3>1. q.n <= count /\ q.n \in Nat /\ count \in Nat
      BY OutFacts, Numbers DEF OrderInv, Numbered
    <3>2. p.n = count + 1
      BY <2>1
    <3> QED
      BY <3>1, <3>2
  <2>3. /\ l \in Labels \ {"append", "c_open"} /\ pc' = [pc EXCEPT ![a] = l]
        /\ Underway' = Underway
    BY <1>1, ListenPlace DEF Underway
  <2>4. g <= attr /\ p.n <= count'
    <3>1. count' = count + 1 /\ p.n = count + 1 /\ g = attr
      BY <1>1, <2>1
    <3> QED
      BY <3>1, Numbers
  <2>5. queue' = [queue EXCEPT ![g] = Append(@, p)] /\ appended' = appended \cup {p}
    BY <1>3, <2>1
  <2> HIDE DEF l
  <2> QED
    BY <1>1, <1>3, <2>1, <2>2, <2>3, <2>4, <2>5, PushOrder
<1>4. CASE SendWhole(NextPacket(a, TRUE)) /\ UNCHANGED <<queue, appended>>
  <2> DEFINE p == NextPacket(a, TRUE)
             l == "idle"
  <2>1. p \in Packets /\ p.forced
    BY <1>2 DEF NextPacket
  <2>2. l \in Labels \ (Taking \cup {"append", "c_open"})
    BY DEF Labels, Taking
  <2> HIDE DEF p, l
  <2>3. SendWhole(p)
    BY <1>4 DEF p
  <2> QED
    BY <1>1, <1>4, <2>1, <2>2, <2>3, ForcedOrder
<1> QED
  BY <1>3, <1>4 DEF ListenerWrites

\* A connection that a listener makes keeps the order.
LEMMA ListenerConnectsOrder ==
    ASSUME Inv, OrderInv, NEW a \in Actors,
           ListenerConnects(a) \/ ListenerHandshakes(a)
    PROVE  OrderInv'
<1> DEFINE l == pc[a]
<1>1. /\ Listens(a)
      /\ UNCHANGED <<pc, wire, item, loaded, count, appended, lost>>
  BY DEF ListenerConnects, ListenerHandshakes, Reenters, held, history
<1>2. /\ l \in Labels \ {"append", "c_open"} /\ pc' = [pc EXCEPT ![a] = l]
      /\ Underway' = Underway /\ attr \in Connections
      /\ \A b \in Actors : pc[b] # "c_open"
  BY <1>1, ListenPlace DEF Underway
<1>3. CASE ListenerConnects(a)
  <2>1. attr' = attr + 1 /\ attr' \in Connections /\ UNCHANGED <<queue, socket>>
    BY <1>3, Numbers, BoundsAssumption DEF ListenerConnects, Connections
  <2>2. Overtaking' = Overtaking
    BY <1>3 DEF ListenerConnects, Reenters, Heard, Overtaking
  <2> HIDE DEF l
  <2> QED
    BY <2>1, <2>2, <1>1, <1>2, OpenOrder
<1>4. CASE ListenerHandshakes(a)
  <2>1. /\ socket' = attr /\ UNCHANGED attr
        /\ queue' = [queue EXCEPT ![attr] = Append(@, Handshake(attr))]
        /\ reentry = "open" /\ reentry' = "start"
    BY <1>4 DEF ListenerHandshakes
  <2>2. Opening /\ ~Opening'
    BY <2>1, <1>1, <1>2 DEF Opening
  <2> HIDE DEF l
  <2> QED
    BY <2>1, <2>2, <1>1, <1>2, MadeOrder
<1> QED
  BY <1>3, <1>4

\* Nothing is out of order when nothing moves.
LEMMA StillOrder ==
    ASSUME OrderInv,
           UNCHANGED <<pc, queue, attr, socket, wire, item, loaded, count,
                       appended, lost, reentry>>
    PROVE  OrderInv'
<1> USE DEF OrderInv
<1>1. /\ \A g : InQueue(g)' = InQueue(g) /\ SentOn(g)' = SentOn(g)
      /\ \A g : NotMade(g)' = NotMade(g)
      /\ Underway' = Underway
      /\ InQueue(attr)' = InQueue(attr) /\ SentOn(attr)' = SentOn(attr)
      /\ SentOn(socket)' = SentOn(socket) /\ NotMade(attr)' = NotMade(attr)
      /\ Opening' = Opening /\ Overtaking' = Overtaking
  BY DEF InQueue, SentOn, Sent, Underway, NotMade, Opening,
     Overtaking
<1>2. Out' = Out
  BY <1>1 DEF Out
<1>3. InOrderOnce' /\ QueuesOrdered' /\ Stages' /\ Numbered'
  BY <1>1, <1>2 DEF InOrderOnce, Sent, QueuesOrdered, Stages, Numbered
<1>4. LastWritten'
  BY <1>2 DEF LastWritten, LastOf
<1>5. Fresh' /\ Accounted'
  BY <1>1, <1>2 DEF Fresh, Accounted
<1> QED
  BY <1>3, <1>4, <1>5

\* Initially nothing is out.
LEMMA InitOrder == Init => OrderInv
<1> SUFFICES ASSUME Init PROVE OrderInv
  OBVIOUS
<1> USE BoundsAssumption DEF Init
<1>1. \A g \in Connections : queue[g] = <<>> /\ wire[g] = <<>>
  OBVIOUS
<1>2. \A g \in Connections : InQueue(g) = {} /\ SentOn(g) = {} /\ Sent(g) = {}
  BY <1>1 DEF InQueue, SentOn, Sent
<1>3. Underway = {}
  BY DEF Underway, Taking
<1>4. Out = {}
  BY <1>2, <1>3 DEF Out
<1>5. InOrderOnce
  BY <1>2 DEF InOrderOnce
<1>6. QueuesOrdered
  BY <1>1 DEF QueuesOrdered, Ordered
<1>7. Stages /\ Numbered
  BY <1>4 DEF Stages, Numbered
<1>8. LastWritten
  BY DEF LastWritten, LastOf
<1>9. Fresh
  BY <1>1, <1>4 DEF Fresh, NotMade, Opening, Connections
<1>10. Accounted
  BY DEF Accounted
<1> QED
  BY <1>5, <1>6, <1>7, <1>8, <1>9, <1>10 DEF OrderInv

\* Every step keeps the order.
LEMMA NextOrder == Inv /\ OrderInv /\ [Next]_vars => OrderInv'
<1> SUFFICES ASSUME Inv, OrderInv, [Next]_vars PROVE OrderInv'
  OBVIOUS
<1>1. ASSUME NEW a \in Actors, Call(a) PROVE OrderInv'
  BY <1>1, WritePacketOrder, ConnectOrder, QuietSteps, ListenerWritesOrder,
     ListenerQuiet, ListenerConnectsOrder
  DEF Call
<1>2. ASSUME NEW a \in Actors, ActorStep(a) PROVE OrderInv'
  BY <1>2, AppendPacketOrder, QuietSteps, LengthOrder, ForcedBodyOrder,
     ConnectOrder, TakeOrder, BodyOrder, DoneOrder, ListenerPops,
     ListenerQuiet, ListenerConnectsOrder
  DEF ActorStep
<1>3. ASSUME NetStep \/ NetRestArrives PROVE OrderInv'
  BY <1>3, ActorNames, NetQuietSteps, TakeOrder, LengthOrder, BodyOrder,
     DoneOrder
  DEF NetStep
<1>4. CASE PeerCloses
  BY <1>4, StillOrder DEF PeerCloses, link, held, history, nested
<1>5. CASE UNCHANGED vars
  BY <1>5, StillOrder DEF vars, link, held, history, nested
<1> QED
  BY <1>1, <1>2, <1>3, <1>4, <1>5 DEF Next

\* The order is kept in every reachable state.
THEOREM OrderIsKept == Spec => [](Inv /\ OrderInv)
<1>1. Init => Inv /\ OrderInv
  BY InitInv, InitOrder
<1>2. Inv /\ OrderInv /\ [Next]_vars => (Inv /\ OrderInv)'
  BY NextInv, NextOrder
<1> QED
  BY <1>1, <1>2, PTL DEF Spec

\* The unforced packets of one thread reach the socket in the order in which
\* it wrote them and none of them twice, whoever takes them from the queue
\* (339-352).
THEOREM OrderedDelivery == Spec => []InOrderOnce
<1>1. OrderInv => InOrderOnce
  BY DEF OrderInv
<1> QED
  BY <1>1, OrderIsKept, PTL

\* A step that closes the socket of a flushed connection is the last of its
\* disconnect(), and finds the queue empty.
LEMMA FlushEnds ==
    ASSUME Inv, NEW a \in Actors, pc[a] = "flush", [Next]_vars,
           socket # 0, socket' = 0
    PROVE  DisconnectClose(a) /\ queue[attr] = <<>>
<1>1. lock = a
  BY DEF Inv, LockOwner, Holding
<1>2. socket' # socket
  OBVIOUS
<1>3. ASSUME NEW b \in Actors, Call(b) \/ ActorStep(b)
      PROVE  DisconnectClose(b) /\ (b = a => queue[attr] = <<>>)
  <2>1. attr # 0
    BY DEF Inv, Links, TypeOK
  <2>2. ~ConnectHandshake(b)
    BY <2>1 DEF ConnectHandshake
  <2>3. ~ConnectFails(b)
    BY <1>1 DEF ConnectFails, Inv, LockOwner, Holding
  <2>4. ~Call(b)
    BY <1>2 DEF Call, WritePacket, ConnectQueue, Disconnect, ListenerWrites,
       ListenerDisconnects, ListenerConnects, link
  <2>5. ~Listens(b)
    BY <1>1 DEF Listens, Listening, Early, Late
  <2>6. DisconnectClose(b)
    BY <1>2, <1>3, <2>2, <2>3, <2>4, <2>5
    DEF ActorStep, AppendPacket, ForcedTake, ForcedLength, ForcedBody,
        ForcedDone, ForcedFails, ConnectStart, FlushTake, FlushLength,
        FlushBody, FlushDone, FlushFails, ListenerFlushes, ListenerCloses,
        ListenerHandshakes, ListenerStarts, ListenerFails, link
  <2> QED
    BY <2>6 DEF DisconnectClose
<1>4. ASSUME NEW b \in Actors, DisconnectClose(b) PROVE b = a
  BY <1>1, <1>4 DEF DisconnectClose, Inv, LockOwner, Holding
<1>5. ~NetStep /\ ~NetRestArrives
  <2>1. ~NetCleanup
    BY <1>1, ActorNames DEF NetCleanup
  <2> QED
    BY <1>2, <2>1
    DEF NetStep, NetStart, NetTop, NetTake, NetLength, NetBody, NetDone,
        NetWriteRaises, NetDrained, NetRead, NetStuck, NetStuckRaises,
        NetRestArrives, NetReacted, NetReadDone, NetFailed, NetCheck, link
<1>6. ~PeerCloses /\ ~UNCHANGED vars
  BY <1>2 DEF PeerCloses, vars, link
<1> QED
  BY <1>3, <1>4, <1>5, <1>6 DEF Next

\* A disconnect() that flushes and closes a connection leaves unsent nothing
\* that its caller had queued for it, but for what a listener or a failing
\* send cost (496-499).
THEOREM FlushDelivers == Spec => FlushedOnReturn
<1> DEFINE Done ==
      \A a \in Actors :
          pc[a] = "flush" /\ socket = attr /\ socket # 0 /\ socket' = 0
          => \A p \in appended : p.by = a /\ p.asked = socket =>
                \/ p \in lost
                \/ \E i \in Sent(socket) : wire[socket][i].packet = p
<1>1. Inv /\ OrderInv /\ [Next]_vars => Done
  <2> SUFFICES ASSUME Inv, OrderInv, [Next]_vars,
                      NEW a \in Actors, pc[a] = "flush", socket = attr,
                      socket # 0, socket' = 0,
                      NEW p \in appended, p.asked = socket
               PROVE  p \in lost \cup SentOn(socket)
    BY DEF SentOn
  <2>1. InQueue(attr) = {}
    BY FlushEnds DEF InQueue
  <2>2. Underway = {}
    <3>1. pc[a] \in Holding /\ pc[a] # "c_open" /\ pc[a] \notin Taking
      BY DEF Holding, Taking
    <3> QED
      BY <3>1, HolderFacts
  <2> QED
    BY <2>1, <2>2 DEF OrderInv, Accounted
<1>2. Done => [Done]_vars
  OBVIOUS
<1> QED
  BY <1>1, OrderIsKept, PTL DEF Spec, FlushedOnReturn
==============================================================================
