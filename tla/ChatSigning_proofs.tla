-------------------------- MODULE ChatSigning_proofs --------------------------
(***************************************************************************)
(* Proofs about ChatSigning, for any size of the ring buffer, any number of*)
(* pending messages that need no acknowledgement, any sets of threads that *)
(* chat, and any bounds.                                                   *)
(***************************************************************************)
EXTENDS ChatSigning, FiniteSetTheorems, WellFoundedInduction, TLAPS

Kinds == {"none", "session", "ack", "unsigned", "chat", "command"}

Packets ==
    [kind : Kinds, play : Nat, index : Nat, offset : Nat,
     bits : SUBSET (0..Capacity - 1), signatures : Seq(Nat)]

\* Where only the networking thread can be, and where a chat is written.
NetLabels == {"session", "session_append", "push_slot", "push_offset",
              "push_load", "push_store", "backlog", "ack_reset", "ack_append"}
ChatLabels == {"acknowledge", "index_load", "index_store", "offset", "reset",
               "append"}
Idle == {"free", "session", "session_append"}

Typed ==
    /\ TypeOK
    /\ packet \in [Actors -> Packets]
    /\ sent \in Seq(Packets)

\* Who can be where, with what packet, and that there is a tracker to use.
Placed ==
    \A a \in Actors :
        /\ pc[a] \in NetLabels => a = Net
        /\ pc[a] \in ChatLabels =>
              /\ a \in chatters
              /\ packet[a].kind \in {"chat", "command"}
              /\ packet[a].play = tracker[a]
        /\ pc[a] \in {"index_load", "index_store"} => packet[a].kind = "chat"
        /\ pc[a] \notin Idle => tracker[a] \in Plays

------------------------------------------------------------------------------
(* The networking thread writes all chat.                                   *)

\* A message of play state p that is received but not yet pending, or pending
\* messages that a packet under way acknowledges.
Uncounted(p) ==
    IF p # tracker[Net] THEN 0
    ELSE IF pc[Net] \in {"push_slot", "push_offset", "push_load", "push_store"}
    THEN 1
    ELSE IF pc[Net] = "ack_append" THEN loaded[Net]
    ELSE IF pc[Net] = "append" THEN packet[Net].offset
    ELSE 0

\* Every message received is pending or acknowledged.
Counted ==
    \A p \in Plays :
        seen[p] = pending[p] + Position(p, Len(sent)) + Uncounted(p)

\* What has been loaded is still the pending count.
Current ==
    /\ pc[Net] \in {"push_store", "ack_reset"} =>
           loaded[Net] = pending[tracker[Net]]
    /\ pc[Net] = "reset" => packet[Net].offset = pending[tracker[Net]]
    /\ pc[Net] \in {"ack_append", "append"} => pending[tracker[Net]] = 0

\* Only a message that is being dealt with exceeds the limit, by one.
Limited ==
    \A p \in Plays :
        \/ pending[p] <= AckLimit
        \/ /\ p = tracker[Net] /\ pc[Net] \in {"backlog", "ack_reset"}
           /\ pending[p] = AckLimit + 1

\* The k-th slot from the offset on has what it has after n messages.
SlotHas(p, k, n) ==
    slots[p][(offset[p] + k) % Capacity] =
        IF n + k + 1 > Capacity THEN n + k + 1 - Capacity ELSE 0

\* The ring buffer holds the last messages; a message goes to the place of
\* the oldest one, which becomes the place of the latest.
Ringed ==
    \A p \in Plays : \A k \in 0..Capacity - 1 :
        IF p = tracker[Net] /\ pc[Net] = "push_slot"
        THEN SlotHas(p, k, seen[p] - 1)
        ELSE IF p = tracker[Net] /\ pc[Net] = "push_offset"
        THEN IF k = 0 THEN slots[p][offset[p]] = seen[p]
             ELSE SlotHas(p, k, seen[p] - 1)
        ELSE SlotHas(p, k, seen[p])

\* What is listed of n messages once j slots have been looked at.
Listing(n, j) ==
    LET m == Least(n, Capacity) IN
    [k \in 1..(IF j > Capacity - m THEN j - (Capacity - m) ELSE 0) |-> n - m + k]

Marked(n, j) ==
    {b \in 0..Capacity - 1 : b < j /\ b >= Capacity - Least(n, Capacity)}

Listed ==
    pc[Net] \in ChatLabels =>
        LET n == seen[tracker[Net]]
            j == IF pc[Net] = "acknowledge" THEN i[Net] ELSE Capacity
        IN  /\ packet[Net].signatures = Listing(n, j)
            /\ packet[Net].bits = Marked(n, j)

------------------------------------------------------------------------------
(* One thread signs.                                                        *)

\* The packet that thread a signs has the next index, which it adds to the
\* session's when it stores it.
Numbered(a) ==
    LET n == Cardinality(Chats(Len(sent)))
        signed == /\ pc[a] \in {"offset", "reset", "append"}
                  /\ packet[a].kind = "chat"
    IN  /\ index = IF signed THEN n + 1 ELSE n
        /\ signed \/ pc[a] \in {"index_load", "index_store"} =>
               packet[a].index = n
        /\ pc[a] = "index_store" => loaded[a] = n

------------------------------------------------------------------------------
(* Sums.  A recursive function is what is chosen to satisfy its equation;   *)
(* that there is such a function, and what its values are, follows from     *)
(* looking at the least number for which it would not be so.                *)

\* A set of natural numbers that is not empty has a least one.
LEMMA LeastNumber ==
    ASSUME NEW S \in SUBSET Nat, S # {}
    PROVE  \E n \in S : \A m \in S : n <= m
<1> DEFINE R == StrictSubsetOrdering(Nat)
           T == {1..n : n \in S}
<1>1. \A n \in Nat : 1..n \in FiniteSubsetsOf(Nat)
  BY FS_Interval DEF FiniteSubsetsOf
<1>2. T \subseteq FiniteSubsetsOf(Nat) /\ T # {}
  BY <1>1
<1>3. IsWellFoundedOn(R, FiniteSubsetsOf(Nat))
  BY FS_StrictSubsetOrderingWellFounded
<1>4. \E x \in T : \A y \in T : ~(<<y, x>> \in R)
  <2> HIDE DEF R, T
  <2> QED
    BY <1>2, <1>3, WFMin
<1>5. PICK n \in S : \A m \in S : ~(<<1..m, 1..n>> \in R)
  BY <1>4
<1>6. ASSUME NEW m \in S, m < n PROVE FALSE
  <2>1. 1..m \subseteq 1..n /\ n \in 1..n /\ n \notin 1..m
    BY <1>6
  <2>2. <<1..m, 1..n>> \in R
    BY <2>1 DEF StrictSubsetOrdering
  <2> QED
    BY <1>5, <2>2
<1> QED
  BY <1>5, <1>6

\* Position, of any queue.
PositionIn(s, p, n) ==
    LET total[k \in 0..n] ==
            IF k = 0 THEN 0
            ELSE total[k - 1] + IF s[k].play = p THEN s[k].offset ELSE 0
    IN  total[n]

\* g holds the positions after the first 0, 1, ..., n packets of the queue.
Positions(s, p, n, g) ==
    g = [k \in 0..n |-> IF k = 0 THEN 0
                        ELSE g[k - 1] + IF s[k].play = p THEN s[k].offset ELSE 0]

\* There are such positions.
LEMMA PositionsExist ==
    ASSUME NEW s, NEW p
    PROVE  \A n \in Nat : \E g : Positions(s, p, n, g)
<1> DEFINE Bad == {n \in Nat : ~\E g : Positions(s, p, n, g)}
<1>1. SUFFICES ASSUME Bad # {} PROVE FALSE
  OBVIOUS
<1>2. PICK n \in Bad : \A m \in Bad : n <= m
  BY <1>1, LeastNumber
<1>3. n # 0
  <2>1. Positions(s, p, 0, [k \in 0..0 |-> 0])
    BY DEF Positions
  <2> QED
    BY <2>1
<1>4. PICK g : Positions(s, p, n - 1, g)
  BY <1>2, <1>3
<1> DEFINE Then(f, k) == IF k = 0 THEN 0
                         ELSE f[k - 1] + IF s[k].play = p THEN s[k].offset
                                         ELSE 0
           h == [k \in 0..n |-> Then(g, k)]
<1>5. \A k \in 0..n - 1 : g[k] = Then(g, k)
  BY <1>3, <1>4 DEF Positions
<1>6. \A k \in 0..n : Then(h, k) = Then(g, k)
  <2> TAKE k \in 0..n
  <2>1. CASE k = 0
    BY <2>1
  <2>2. CASE k # 0
    <3>1. k - 1 \in 0..n - 1 /\ k - 1 \in 0..n
      BY <2>2
    <3>2. h[k - 1] = g[k - 1]
      BY <3>1, <1>5
    <3> QED
      BY <2>2, <3>2
  <2> QED
    BY <2>1, <2>2
<1>7. h = [k \in 0..n |-> Then(h, k)]
  <2> HIDE DEF Then
  <2> QED
    BY <1>6
<1> QED
  BY <1>2, <1>7 DEF Positions

\* They are the same in two queues that begin with the same packets.
LEMMA PositionsAgree ==
    ASSUME NEW s, NEW t, NEW p, NEW n \in Nat, NEW m \in Nat, NEW g, NEW h,
           Positions(s, p, n, g), Positions(t, p, m, h),
           NEW l \in Nat, l <= n, l <= m, \A k \in 1..l : s[k] = t[k]
    PROVE  g[l] = h[l]
<1> DEFINE Bad == {k \in 0..l : g[k] # h[k]}
<1>1. SUFFICES ASSUME Bad # {} PROVE FALSE
  OBVIOUS
<1>2. PICK k \in Bad : \A j \in Bad : k <= j
  <2>1. Bad \in SUBSET Nat
    OBVIOUS
  <2> HIDE DEF Bad
  <2> QED
    BY <1>1, <2>1, LeastNumber
<1>3. k # 0
  BY DEF Positions
<1>4. g[k - 1] = h[k - 1] /\ s[k] = t[k] /\ k \in 0..n /\ k \in 0..m
  BY <1>2, <1>3
<1>5. /\ g[k] = g[k - 1] + IF s[k].play = p THEN s[k].offset ELSE 0
      /\ h[k] = h[k - 1] + IF t[k].play = p THEN t[k].offset ELSE 0
  BY <1>3, <1>4 DEF Positions
<1> QED
  BY <1>4, <1>5

\* PositionIn is the last of the positions.
LEMMA PositionChosen ==
    ASSUME NEW s, NEW p, NEW n \in Nat
    PROVE  \E g : Positions(s, p, n, g) /\ PositionIn(s, p, n) = g[n]
<1> DEFINE g == CHOOSE g : Positions(s, p, n, g)
<1>1. PositionIn(s, p, n) = g[n]
  BY Zenon DEF PositionIn, Positions
<1>2. Positions(s, p, n, g)
  BY Zenon, PositionsExist
<1> QED
  BY <1>1, <1>2

\* Before the first packet nothing is acknowledged.
LEMMA PositionZero ==
    ASSUME NEW s, NEW p
    PROVE  PositionIn(s, p, 0) = 0
BY PositionChosen DEF Positions

\* What Position is after one packet more.
LEMMA PositionStep ==
    ASSUME NEW s, NEW p, NEW n \in Nat
    PROVE  PositionIn(s, p, n + 1) =
               PositionIn(s, p, n) + IF s[n + 1].play = p
                                     THEN s[n + 1].offset ELSE 0
<1>1. PICK g : Positions(s, p, n, g) /\ PositionIn(s, p, n) = g[n]
  BY PositionChosen
<1>2. PICK h : Positions(s, p, n + 1, h) /\ PositionIn(s, p, n + 1) = h[n + 1]
  BY PositionChosen
<1>3. g[n] = h[n]
  BY <1>1, <1>2, PositionsAgree
<1>4. h[n + 1] = h[n] + IF s[n + 1].play = p THEN s[n + 1].offset ELSE 0
  BY <1>2 DEF Positions
<1> QED
  BY <1>1, <1>2, <1>3, <1>4

\* It does not depend on packets that come later in the queue.
LEMMA PositionSame ==
    ASSUME NEW s, NEW t, NEW p, NEW n \in Nat, \A k \in 1..n : s[k] = t[k]
    PROVE  PositionIn(s, p, n) = PositionIn(t, p, n)
<1>1. PICK g : Positions(s, p, n, g) /\ PositionIn(s, p, n) = g[n]
  BY PositionChosen
<1>2. PICK h : Positions(t, p, n, h) /\ PositionIn(t, p, n) = h[n]
  BY PositionChosen
<1> QED
  BY <1>1, <1>2, PositionsAgree

\* Positions are natural numbers.
LEMMA PositionNat ==
    ASSUME NEW s \in Seq(Packets), NEW p
    PROVE  \A n \in 0..Len(s) : PositionIn(s, p, n) \in Nat
<1> DEFINE Bad == {n \in 0..Len(s) : PositionIn(s, p, n) \notin Nat}
<1>1. SUFFICES ASSUME Bad # {} PROVE FALSE
  OBVIOUS
<1>2. PICK n \in Bad : \A m \in Bad : n <= m
  <2>1. Bad \in SUBSET Nat
    OBVIOUS
  <2> HIDE DEF Bad
  <2> QED
    BY <1>1, <2>1, LeastNumber
<1>3. n # 0
  BY PositionZero
<1>4. n - 1 \in Nat /\ PositionIn(s, p, n - 1) \in Nat /\ s[n].offset \in Nat
  <2>1. n - 1 \in 0..Len(s) /\ n \in 1..Len(s)
    BY <1>3
  <2>2. s[n] \in Packets
    BY <2>1
  <2>3. n - 1 \notin Bad
    BY <1>2
  <2> QED
    BY <2>1, <2>2, <2>3 DEF Packets
<1>5. PositionIn(s, p, (n - 1) + 1) =
          PositionIn(s, p, n - 1) + IF s[(n - 1) + 1].play = p
                                    THEN s[(n - 1) + 1].offset ELSE 0
  BY <1>4, PositionStep
<1> QED
  BY <1>2, <1>4, <1>5

\* The sum over a finite set, which is bounded by MaxSeen.
SumOver(f, S) == MapThenSumSet(LAMBDA x : f[x], S)

Some(S) == CHOOSE x \in S : TRUE

\* c holds the sums over the members of T, subsets of one set.
Sums(f, T, c) ==
    c = [U \in T |-> IF U = {} THEN 0 ELSE f[Some(U)] + c[U \ {Some(U)}]]

\* There are such sums.
LEMMA SumsExist ==
    ASSUME NEW S, IsFiniteSet(S), NEW f
    PROVE  \E c : Sums(f, SUBSET S, c)
<1> DEFINE Sized(n) == {U \in SUBSET S : Cardinality(U) <= n}
           Bad == {n \in Nat : ~\E c : Sums(f, Sized(n), c)}
<1>1. ASSUME Bad # {} PROVE FALSE
  <2>1. PICK n \in Bad : \A m \in Bad : n <= m
    BY <1>1, LeastNumber
  <2>2. \A U \in SUBSET S : IsFiniteSet(U) /\ Cardinality(U) \in Nat
    BY FS_Subset, FS_CardinalityType
  <2>3. n # 0
    <3>1. \A U \in Sized(0) : U = {}
      BY <2>2, FS_EmptySet
    <3>2. Sums(f, Sized(0), [U \in Sized(0) |-> 0])
      BY <3>1 DEF Sums
    <3> QED
      BY <3>2
  <2>4. PICK c : Sums(f, Sized(n - 1), c)
    <3> HIDE DEF Sized
    <3>1. n - 1 \in Nat /\ ~(n <= n - 1)
      BY <2>3
    <3>2. n - 1 \notin Bad
      BY <2>1, <3>1
    <3> QED
      BY <3>1, <3>2
  <2> DEFINE Then(d, U) == IF U = {} THEN 0 ELSE f[Some(U)] + d[U \ {Some(U)}]
             e == [U \in Sized(n) |-> Then(c, U)]
  <2>5. \A U \in Sized(n - 1) : c[U] = Then(c, U)
    BY <2>4, Zenon DEF Sums
  <2>6. \A U \in Sized(n) : Then(e, U) = Then(c, U)
    <3> TAKE U \in Sized(n)
    <3>1. CASE U = {}
      BY <3>1
    <3>2. CASE U # {}
      <4> DEFINE W == U \ {Some(U)}
      <4>1. Some(U) \in U
        BY <3>2 DEF Some
      <4>2. Cardinality(W) = Cardinality(U) - 1
        BY <2>2, <4>1, FS_RemoveElement
      <4>3. W \in Sized(n - 1) /\ W \in Sized(n)
        BY <2>2, <4>2
      <4>4. e[W] = c[W]
        BY <4>3, <2>5
      <4> QED
        BY <3>2, <4>4
    <3> QED
      BY <3>1, <3>2
  <2>7. e = [U \in Sized(n) |-> Then(e, U)]
    <3> HIDE DEF Then
    <3> QED
      BY <2>6
  <2> QED
    BY <2>1, <2>7 DEF Sums
<1>2. \E c : Sums(f, Sized(Cardinality(S)), c)
  <2>1. Cardinality(S) \in Nat
    BY FS_CardinalityType
  <2> QED
    BY <1>1, <2>1
<1>3. Sized(Cardinality(S)) = SUBSET S
  BY FS_Subset
<1> QED
  BY <1>2, <1>3

\* The sum is no less than any of the terms.
LEMMA TermsAreBelowSum ==
    ASSUME NEW S, IsFiniteSet(S), NEW f \in [S -> Nat]
    PROVE  SumOver(f, S) \in Nat /\ \A x \in S : f[x] <= SumOver(f, S)
<1> DEFINE c == CHOOSE c : Sums(f, SUBSET S, c)
           Fine(U) == c[U] \in Nat /\ \A x \in U : f[x] <= c[U]
           Bad == {U \in FiniteSubsetsOf(S) : ~Fine(U)}
<1>1. Sums(f, SUBSET S, c)
  BY Zenon, SumsExist
<1>2. SumOver(f, S) = c[S]
  BY Zenon DEF SumOver, Sums, MapThenSumSet, MapThenFoldSet, Some
<1> HIDE DEF c
<1>3. ASSUME Bad # {} PROVE FALSE
  <2>1. PICK U \in Bad : \A V \in Bad : <<V, U>> \notin StrictSubsetOrdering(S)
    BY <1>3, WFMin, FS_StrictSubsetOrderingWellFounded
  <2>2. U \in SUBSET S /\ IsFiniteSet(U)
    BY DEF FiniteSubsetsOf
  <2>3. CASE U = {}
    <3>1. c[U] = 0
      BY <1>1, <2>2, <2>3, Zenon DEF Sums
    <3> QED
      BY <2>3, <3>1
  <2>4. CASE U # {}
    <3> DEFINE x == Some(U)
               V == U \ {x}
    <3>1. x \in U
      BY <2>4 DEF Some
    <3>2. c[U] = f[x] + c[V]
      BY <1>1, <2>2, <2>4, Zenon DEF Sums
    <3> HIDE DEF x
    <3>3. V \in FiniteSubsetsOf(S) /\ <<V, U>> \in StrictSubsetOrdering(S)
      BY <2>2, <3>1, FS_Subset DEF FiniteSubsetsOf, StrictSubsetOrdering
    <3>4. Fine(V)
      BY <2>1, <3>3
    <3>5. f[x] \in Nat /\ \A y \in V : f[y] \in Nat
      BY <2>2, <3>1
    <3>6. c[V] \in Nat /\ c[U] \in Nat /\ c[V] <= c[U] /\ f[x] <= c[U]
      BY <3>2, <3>4, <3>5
    <3>7. ASSUME NEW y \in V PROVE f[y] <= c[U]
      <4>1. f[y] <= c[V]
        BY <3>4
      <4> QED
        BY <3>5, <3>6, <4>1
    <3> QED
      BY <3>6, <3>7
  <2> QED
    BY <2>3, <2>4
<1>4. S \in FiniteSubsetsOf(S)
  BY DEF FiniteSubsetsOf
<1>5. Fine(S)
  BY <1>3, <1>4
<1> QED
  BY <1>2, <1>5

------------------------------------------------------------------------------
(* The types.                                                               *)

\* A packet that nothing has been filled into.
LEMMA BlankTyped ==
    \A kind \in Kinds : Blank(kind) \in Packets
BY DEF Blank, Packets

\* Zero is within the bounds.
LEMMA ZeroFacts ==
    /\ 0 \in 0..MaxPlays /\ 0 \in 0..Capacity - 1
    /\ 0 \in 0..MaxSeen /\ 0 \in 0..Capacity
BY BoundsAssumption

\* Initially the variables have their types.
LEMMA InitTyped == Init => Typed /\ Placed
<1> SUFFICES ASSUME Init PROVE Typed /\ Placed
  OBVIOUS
<1>1. NewTracker \in [0..Capacity - 1 -> 0..MaxSeen]
  BY BoundsAssumption DEF NewTracker
<1>3. TypeOK
  BY <1>1, ZeroFacts DEF Init, TypeOK, Labels
<1>4. packet \in [Actors -> Packets] /\ sent \in Seq(Packets)
  BY BlankTyped DEF Init, Kinds
<1>5. Placed
  BY DEF Init, Placed, NetLabels, ChatLabels, Idle
<1> QED
  BY <1>3, <1>4, <1>5 DEF Typed

\* The networking thread is an actor, and so are those that chat.
LEMMA ActorFacts ==
    ASSUME Typed
    PROVE  Net \in Actors /\ chatters \subseteq Actors
BY DEF Typed, TypeOK, Actors

\* What the networking thread's own variables are.
LEMMA NetFacts ==
    ASSUME TypeOK
    PROVE  /\ Net \in Actors /\ pc[Net] \in Labels
           /\ tracker[Net] \in Nat /\ loaded[Net] \in Nat
           /\ seen \in [Plays -> Nat] /\ IsFiniteSet(Plays)
           /\ \A p \in Plays :
                 /\ p \in Nat
                 /\ pending[p] \in Nat /\ seen[p] \in 0..MaxSeen
                 /\ offset[p] \in 0..Capacity - 1
<1>1. Net \in Actors
  BY DEF Actors
<1>2. tracker[Net] \in 0..MaxPlays /\ loaded[Net] \in Nat /\ pc[Net] \in Labels
  BY <1>1 DEF TypeOK
<1>3. 0..MaxPlays \subseteq Nat /\ 0..MaxSeen \subseteq Nat
  OBVIOUS
<1>4. seen \in [Plays -> Nat]
  BY <1>3 DEF TypeOK
<1>5. IsFiniteSet(Plays)
  BY BoundsAssumption, FS_Interval DEF Plays
<1>6. ASSUME NEW p \in Plays
      PROVE  /\ p \in Nat
             /\ pending[p] \in Nat /\ seen[p] \in 0..MaxSeen
             /\ offset[p] \in 0..Capacity - 1
  BY DEF TypeOK, Plays
<1> QED
  BY <1>1, <1>2, <1>3, <1>4, <1>5, <1>6

\* Every step of the networking thread preserves the types.
LEMMA NetTyped ==
    ASSUME Typed, Placed, NetStep
    PROVE  Typed' /\ Placed'
<1> USE DEF Typed
<1>0. TypeOK /\ Net \in Actors /\ chatters \subseteq Actors
  BY ActorFacts
<1> USE <1>0
<1>1. \A a \in Actors : pc[a] \notin NetLabels \cup {"free"} => a \in chatters
  BY DEF Placed, TypeOK, Labels, NetLabels, ChatLabels
<1>2. CASE JoinGame
  <2>1. TypeOK'
    <3>1. play' \in 0..MaxPlays
      BY <1>2, BoundsAssumption DEF JoinGame, TypeOK
    <3>2. pc' \in [Actors -> Labels]
      BY <1>2 DEF JoinGame, Goto, TypeOK, Labels
    <3> QED
      BY <1>2, <3>1, <3>2 DEF JoinGame, TypeOK, environment, trackers,
         numbering, locals
  <2>2. Placed'
    BY <1>2 DEF JoinGame, Goto, TypeOK, Placed, environment, trackers,
       numbering, locals, NetLabels, ChatLabels, Idle
  <2> QED
    BY <1>2, <2>1, <2>2 DEF JoinGame, locals
<1>3. CASE StartSession
  <2>1. TypeOK'
    BY <1>3 DEF StartSession, Goto, TypeOK, Labels, environment, trackers,
       numbering, locals
  <2>2. Placed'
    BY <1>3 DEF StartSession, Goto, TypeOK, Placed, environment, trackers,
       numbering, locals, NetLabels, ChatLabels, Idle
  <2> QED
    BY <1>3, <2>1, <2>2 DEF StartSession, locals
<1>4. CASE AnnounceSession
  <2>1. TypeOK'
    BY <1>4 DEF AnnounceSession, Goto, TypeOK, Labels, environment, trackers,
       numbering, locals
  <2>2. Placed'
    BY <1>4 DEF AnnounceSession, Goto, TypeOK, Placed, environment, trackers,
       numbering, locals, NetLabels, ChatLabels, Idle
  <2>3. Blank("session") \in Packets
    BY BlankTyped DEF Kinds
  <2> QED
    BY <1>4, <2>1, <2>2, <2>3 DEF AnnounceSession, Queue, locals
<1>5. CASE PlayerChat
  <2>1. seen[play] < MaxSeen /\ play \in Plays
    <3>1. SumOver(seen, Plays) < MaxSeen /\ play \in Plays
      <4>1. SumOver(seen, Plays) < MaxSeen
        BY <1>5, Zenon DEF PlayerChat, SumOver
      <4>2. play \in Plays
        BY <1>5, BoundsAssumption DEF PlayerChat, TypeOK, Plays
      <4> QED
        BY <4>1, <4>2
    <3>2. IsFiniteSet(Plays) /\ seen \in [Plays -> Nat]
      BY NetFacts
    <3>3. seen[play] \in Nat /\ SumOver(seen, Plays) \in Nat
          /\ seen[play] <= SumOver(seen, Plays)
      BY <3>1, <3>2, TermsAreBelowSum
    <3> QED
      BY <3>1, <3>3, BoundsAssumption
  <2>2. TypeOK'
    <3>1. seen[play] + 1 \in 0..MaxSeen
      BY <2>1, BoundsAssumption, NetFacts
    <3> QED
      BY <1>5, <2>1, <3>1 DEF PlayerChat, Goto, TypeOK, Labels, environment,
         trackers, numbering
  <2>3. Placed'
    BY <1>5, <2>1 DEF PlayerChat, Goto, TypeOK, Placed, environment, NetLabels,
       ChatLabels, Idle
  <2> QED
    BY <1>5, <2>2, <2>3 DEF PlayerChat
<1>6. CASE PushSlot
  <2>1. tracker[Net] \in Plays
    BY <1>6 DEF PushSlot, Placed, Idle
  <2>2. TypeOK'
    BY <1>6, <2>1 DEF PushSlot, Goto, TypeOK, Labels, environment, trackers,
       numbering, locals
  <2>3. Placed'
    BY <1>6, <2>1 DEF PushSlot, Goto, TypeOK, Placed, environment, locals,
       NetLabels, ChatLabels, Idle
  <2> QED
    BY <1>6, <2>2, <2>3 DEF PushSlot, locals
<1>7. CASE PushOffset
  <2>1. tracker[Net] \in Plays
    BY <1>7 DEF PushOffset, Placed, Idle
  <2>2. TypeOK'
    <3>1. (offset[tracker[Net]] + 1) % Capacity \in 0..Capacity - 1
      BY <2>1, BoundsAssumption, NetFacts
    <3> QED
      BY <1>7, <2>1, <3>1 DEF PushOffset, Goto, TypeOK, Labels, environment,
         trackers, numbering, locals
  <2>3. Placed'
    BY <1>7, <2>1 DEF PushOffset, Goto, TypeOK, Placed, environment, locals,
       NetLabels, ChatLabels, Idle
  <2> QED
    BY <1>7, <2>2, <2>3 DEF PushOffset, locals
<1>8. CASE PushLoad
  <2>1. tracker[Net] \in Plays
    BY <1>8 DEF PushLoad, Placed, Idle
  <2>2. TypeOK'
    BY <1>8, <2>1 DEF PushLoad, Load, Goto, TypeOK, Labels, environment,
       trackers, numbering
  <2>3. Placed'
    BY <1>8, <2>1 DEF PushLoad, Goto, TypeOK, Placed, environment,
       NetLabels, ChatLabels, Idle
  <2> QED
    BY <1>8, <2>2, <2>3 DEF PushLoad
<1>9. CASE PushStore
  <2>1. tracker[Net] \in Plays
    BY <1>9 DEF PushStore, Placed, Idle
  <2>2. TypeOK'
    <3>1. loaded[Net] + 1 \in Nat
      BY NetFacts
    <3> QED
      BY <1>9, <2>1, <3>1 DEF PushStore, Goto, TypeOK, Labels, environment,
         trackers, numbering, locals
  <2>3. Placed'
    BY <1>9, <2>1 DEF PushStore, Goto, TypeOK, Placed, environment, locals,
       NetLabels, ChatLabels, Idle
  <2> QED
    BY <1>9, <2>2, <2>3 DEF PushStore, locals
<1>10. CASE Backlog
  <2>1. tracker[Net] \in Plays /\ Blank("none") \in Packets
    BY <1>10, BlankTyped DEF Backlog, Placed, Idle, Kinds
  <2>2. CASE pending[tracker[Net]] > AckLimit
    <3>1. TypeOK'
      BY <1>10, <2>1, <2>2 DEF Backlog, Load, Goto, TypeOK, Labels,
         environment, trackers, numbering
    <3>2. Placed'
      BY <1>10, <2>1, <2>2 DEF Backlog, Goto, TypeOK, Placed, environment,
         NetLabels, ChatLabels, Idle
    <3> QED
      BY <1>10, <2>2, <3>1, <3>2 DEF Backlog
  <2>3. CASE ~(pending[tracker[Net]] > AckLimit)
    <3>1. Done(Net)
          /\ UNCHANGED <<environment, play, trackers, numbering, seen, sent>>
      BY <1>10, <2>3 DEF Backlog
    <3>2. TypeOK'
      BY <3>1, ZeroFacts DEF Done, Goto, TypeOK, Labels, environment, trackers,
         numbering
    <3>3. Placed'
      BY <3>1 DEF Done, Goto, TypeOK, Placed, environment, NetLabels,
         ChatLabels, Idle
    <3> QED
      BY <2>1, <3>1, <3>2, <3>3 DEF Done
  <2> QED
    BY <2>2, <2>3
<1>11. CASE AckReset
  <2>1. tracker[Net] \in Plays
    BY <1>11 DEF AckReset, Placed, Idle
  <2>2. TypeOK'
    BY <1>11, <2>1 DEF AckReset, Goto, TypeOK, Labels, environment, trackers,
       numbering, locals
  <2>3. Placed'
    BY <1>11, <2>1 DEF AckReset, Goto, TypeOK, Placed, environment, locals,
       NetLabels, ChatLabels, Idle
  <2> QED
    BY <1>11, <2>2, <2>3 DEF AckReset, locals
<1>12. CASE AckAppend
  <2>1. Blank("none") \in Packets
    BY BlankTyped DEF Kinds
  <2>2. TypeOK'
    BY <1>12, ZeroFacts DEF AckAppend, Done, Goto, TypeOK, Labels, environment,
       trackers, numbering
  <2>3. Placed'
    BY <1>12 DEF AckAppend, Done, Goto, TypeOK, Placed, environment,
       NetLabels, ChatLabels, Idle
  <2>4. [Blank("ack") EXCEPT !.play = tracker[Net], !.offset = loaded[Net]]
            \in Packets
    <3>1. tracker[Net] \in Nat /\ loaded[Net] \in Nat
      BY NetFacts
    <3> QED
      BY <3>1, BlankTyped DEF Packets, Kinds
  <2> QED
    BY <1>12, <2>1, <2>2, <2>3, <2>4 DEF AckAppend, Done, Queue
<1> QED
  BY <1>2, <1>3, <1>4, <1>5, <1>6, <1>7, <1>8, <1>9, <1>10, <1>11, <1>12
  DEF NetStep

\* Every step of a thread that chats, or of the environment, preserves the
\* types.
LEMMA ChatTyped ==
    ASSUME Typed, Placed, NEW a \in Actors, ChatStep(a)
    PROVE  Typed' /\ Placed'
<1> USE DEF Typed
<1>1. /\ Net \in Actors /\ chatters \subseteq Actors
      /\ i[a] \in 0..Capacity /\ loaded[a] \in Nat /\ index \in Nat
      /\ tracker[a] \in 0..MaxPlays /\ packet[a] \in Packets
      /\ pc[a] \in Labels /\ Capacity \in Nat /\ MaxPlays \in Nat
  BY ActorFacts, BoundsAssumption DEF TypeOK
<1>2. Blank("none") \in Packets /\ Blank("unsigned") \in Packets
      /\ Blank("chat") \in Packets /\ Blank("command") \in Packets
  BY BlankTyped DEF Kinds
<1>3. pc[a] \in ChatLabels => tracker[a] \in Plays
  BY DEF Placed, ChatLabels, Idle
<1>4. ASSUME NEW kind \in {"chat", "command"}, Writes(a), Begin(a, kind),
             UNCHANGED <<environment, play, trackers, numbering, loaded, seen,
                         sent>>
      PROVE  Typed' /\ Placed'
  <2>1. play \in Plays /\ play \in Nat /\ a \in chatters
    BY <1>4, BoundsAssumption DEF Writes, Plays, TypeOK
  <2>2. [Blank(kind) EXCEPT !.play = play] \in Packets
        /\ [Blank(kind) EXCEPT !.play = play].kind = kind
        /\ [Blank(kind) EXCEPT !.play = play].play = play
    BY <1>2, <2>1 DEF Packets, Blank
  <2>3. TypeOK'
    BY <1>4, ZeroFacts DEF Begin, Goto, TypeOK, Labels, environment, trackers,
       numbering
  <2>4. Placed'
    BY <1>4, <2>1, <2>2 DEF Begin, Goto, TypeOK, Placed, environment,
       NetLabels, ChatLabels, Idle
  <2> QED
    BY <1>4, <2>2, <2>3, <2>4 DEF Begin
<1>5. CASE SignChat(a)
  BY <1>4, <1>5 DEF SignChat
<1>6. CASE PrepareCommand(a)
  BY <1>4, <1>6 DEF PrepareCommand
<1>7. CASE UnsignedChat(a)
  <2>1. TypeOK'
    BY <1>7 DEF UnsignedChat, TypeOK, environment, trackers, numbering, locals
  <2>2. Placed'
    BY <1>7 DEF UnsignedChat, Placed, environment, locals
  <2> QED
    BY <1>2, <1>7, <2>1, <2>2 DEF UnsignedChat, Queue, locals
<1>8. CASE AcknowledgeSlot(a)
  <2>1. i[a] < Capacity /\ pc[a] = "acknowledge" /\ a \in Actors
    BY <1>8 DEF AcknowledgeSlot
  <2>2. PICK g : g = slots[tracker[a]][(offset[tracker[a]] + i[a]) % Capacity]
    OBVIOUS
  <2>3. g \in Nat
    <3>1. tracker[a] \in Plays
      BY <2>1, <1>3 DEF ChatLabels
    <3>2. (offset[tracker[a]] + i[a]) % Capacity \in 0..Capacity - 1
      BY <1>1, <3>1, NetFacts, BoundsAssumption
    <3>3. g \in 0..MaxSeen
      BY <2>2, <3>1, <3>2 DEF TypeOK
    <3> QED
      BY <3>3
  <2>4. i[a] + 1 \in 0..Capacity /\ i[a] \in 0..Capacity - 1
    BY <1>1, <2>1
  <2> DEFINE q == packet[a]
             r == [q EXCEPT !.bits = IF g = 0 THEN @ ELSE @ \cup {i[a]},
                            !.signatures = IF g = 0 THEN @ ELSE Append(@, g)]
  <2>5. r \in Packets /\ r.kind = q.kind /\ r.play = q.play
    <3>1. q.bits \cup {i[a]} \in SUBSET (0..Capacity - 1)
          /\ Append(q.signatures, g) \in Seq(Nat)
      BY <1>1, <2>3, <2>4 DEF Packets
    <3> QED
      BY <1>1, <3>1 DEF Packets
  <2>6. /\ packet' = [packet EXCEPT ![a] = r]
        /\ i' = [i EXCEPT ![a] = i[a] + 1]
        /\ UNCHANGED <<environment, play, trackers, numbering, pc, tracker,
                       loaded, seen, sent>>
    BY <1>8, <2>2 DEF AcknowledgeSlot
  <2>7. TypeOK'
    BY <2>4, <2>6 DEF TypeOK, environment, trackers, numbering
  <2>8. Placed'
    <3> HIDE DEF r
    <3>1. packet'[a] = r /\ \A b \in Actors : b # a => packet'[b] = packet[b]
      BY <2>6
    <3> QED
      BY <2>5, <2>6, <3>1 DEF Placed, environment
  <2> HIDE DEF r
  <2> QED
    BY <2>5, <2>6, <2>7, <2>8
<1>9. CASE Sign(a)
  <2>1. TypeOK'
    BY <1>9 DEF Sign, Goto, TypeOK, Labels, environment, trackers, numbering
  <2>2. [packet[a] EXCEPT !.index = index] \in Packets
        /\ [packet[a] EXCEPT !.index = index].kind = packet[a].kind
        /\ [packet[a] EXCEPT !.index = index].play = packet[a].play
    BY <1>1 DEF Packets
  <2>3. CASE packet[a].kind = "chat"
    <3>1. Placed'
      BY <1>9, <2>2, <2>3 DEF Sign, Goto, TypeOK, Placed, environment,
         NetLabels, ChatLabels, Idle
    <3>2. packet' = [packet EXCEPT ![a] = [packet[a] EXCEPT !.index = index]]
      BY <1>9, <2>3 DEF Sign
    <3> QED
      BY <1>9, <2>1, <2>2, <3>1, <3>2 DEF Sign
  <2>4. CASE packet[a].kind # "chat"
    <3>1. Placed'
      BY <1>9, <2>4 DEF Sign, Goto, TypeOK, Placed, environment,
         NetLabels, ChatLabels, Idle
    <3> QED
      BY <1>9, <2>1, <2>4, <3>1 DEF Sign
  <2> QED
    BY <2>3, <2>4
<1>10. CASE IndexLoad(a)
  <2>1. TypeOK'
    BY <1>10 DEF IndexLoad, Load, Goto, TypeOK, Labels, environment, trackers,
       numbering
  <2>2. Placed'
    BY <1>10 DEF IndexLoad, Goto, TypeOK, Placed, environment, NetLabels,
       ChatLabels, Idle
  <2> QED
    BY <1>10, <2>1, <2>2 DEF IndexLoad
<1>11. CASE IndexStore(a)
  <2>1. loaded[a] + 1 \in Nat
    BY <1>1
  <2>2. TypeOK'
    BY <1>11, <2>1 DEF IndexStore, Goto, TypeOK, Labels, environment, trackers,
       locals
  <2>3. Placed'
    BY <1>11 DEF IndexStore, Goto, TypeOK, Placed, environment, locals,
       NetLabels, ChatLabels, Idle
  <2> QED
    BY <1>11, <2>2, <2>3 DEF IndexStore, locals
<1>12. CASE Offset(a)
  <2>1. TypeOK'
    BY <1>12 DEF Offset, Goto, TypeOK, Labels, environment, trackers, numbering
  <2>2. pending[tracker[a]] \in Nat
    BY <1>3, <1>12, NetFacts DEF Offset, ChatLabels
  <2> DEFINE r == [packet[a] EXCEPT !.offset = pending[tracker[a]]]
  <2>3. r \in Packets /\ r.kind = packet[a].kind /\ r.play = packet[a].play
    BY <1>1, <2>2 DEF Packets
  <2>4. packet' = [packet EXCEPT ![a] = r]
    BY <1>12 DEF Offset
  <2> HIDE DEF r
  <2>5. Placed'
    BY <1>12, <2>3, <2>4 DEF Offset, Goto, TypeOK, Placed, environment,
       NetLabels, ChatLabels, Idle
  <2> QED
    BY <1>12, <2>1, <2>3, <2>4, <2>5 DEF Offset
<1>13. CASE Reset(a)
  <2>1. TypeOK'
    BY <1>13 DEF Reset, Goto, TypeOK, Labels, environment, numbering, locals
  <2>2. Placed'
    BY <1>13 DEF Reset, Goto, TypeOK, Placed, environment, locals, NetLabels,
       ChatLabels, Idle
  <2> QED
    BY <1>13, <2>1, <2>2 DEF Reset, locals
<1>14. CASE AppendChat(a)
  <2>1. TypeOK'
    BY <1>14, ZeroFacts DEF AppendChat, Done, Goto, TypeOK, Labels, environment,
       trackers, numbering
  <2>2. Placed'
    BY <1>14 DEF AppendChat, Done, Goto, TypeOK, Placed, environment, NetLabels,
       ChatLabels, Idle
  <2> QED
    BY <1>1, <1>2, <1>14, <2>1, <2>2 DEF AppendChat, Done, Queue
<1> QED
  BY <1>5, <1>6, <1>7, <1>8, <1>9, <1>10, <1>11, <1>12, <1>13, <1>14
  DEF ChatStep

\* Every step preserves the types.
LEMMA NextTyped == Typed /\ Placed /\ [Next]_vars => Typed' /\ Placed'
<1> SUFFICES ASSUME Typed, Placed, [Next]_vars PROVE Typed' /\ Placed'
  OBVIOUS
<1>1. CASE KeyExpires
  BY <1>1 DEF KeyExpires, Typed, TypeOK, Placed, trackers, numbering, locals
<1>2. CASE UNCHANGED vars
  BY <1>2 DEF vars, environment, Typed, TypeOK, Placed, trackers, numbering,
     locals
<1> QED
  BY <1>1, <1>2, NetTyped, ChatTyped DEF Next

------------------------------------------------------------------------------
(* The indexes.                                                             *)

\* Chats, of any queue.
ChatsIn(s, n) == {j \in 1..n : s[j].kind = "chat"}

\* The queue t is s with packet q appended.
Appended(s, q, t) ==
    /\ Len(s) \in Nat /\ Len(t) = Len(s) + 1
    /\ t[Len(s) + 1] = q
    /\ \A k \in 1..Len(s) : s[k] = t[k]

\* That is what Queue does.
LEMMA QueueAppends ==
    ASSUME Typed, NEW q \in Packets, sent' = Append(sent, q)
    PROVE  sent \in Seq(Packets) /\ Appended(sent, q, sent')
BY DEF Typed, Appended

\* Another packet changes none of the packets before, and is counted if it is
\* a chat message.
LEMMA ChatsAppended ==
    ASSUME NEW s \in Seq(Packets), NEW q \in Packets, NEW t, Appended(s, q, t)
    PROVE  /\ \A k \in 0..Len(s) : ChatsIn(t, k) = ChatsIn(s, k)
           /\ Cardinality(ChatsIn(s, Len(s))) \in Nat
           /\ Cardinality(ChatsIn(t, Len(t))) =
                  IF q.kind = "chat" THEN Cardinality(ChatsIn(s, Len(s))) + 1
                  ELSE Cardinality(ChatsIn(s, Len(s)))
<1> DEFINE n == Len(s)
           S == ChatsIn(s, n)
<1>1. /\ Len(t) = n + 1 /\ n \in Nat
      /\ t[n + 1] = q /\ \A k \in 1..n : t[k] = s[k]
  BY DEF Appended
<1>2. \A k \in 0..n : ChatsIn(t, k) = ChatsIn(s, k)
  BY <1>1 DEF ChatsIn
<1>3. ChatsIn(t, n + 1) = IF q.kind = "chat" THEN S \cup {n + 1} ELSE S
  BY <1>1 DEF ChatsIn
<1>4. IsFiniteSet(S) /\ n + 1 \notin S
  <2>1. IsFiniteSet(1..n) /\ S \subseteq 1..n /\ n + 1 \notin 1..n
    BY <1>1, FS_Interval DEF ChatsIn
  <2> QED
    BY <2>1, FS_Subset
<1>5. Cardinality(S) \in Nat /\ Cardinality(S \cup {n + 1}) = Cardinality(S) + 1
  BY <1>4, FS_CardinalityType, FS_AddElement
<1> HIDE DEF S
<1>6. Cardinality(ChatsIn(t, n + 1)) =
          IF q.kind = "chat" THEN Cardinality(S) + 1 ELSE Cardinality(S)
  BY <1>3, <1>5
<1> QED
  BY <1>1, <1>2, <1>5, <1>6 DEF S

\* Where the index of a packet does not matter.
Unsigned == Labels \ {"index_load", "index_store", "offset", "reset", "append"}

\* The packets of the queue have the indexes of their places.
Consecutive(s) ==
    \A k \in ChatsIn(s, Len(s)) : s[k].index = Cardinality(ChatsIn(s, k - 1))

\* A packet that is no signed message keeps the indexes consecutive, and one
\* that is does so with the number of those before it.
LEMMA ConsecutiveAppended ==
    ASSUME NEW s \in Seq(Packets), NEW q \in Packets, Consecutive(s),
           q.kind = "chat" => q.index = Cardinality(ChatsIn(s, Len(s))),
           NEW t, Appended(s, q, t)
    PROVE  Consecutive(t)
<1>1. /\ Len(t) = Len(s) + 1 /\ Len(s) \in Nat
      /\ t[Len(s) + 1] = q /\ \A k \in 1..Len(s) : t[k] = s[k]
      /\ \A k \in 0..Len(s) : ChatsIn(t, k) = ChatsIn(s, k)
  BY ChatsAppended DEF Appended
<1> SUFFICES ASSUME NEW k \in ChatsIn(t, Len(t))
             PROVE  t[k].index = Cardinality(ChatsIn(t, k - 1))
  BY DEF Consecutive
<1>2. k \in 1..Len(s) + 1 /\ t[k].kind = "chat"
  BY <1>1 DEF ChatsIn
<1>3. CASE k = Len(s) + 1
  <2>1. k - 1 = Len(s) /\ Len(s) \in 0..Len(s)
    BY <1>1, <1>3
  <2> QED
    BY <1>1, <1>2, <1>3, <2>1
<1>4. CASE k # Len(s) + 1
  <2>1. k \in 1..Len(s) /\ k - 1 \in 0..Len(s)
    BY <1>1, <1>2, <1>4
  <2>2. k \in ChatsIn(s, Len(s))
    BY <1>1, <1>2, <2>1 DEF ChatsIn
  <2> QED
    BY <1>1, <2>1, <2>2 DEF Consecutive
<1> QED
  BY <1>3, <1>4

\* What is numbered of the one thread that signs.
Numbers(c) == Numbered(c) /\ Consecutive(sent)

\* A step that has nothing to do with indexes keeps them.
LEMMA NumbersKept ==
    ASSUME Typed, NEW c \in Actors, Numbers(c), UNCHANGED <<index, sent>>,
           \/ pc[c] \in Unsigned /\ pc'[c] \in Unsigned
           \/ UNCHANGED <<pc[c], packet[c], loaded[c]>>
    PROVE  Numbers(c)'
BY DEF Numbers, Numbered, Consecutive, Unsigned, Chats

\* Nor does the announcement of a session or an acknowledgement.
LEMMA NumbersKeptByPacket ==
    ASSUME Typed, NEW c \in Actors, Numbers(c), UNCHANGED index,
           NEW q \in Packets, q.kind # "chat", sent' = Append(sent, q),
           \/ pc[c] \in Unsigned /\ pc'[c] \in Unsigned
           \/ UNCHANGED <<pc[c], packet[c], loaded[c]>>
    PROVE  Numbers(c)'
<1>1. sent \in Seq(Packets) /\ Appended(sent, q, sent')
  BY QueueAppends
<1>2. Cardinality(ChatsIn(sent', Len(sent'))) =
          Cardinality(ChatsIn(sent, Len(sent)))
  BY <1>1, ChatsAppended
<1>3. Consecutive(sent')
  BY <1>1, ConsecutiveAppended DEF Numbers
<1>4. Numbered(c)'
  BY <1>2 DEF Numbers, Numbered, Unsigned, Chats, ChatsIn
<1> QED
  BY <1>3, <1>4 DEF Numbers

\* The networking thread adds no signed message.
LEMMA NetNumbers ==
    ASSUME Typed, Placed, NEW c \in Actors, Numbers(c), NetStep
    PROVE  Numbers(c)'
<1>1. pc \in [Actors -> Labels] /\ Net \in Actors
  BY ActorFacts DEF Typed, TypeOK
<1>2. Blank("session") \in Packets /\ Blank("session").kind # "chat"
  BY BlankTyped DEF Kinds, Blank
<1>3. [Blank("ack") EXCEPT !.play = tracker[Net], !.offset = loaded[Net]]
          \in Packets
      /\ [Blank("ack") EXCEPT !.play = tracker[Net],
                              !.offset = loaded[Net]].kind # "chat"
  BY BlankTyped, NetFacts DEF Kinds, Blank, Packets, Typed
<1>4. \/ pc[c] \in Unsigned /\ pc'[c] \in Unsigned
      \/ UNCHANGED <<pc[c], packet[c], loaded[c]>>
  BY <1>1
  DEF NetStep, JoinGame, StartSession, AnnounceSession, PlayerChat, PushSlot,
      PushOffset, PushLoad, PushStore, Backlog, AckReset, AckAppend, Done, Goto,
      Load, locals, Unsigned, Labels, Typed, TypeOK
<1>5. index' = index
  BY DEF NetStep, JoinGame, StartSession, AnnounceSession, PlayerChat, PushSlot,
      PushOffset, PushLoad, PushStore, Backlog, AckReset, AckAppend, numbering
<1>6. \/ sent' = sent
      \/ sent' = Append(sent, Blank("session"))
      \/ sent' = Append(sent, [Blank("ack") EXCEPT !.play = tracker[Net],
                                                   !.offset = loaded[Net]])
  BY DEF NetStep, JoinGame, StartSession, AnnounceSession, PlayerChat, PushSlot,
      PushOffset, PushLoad, PushStore, Backlog, AckReset, AckAppend, Queue
<1> QED
  BY <1>2, <1>3, <1>4, <1>5, <1>6, NumbersKept, NumbersKeptByPacket

\* The thread that signs gives its packet the next index.
LEMMA ChatNumbers ==
    ASSUME Typed, Placed, NEW a \in Actors, chatters = {a}, Numbers(a),
           ChatStep(a)
    PROVE  Numbers(a)'
<1>1. /\ pc[a] \in Labels /\ packet[a] \in Packets /\ index \in Nat
      /\ sent \in Seq(Packets) /\ loaded[a] \in Nat
  BY DEF Typed, TypeOK
<1> USE <1>1
<1>2. CASE SignChat(a) \/ PrepareCommand(a) \/ AcknowledgeSlot(a)
  BY <1>2, NumbersKept
  DEF SignChat, PrepareCommand, AcknowledgeSlot, Writes, Begin, Goto, numbering,
      Unsigned, Labels, Typed, TypeOK
<1>3. CASE UnsignedChat(a)
  BY <1>3, NumbersKeptByPacket, BlankTyped
  DEF UnsignedChat, Queue, numbering, locals, Blank, Kinds
<1>4. CASE Sign(a)
  BY <1>4 DEF Sign, Goto, numbering, Numbers, Numbered, Chats, Consecutive,
     Typed, TypeOK, Packets
<1>5. CASE IndexLoad(a)
  BY <1>5 DEF IndexLoad, Load, Goto, numbering, Numbers, Numbered, Chats,
     Consecutive, Typed, TypeOK
<1>6. CASE IndexStore(a)
  BY <1>6 DEF IndexStore, Goto, locals, Numbers, Numbered, Chats,
     Consecutive, Typed, TypeOK, Placed
<1>7. CASE Offset(a)
  BY <1>7 DEF Offset, Goto, numbering, Numbers, Numbered, Chats,
     Consecutive, Typed, TypeOK, Packets
<1>8. CASE Reset(a)
  BY <1>8 DEF Reset, Goto, numbering, locals, Numbers, Numbered, Chats,
     Consecutive, Typed, TypeOK
<1>9. CASE AppendChat(a)
  <2>1. /\ Appended(sent, packet[a], sent')
        /\ index' = index /\ pc'[a] = "free"
    BY <1>9, QueueAppends
    DEF AppendChat, Queue, Done, Goto, numbering, Typed, TypeOK
  <2>2. packet[a].kind = "chat" =>
            packet[a].index = Cardinality(ChatsIn(sent, Len(sent)))
    BY <1>9 DEF AppendChat, Numbers, Numbered, Chats, ChatsIn
  <2>3. Consecutive(sent')
    BY <2>1, <2>2, ConsecutiveAppended DEF Numbers
  <2>4. Cardinality(ChatsIn(sent', Len(sent'))) =
            IF packet[a].kind = "chat"
            THEN Cardinality(ChatsIn(sent, Len(sent))) + 1
            ELSE Cardinality(ChatsIn(sent, Len(sent)))
    BY <2>1, ChatsAppended
  <2>5. Numbered(a)'
    BY <1>9, <2>1, <2>4 DEF AppendChat, Numbers, Numbered, Chats, ChatsIn
  <2> QED
    BY <2>3, <2>5 DEF Numbers
<1> QED
  BY <1>2, <1>3, <1>4, <1>5, <1>6, <1>7, <1>8, <1>9 DEF ChatStep

\* Nobody else chats.
LEMMA OnlyChattersChat ==
    ASSUME Typed, Placed, NEW a \in Actors, ChatStep(a)
    PROVE  a \in chatters /\ chatters' = chatters
BY DEF Placed, ChatLabels, ChatStep, SignChat, UnsignedChat, PrepareCommand,
   AcknowledgeSlot, Sign, IndexLoad, IndexStore, Offset, Reset, AppendChat,
   Writes, environment

\* The networking thread does not change who chats.
LEMMA NetKeepsChatters ==
    ASSUME NetStep
    PROVE  chatters' = chatters
BY DEF NetStep, JoinGame, StartSession, AnnounceSession, PlayerChat, PushSlot,
   PushOffset, PushLoad, PushStore, Backlog, AckReset, AckAppend, environment

\* Every step keeps the indexes of the one thread that signs.
LEMMA NextNumbers ==
    ASSUME Typed, Placed, [Next]_vars, NEW c \in Actors,
           chatters = {c} => Numbers(c)
    PROVE  (chatters = {c} => Numbers(c))'
<1>1. CASE NetStep
  BY <1>1, NetNumbers, NetKeepsChatters
<1>2. CASE KeyExpires
  BY <1>2, NumbersKept DEF KeyExpires, numbering, locals
<1>3. CASE UNCHANGED vars
  BY <1>3, NumbersKept DEF vars, numbering, locals, environment
<1>4. ASSUME NEW a \in Actors, ChatStep(a)
      PROVE  (chatters = {c} => Numbers(c))'
  BY <1>4, ChatNumbers, OnlyChattersChat
<1> QED
  BY <1>1, <1>2, <1>3, <1>4 DEF Next

------------------------------------------------------------------------------
(* The counts.                                                              *)

\* Position is PositionIn of the queue, before and after a step.
LEMMA PositionIsIn ==
    ASSUME NEW p, NEW n
    PROVE  /\ Position(p, n) = PositionIn(sent, p, n)
           /\ Position(p, n)' = PositionIn(sent', p, n)
BY Zenon DEF Position, PositionIn

\* A packet adds what it acknowledges.
LEMMA PositionInAppended ==
    ASSUME NEW s \in Seq(Packets), NEW q \in Packets,
           NEW t, Appended(s, q, t), NEW p
    PROVE  /\ PositionIn(s, p, Len(s)) \in Nat
           /\ PositionIn(t, p, Len(t)) =
                  IF q.play = p THEN PositionIn(s, p, Len(s)) + q.offset
                  ELSE PositionIn(s, p, Len(s))
<1> DEFINE n == Len(s)
<1>1. /\ n \in Nat /\ Len(t) = n + 1
      /\ t[n + 1] = q /\ \A k \in 1..n : s[k] = t[k]
  BY DEF Appended
<1>2. PositionIn(s, p, n) \in Nat
  BY <1>1, PositionNat
<1>3. ASSUME NEW k \in 0..n
      PROVE  PositionIn(t, p, k) = PositionIn(s, p, k)
  <2>1. k \in Nat /\ \A j \in 1..k : s[j] = t[j]
    BY <1>1
  <2> QED
    BY <2>1, PositionSame
<1>4. PositionIn(t, p, n + 1) =
          PositionIn(t, p, n) + IF q.play = p THEN q.offset ELSE 0
  <2>1. PositionIn(t, p, n + 1) =
            PositionIn(t, p, n) + IF t[n + 1].play = p THEN t[n + 1].offset
                                  ELSE 0
    BY <1>1, PositionStep
  <2> QED
    BY <1>1, <2>1
<1>5. PositionIn(t, p, n) = PositionIn(s, p, n)
  BY <1>1, <1>3
<1>6. PositionIn(t, p, n + 1) =
          IF q.play = p THEN PositionIn(s, p, n) + q.offset
          ELSE PositionIn(s, p, n)
  BY <1>2, <1>4, <1>5
<1> QED
  BY <1>1, <1>2, <1>3, <1>6

\* How many messages of play state p the server has been told of.
Acknowledged(p) == Position(p, Len(sent))

\* That is a number, and changes with the queue only.
LEMMA AcknowledgedFacts ==
    ASSUME Typed, NEW p
    PROVE  /\ Acknowledged(p) \in Nat
           /\ sent' = sent => Acknowledged(p)' = Acknowledged(p)
           /\ \A q \in Packets :
                 sent' = Append(sent, q) =>
                     Acknowledged(p)' =
                         IF q.play = p THEN Acknowledged(p) + q.offset
                         ELSE Acknowledged(p)
<1>1. Acknowledged(p) \in Nat
  BY PositionNat, PositionIsIn DEF Typed, Acknowledged
<1>2. sent' = sent => Acknowledged(p)' = Acknowledged(p)
  BY PositionIsIn DEF Acknowledged
<1>3. ASSUME NEW q \in Packets, sent' = Append(sent, q)
      PROVE  Acknowledged(p)' = IF q.play = p THEN Acknowledged(p) + q.offset
                                ELSE Acknowledged(p)
  <2>1. sent \in Seq(Packets) /\ Appended(sent, q, sent')
    BY <1>3, QueueAppends
  <2>2. PositionIn(sent', p, Len(sent')) =
            IF q.play = p THEN PositionIn(sent, p, Len(sent)) + q.offset
            ELSE PositionIn(sent, p, Len(sent))
    BY <2>1, PositionInAppended
  <2> QED
    BY <2>2, PositionIsIn DEF Acknowledged
<1> QED
  BY <1>1, <1>2, <1>3

Tallied == Counted /\ Current /\ Limited

\* The two counts of the messages.
Tally(p) == seen[p] = pending[p] + Acknowledged(p) + Uncounted(p)

\* Initially nothing was received.
LEMMA InitTallied == Init => Tallied
<1> SUFFICES ASSUME Init PROVE Tallied
  OBVIOUS
<1>1. \A p : Position(p, Len(sent)) = 0
  BY PositionIsIn, PositionZero DEF Init
<1>2. Net \in Actors /\ pc[Net] = "free" /\ tracker[Net] = 0
  BY DEF Actors, Init
<1> QED
  BY <1>1, <1>2, BoundsAssumption
  DEF Tallied, Counted, Current, Limited, Uncounted, Init, Plays

\* A step that leaves the queue and the counts alone, in which the networking
\* thread stays where nothing is counted.
LEMMA TallyKept ==
    ASSUME Typed, Tallied, UNCHANGED <<pending, seen, sent>>,
           pc[Net] \in Idle \cup {"acknowledge", "index_load", "index_store"},
           pc'[Net] \in Idle \cup {"acknowledge", "index_load", "index_store",
                                   "offset"}
    PROVE  Tallied'
<1>1. \A p \in Plays : Uncounted(p) = 0 /\ Uncounted(p)' = 0
  BY DEF Uncounted, Idle
<1>2. \A p \in Plays : Acknowledged(p) = Acknowledged(p)'
  BY AcknowledgedFacts
<1>3. Counted'
  BY <1>1, <1>2 DEF Tallied, Counted, Acknowledged
<1>4. Current'
  BY DEF Current, Idle
<1>5. Limited'
  BY DEF Tallied, Limited, Idle
<1> QED
  BY <1>3, <1>4, <1>5 DEF Tallied

\* The networking thread counts what it receives and acknowledges.
LEMMA NetTallied ==
    ASSUME Typed, Placed, Tallied, NetStep
    PROVE  Tallied'
<1> DEFINE t == tracker[Net]
<1>1. /\ pc \in [Actors -> Labels] /\ Net \in Actors
      /\ tracker \in [Actors -> 0..MaxPlays] /\ loaded \in [Actors -> Nat]
      /\ pending \in [Plays -> Nat] /\ seen \in [Plays -> 0..MaxSeen]
      /\ seen \in [Plays -> Nat] /\ AckLimit \in Nat
      /\ packet \in [Actors -> Packets]
  BY ActorFacts, NetFacts, BoundsAssumption DEF Typed, TypeOK
<1>2. \A p \in Plays : Acknowledged(p) \in Nat
      /\ (sent' = sent => Acknowledged(p)' = Acknowledged(p))
  BY AcknowledgedFacts
<1>3. pc[Net] \notin Idle => t \in Plays
  BY <1>1 DEF Placed
<1>4. Counted /\ Current /\ Limited
  BY DEF Tallied
<1>5. CASE JoinGame \/ StartSession
  BY <1>1, <1>5, TallyKept
  DEF JoinGame, StartSession, Goto, trackers, Idle
<1>6. CASE AnnounceSession
  <2>1. Blank("session") \in Packets /\ Blank("session").play \notin Plays
    BY BlankTyped DEF Kinds, Blank, Plays
  <2>2. \A p \in Plays : Acknowledged(p)' = Acknowledged(p)
    BY <1>6, <2>1, AcknowledgedFacts DEF AnnounceSession, Queue
  <2> QED
    BY <1>1, <1>4, <1>6, <2>2
    DEF AnnounceSession, Goto, trackers, Tallied, Counted, Current, Limited,
        Uncounted, Acknowledged
<1>7. CASE PlayerChat
  <2>1. play \in Plays
    BY <1>7, BoundsAssumption DEF PlayerChat, Plays, Typed, TypeOK
  <2>2. \A p \in Plays : Acknowledged(p)' = Acknowledged(p)
    BY <1>2, <1>7 DEF PlayerChat
  <2>3. /\ pc[Net] = "free" /\ pc'[Net] = "push_slot" /\ tracker'[Net] = play
        /\ pending' = pending /\ seen' = [seen EXCEPT ![play] = @ + 1]
    BY <1>1, <1>7 DEF PlayerChat, Goto, trackers
  <2>4. \A p \in Plays : Uncounted(p) = 0
           /\ Uncounted(p)' = IF p = play THEN 1 ELSE 0
    BY <2>3 DEF Uncounted
  <2>5. Counted'
    BY <1>1, <1>2, <1>4, <2>1, <2>2, <2>3, <2>4 DEF Counted, Acknowledged
  <2>6. Current' /\ Limited'
    BY <1>4, <2>3 DEF Current, Limited
  <2> QED
    BY <2>5, <2>6 DEF Tallied
<1>8. CASE PushSlot \/ PushOffset
  <2>1. \A p \in Plays : Acknowledged(p)' = Acknowledged(p)
    BY <1>2, <1>8 DEF PushSlot, PushOffset
  <2> QED
    BY <1>1, <1>4, <1>8, <2>1
    DEF PushSlot, PushOffset, Goto, locals, Tallied, Counted, Current, Limited,
        Uncounted, Acknowledged
<1>9. CASE PushLoad
  <2>1. \A p \in Plays : Acknowledged(p)' = Acknowledged(p)
    BY <1>2, <1>9 DEF PushLoad
  <2> QED
    BY <1>1, <1>4, <1>9, <2>1
    DEF PushLoad, Load, Goto, trackers, Tallied, Counted, Current, Limited,
        Uncounted, Acknowledged
<1>10. CASE PushStore
  <2>1. \A p \in Plays : Acknowledged(p)' = Acknowledged(p)
    BY <1>2, <1>10 DEF PushStore
  <2>2. t \in Plays /\ loaded[Net] = pending[t]
    BY <1>3, <1>4, <1>10 DEF PushStore, Idle, Current
  <2>3. /\ pc[Net] = "push_store" /\ pc'[Net] = "backlog"
        /\ pending' = [pending EXCEPT ![t] = pending[t] + 1]
        /\ UNCHANGED <<seen, tracker, loaded, packet>>
    BY <1>1, <1>10, <2>2 DEF PushStore, Goto, locals
  <2>4. \A p \in Plays : Uncounted(p)' = 0
           /\ Uncounted(p) = IF p = t THEN 1 ELSE 0
    BY <2>3 DEF Uncounted
  <2>5. ASSUME NEW p \in Plays PROVE Tally(p)'
    <3>1. /\ seen'[p] = seen[p] /\ Acknowledged(p)' = Acknowledged(p)
          /\ pending'[p] = IF p = t THEN pending[p] + 1 ELSE pending[p]
      BY <1>1, <2>1, <2>2, <2>3
    <3>2. pending[p] \in Nat /\ Acknowledged(p) \in Nat
      BY <1>1, <1>2
    <3> QED
      BY <1>4, <2>4, <3>1, <3>2 DEF Tally, Counted, Acknowledged
  <2>6. Current' /\ Limited'
    BY <1>1, <1>4, <2>2, <2>3 DEF Current, Limited
  <2> QED
    BY <2>5, <2>6 DEF Tallied, Tally, Counted, Acknowledged
<1>11. CASE Backlog
  <2>1. \A p \in Plays : Acknowledged(p)' = Acknowledged(p)
    BY <1>2, <1>11 DEF Backlog
  <2>2. t \in Plays
    BY <1>3, <1>11 DEF Backlog, Idle
  <2> QED
    BY <1>1, <1>2, <1>4, <1>11, <2>1, <2>2
    DEF Backlog, Load, Done, Goto, trackers, Tallied, Counted, Current, Limited,
        Uncounted, Acknowledged
<1>12. CASE AckReset
  <2>1. \A p \in Plays : Acknowledged(p)' = Acknowledged(p)
    BY <1>2, <1>12 DEF AckReset
  <2>2. t \in Plays /\ loaded[Net] = pending[t]
    BY <1>3, <1>4, <1>12 DEF AckReset, Idle, Current
  <2>3. /\ pc[Net] = "ack_reset" /\ pc'[Net] = "ack_append"
        /\ pending' = [pending EXCEPT ![t] = 0]
        /\ UNCHANGED <<seen, tracker, loaded, packet>>
    BY <1>1, <1>12, <2>2 DEF AckReset, Goto, locals
  <2>4. \A p \in Plays : Uncounted(p) = 0
           /\ Uncounted(p)' = IF p = t THEN pending[p] ELSE 0
    BY <2>2, <2>3 DEF Uncounted
  <2>5. Counted'
    BY <1>1, <1>2, <1>4, <2>1, <2>2, <2>3, <2>4 DEF Counted, Acknowledged
  <2>6. Current' /\ Limited'
    BY <1>1, <1>4, <2>2, <2>3 DEF Current, Limited
  <2> QED
    BY <2>5, <2>6 DEF Tallied
<1>13. CASE AckAppend
  <2> DEFINE q == [Blank("ack") EXCEPT !.play = t, !.offset = loaded[Net]]
  <2>1. q \in Packets /\ q.play = t /\ q.offset = loaded[Net]
    BY BlankTyped, NetFacts DEF Kinds, Blank, Packets, Typed
  <2>2. t \in Plays
    BY <1>3, <1>13 DEF AckAppend, Idle
  <2>3. sent' = Append(sent, q)
    BY <1>13 DEF AckAppend, Queue
  <2>4. \A p \in Plays :
           Acknowledged(p)' = IF t = p THEN Acknowledged(p) + loaded[Net]
                              ELSE Acknowledged(p)
    BY <2>1, <2>3, AcknowledgedFacts
  <2>5. /\ pc[Net] = "ack_append" /\ pc'[Net] = "free"
        /\ UNCHANGED <<pending, seen>>
    BY <1>1, <1>13 DEF AckAppend, Done, Goto, trackers
  <2>6. \A p \in Plays : Uncounted(p)' = 0
           /\ Uncounted(p) = IF p = t THEN loaded[Net] ELSE 0
    BY <2>5 DEF Uncounted
  <2>7. ASSUME NEW p \in Plays PROVE Tally(p)'
    <3>1. loaded[Net] \in Nat /\ pending[p] \in Nat /\ Acknowledged(p) \in Nat
      BY <1>1, <1>2
    <3> QED
      BY <1>4, <2>4, <2>5, <2>6, <3>1 DEF Tally, Counted, Acknowledged
  <2>8. Current' /\ Limited'
    BY <1>4, <2>5 DEF Current, Limited
  <2> QED
    BY <2>7, <2>8 DEF Tallied, Tally, Counted, Acknowledged
<1> QED
  BY <1>5, <1>6, <1>7, <1>8, <1>9, <1>10, <1>11, <1>12, <1>13 DEF NetStep

\* So does its chat.
LEMMA ChatTallied ==
    ASSUME Typed, Placed, Tallied, ChatStep(Net)
    PROVE  Tallied'
<1> DEFINE t == tracker[Net]
<1>1. /\ pc \in [Actors -> Labels] /\ Net \in Actors
      /\ tracker \in [Actors -> 0..MaxPlays] /\ loaded \in [Actors -> Nat]
      /\ pending \in [Plays -> Nat] /\ seen \in [Plays -> Nat]
      /\ AckLimit \in Nat /\ packet \in [Actors -> Packets]
  BY ActorFacts, NetFacts, BoundsAssumption DEF Typed, TypeOK
<1>2. \A p \in Plays : Acknowledged(p) \in Nat
      /\ (sent' = sent => Acknowledged(p)' = Acknowledged(p))
  BY AcknowledgedFacts
<1>3. pc[Net] \notin Idle => t \in Plays
  BY <1>1 DEF Placed
<1>4. Counted /\ Current /\ Limited
  BY DEF Tallied
<1>5. CASE SignChat(Net) \/ PrepareCommand(Net)
  BY <1>1, <1>5, TallyKept
  DEF SignChat, PrepareCommand, Writes, Begin, Goto, trackers, Idle
<1>6. CASE AcknowledgeSlot(Net)
  BY <1>1, <1>6, TallyKept DEF AcknowledgeSlot, trackers
<1>7. CASE Sign(Net)
  BY <1>1, <1>7, TallyKept DEF Sign, Goto, trackers
<1>8. CASE IndexLoad(Net)
  BY <1>1, <1>8, TallyKept DEF IndexLoad, Goto, trackers
<1>9. CASE IndexStore(Net)
  BY <1>1, <1>9, TallyKept DEF IndexStore, Goto, trackers
<1>10. CASE UnsignedChat(Net)
  <2>1. Blank("unsigned") \in Packets /\ Blank("unsigned").play \notin Plays
    BY BlankTyped DEF Kinds, Blank, Plays
  <2>2. \A p \in Plays : Acknowledged(p)' = Acknowledged(p)
    BY <1>10, <2>1, AcknowledgedFacts DEF UnsignedChat, Queue
  <2> QED
    BY <1>1, <1>4, <1>10, <2>2
    DEF UnsignedChat, trackers, locals, Tallied, Counted, Current, Limited,
        Uncounted, Acknowledged
<1>11. CASE Offset(Net)
  <2>1. \A p \in Plays : Acknowledged(p)' = Acknowledged(p)
    BY <1>2, <1>11 DEF Offset
  <2>2. t \in Plays /\ packet'[Net].offset = pending[t]
    BY <1>1, <1>3, <1>11 DEF Offset, Idle, Packets
  <2> QED
    BY <1>1, <1>4, <1>11, <2>1, <2>2
    DEF Offset, Goto, trackers, Tallied, Counted, Current, Limited,
        Uncounted, Acknowledged
<1>12. CASE Reset(Net)
  <2>1. \A p \in Plays : Acknowledged(p)' = Acknowledged(p)
    BY <1>2, <1>12 DEF Reset
  <2>2. t \in Plays /\ packet[Net].offset = pending[t]
    BY <1>3, <1>4, <1>12 DEF Reset, Idle, Current
  <2>3. /\ pc[Net] = "reset" /\ pc'[Net] = "append"
        /\ pending' = [pending EXCEPT ![t] = 0]
        /\ UNCHANGED <<seen, tracker, loaded, packet>>
    BY <1>1, <1>12, <2>2 DEF Reset, Goto, locals
  <2>4. \A p \in Plays : Uncounted(p) = 0
           /\ Uncounted(p)' = IF p = t THEN pending[p] ELSE 0
    BY <2>2, <2>3 DEF Uncounted
  <2>5. Counted'
    BY <1>1, <1>2, <1>4, <2>1, <2>2, <2>3, <2>4 DEF Counted, Acknowledged
  <2>6. Current' /\ Limited'
    BY <1>1, <1>4, <2>2, <2>3 DEF Current, Limited
  <2> QED
    BY <2>5, <2>6 DEF Tallied
<1>13. CASE AppendChat(Net)
  <2>1. /\ packet[Net] \in Packets /\ packet[Net].offset \in Nat
        /\ packet[Net].play = t /\ t \in Plays
    BY <1>1, <1>3, <1>13 DEF AppendChat, Placed, ChatLabels, Idle, Packets
  <2>2. \A p \in Plays :
           Acknowledged(p)' =
               IF t = p THEN Acknowledged(p) + packet[Net].offset
               ELSE Acknowledged(p)
    BY <1>13, <2>1, AcknowledgedFacts DEF AppendChat, Queue
  <2>3. /\ pc[Net] = "append" /\ pc'[Net] = "free"
        /\ UNCHANGED <<pending, seen>>
    BY <1>1, <1>13 DEF AppendChat, Done, Goto, trackers
  <2>4. \A p \in Plays : Uncounted(p)' = 0
           /\ Uncounted(p) = IF p = t THEN packet[Net].offset ELSE 0
    BY <2>3 DEF Uncounted
  <2>5. ASSUME NEW p \in Plays PROVE Tally(p)'
    <3>1. pending[p] \in Nat /\ Acknowledged(p) \in Nat
      BY <1>1, <1>2
    <3> QED
      BY <1>4, <2>1, <2>2, <2>3, <2>4, <3>1 DEF Tally, Counted, Acknowledged
  <2>6. Current' /\ Limited'
    BY <1>4, <2>3 DEF Current, Limited
  <2> QED
    BY <2>5, <2>6 DEF Tallied, Tally, Counted, Acknowledged
<1> QED
  BY <1>5, <1>6, <1>7, <1>8, <1>9, <1>10, <1>11, <1>12, <1>13 DEF ChatStep

------------------------------------------------------------------------------
(* The ring buffer.                                                         *)

\* A remainder of less than twice the capacity.
LEMMA Wraps ==
    ASSUME NEW x \in 0..2 * Capacity - 1
    PROVE  x % Capacity = IF x < Capacity THEN x ELSE x - Capacity
BY BoundsAssumption

\* Where the k-th slot from the offset on is, before and after the offset
\* moves.
LEMMA RingFacts ==
    ASSUME NEW o \in 0..Capacity - 1, NEW k \in 0..Capacity - 1
    PROVE  /\ (o + k) % Capacity \in 0..Capacity - 1
           /\ (o + k) % Capacity = o <=> k = 0
           /\ (o + 1) % Capacity \in 0..Capacity - 1
           /\ (((o + 1) % Capacity) + k) % Capacity =
                  IF k = Capacity - 1 THEN o ELSE (o + (k + 1)) % Capacity
<1>1. Capacity \in Nat \ {0} /\ o \in Nat /\ k \in Nat
  BY BoundsAssumption
<1>2. (o + k) % Capacity = IF o + k < Capacity THEN o + k ELSE o + k - Capacity
  BY <1>1, Wraps
<1>3. (o + 1) % Capacity = IF o + 1 < Capacity THEN o + 1 ELSE 0
  BY <1>1, Wraps
<1>4. CASE k = Capacity - 1
  <2>1. (((o + 1) % Capacity) + k) % Capacity = o
    <3>1. CASE o + 1 < Capacity
      <4>1. PICK x \in 0..2 * Capacity - 1 : x = (o + 1) + k
        BY <1>1, <1>4, <3>1
      <4>2. x - Capacity = o /\ ~(x < Capacity)
        BY <1>1, <1>4, <3>1, <4>1
      <4> QED
        BY <1>3, <3>1, <4>1, <4>2, Wraps
    <3>2. CASE ~(o + 1 < Capacity)
      <4>1. 0 + k \in 0..2 * Capacity - 1 /\ 0 + k = o /\ 0 + k < Capacity
        BY <1>1, <1>4, <3>2
      <4> QED
        BY <1>3, <3>2, <4>1, Wraps
    <3> QED
      BY <3>1, <3>2
  <2> QED
    BY <1>1, <1>2, <1>3, <1>4, <2>1
<1>5. CASE k # Capacity - 1
  <2>1. (((o + 1) % Capacity) + k) % Capacity = (o + (k + 1)) % Capacity
    <3>1. CASE o + 1 < Capacity
      <4>1. (o + 1) + k = o + (k + 1)
        BY <1>1
      <4> QED
        BY <1>3, <3>1, <4>1
    <3>2. CASE ~(o + 1 < Capacity)
      <4>1. PICK x \in 0..2 * Capacity - 1 : x = o + (k + 1)
        BY <1>1, <1>5, <3>2
      <4>2. x - Capacity = k /\ ~(x < Capacity)
            /\ k \in 0..2 * Capacity - 1 /\ k < Capacity /\ 0 + k = k
        BY <1>1, <1>5, <3>2, <4>1
      <4>3. (0 + k) % Capacity = k /\ (o + (k + 1)) % Capacity = k
        BY <4>1, <4>2, Wraps
      <4> QED
        BY <1>3, <3>2, <4>3
    <3> QED
      BY <3>1, <3>2
  <2> QED
    BY <1>1, <1>2, <1>3, <1>5, <2>1
<1> QED
  BY <1>4, <1>5

\* A step that does not concern the ring buffers.
LEMMA RingKept ==
    ASSUME Ringed, UNCHANGED <<slots, offset, seen>>,
           \/ /\ pc[Net] \notin {"push_slot", "push_offset"}
              /\ pc'[Net] \notin {"push_slot", "push_offset"}
           \/ UNCHANGED <<pc[Net], tracker[Net]>>
    PROVE  Ringed'
BY DEF Ringed, SlotHas

\* Initially the slots are empty.
LEMMA InitRinged == Init => Ringed
<1> SUFFICES ASSUME Init, NEW p \in Plays, NEW k \in 0..Capacity - 1
             PROVE  SlotHas(p, k, seen[p])
  BY DEF Ringed, Init, Actors
<1>1. offset[p] = 0 /\ slots[p] = NewTracker /\ seen[p] = 0
  BY DEF Init
<1>2. (0 + k) % Capacity \in 0..Capacity - 1 /\ ~(0 + k + 1 > Capacity)
  BY RingFacts, ZeroFacts, BoundsAssumption
<1> QED
  BY <1>1, <1>2 DEF SlotHas, NewTracker

\* The networking thread keeps the last messages in the ring buffer.
LEMMA NetRinged ==
    ASSUME Typed, Placed, Ringed, NetStep
    PROVE  Ringed'
<1> DEFINE t == tracker[Net]
<1>1. /\ pc \in [Actors -> Labels] /\ Net \in Actors
      /\ tracker \in [Actors -> 0..MaxPlays]
      /\ slots \in [Plays -> [0..Capacity - 1 -> 0..MaxSeen]]
      /\ offset \in [Plays -> 0..Capacity - 1]
      /\ seen \in [Plays -> Nat] /\ Capacity \in Nat \ {0}
  BY ActorFacts, NetFacts, BoundsAssumption DEF Typed, TypeOK
<1>2. pc[Net] \notin Idle => t \in Plays
  BY <1>1 DEF Placed
<1>3. CASE JoinGame \/ StartSession \/ AnnounceSession \/ PushLoad \/ PushStore
           \/ AckReset \/ AckAppend \/ Backlog
  BY <1>1, <1>3, RingKept
  DEF JoinGame, StartSession, AnnounceSession, PushLoad, PushStore, Backlog,
      AckReset, AckAppend, Done, Goto, trackers
<1>4. CASE PlayerChat
  <2>1. /\ pc[Net] = "free" /\ pc'[Net] = "push_slot" /\ tracker'[Net] = play
        /\ seen' = [seen EXCEPT ![play] = seen[play] + 1]
        /\ UNCHANGED <<slots, offset>>
    BY <1>1, <1>4 DEF PlayerChat, Goto, trackers
  <2> SUFFICES ASSUME NEW p \in Plays, NEW k \in 0..Capacity - 1
               PROVE  IF p = play THEN SlotHas(p, k, seen[p] - 1)'
                      ELSE SlotHas(p, k, seen[p])'
    BY <2>1 DEF Ringed, SlotHas
  <2>2. SlotHas(p, k, seen[p])
    BY <2>1 DEF Ringed
  <2>3. CASE p = play
    <3>1. seen'[p] - 1 = seen[p]
      BY <1>1, <2>1, <2>3
    <3> QED
      BY <2>1, <2>2, <2>3, <3>1 DEF SlotHas
  <2>4. CASE p # play
    <3>1. seen'[p] = seen[p]
      BY <1>1, <2>1, <2>4
    <3> QED
      BY <2>1, <2>2, <2>4, <3>1 DEF SlotHas
  <2> QED
    BY <2>3, <2>4
<1>5. CASE PushSlot
  <2>1. t \in Plays
    BY <1>2, <1>5 DEF PushSlot, Idle
  <2>2. /\ pc[Net] = "push_slot" /\ pc'[Net] = "push_offset"
        /\ slots' = [slots EXCEPT ![t][offset[t]] = seen[t]]
        /\ UNCHANGED <<offset, seen, tracker>>
    BY <1>1, <1>5 DEF PushSlot, Goto, locals
  <2> SUFFICES ASSUME NEW p \in Plays, NEW k \in 0..Capacity - 1
               PROVE  IF p = t
                      THEN IF k = 0 THEN slots'[p][offset[p]] = seen[p]
                           ELSE SlotHas(p, k, seen[p] - 1)'
                      ELSE SlotHas(p, k, seen[p])'
    BY <2>2 DEF Ringed, SlotHas
  <2>3. offset[p] \in 0..Capacity - 1
    BY <1>1
  <2>4. CASE p # t
    BY <1>1, <2>1, <2>2, <2>4 DEF Ringed, SlotHas
  <2>5. CASE p = t /\ k = 0
    BY <1>1, <2>1, <2>2, <2>3, <2>5
  <2>6. CASE p = t /\ k # 0
    <3>1. SlotHas(p, k, seen[p] - 1)
      BY <2>2, <2>6 DEF Ringed
    <3>2. /\ (offset[p] + k) % Capacity \in 0..Capacity - 1
          /\ (offset[p] + k) % Capacity # offset[p]
      BY <2>3, <2>6, RingFacts
    <3>3. slots'[p][(offset[p] + k) % Capacity] =
              slots[p][(offset[p] + k) % Capacity]
      BY <1>1, <2>1, <2>2, <2>6, <3>2
    <3> QED
      BY <2>2, <2>6, <3>1, <3>3 DEF SlotHas
  <2> QED
    BY <2>4, <2>5, <2>6
<1>6. CASE PushOffset
  <2>1. t \in Plays
    BY <1>2, <1>6 DEF PushOffset, Idle
  <2>2. /\ pc[Net] = "push_offset" /\ pc'[Net] = "push_load"
        /\ offset' = [offset EXCEPT ![t] = (offset[t] + 1) % Capacity]
        /\ UNCHANGED <<slots, seen, tracker>>
    BY <1>1, <1>6 DEF PushOffset, Goto, locals
  <2> SUFFICES ASSUME NEW p \in Plays, NEW k \in 0..Capacity - 1
               PROVE  SlotHas(p, k, seen[p])'
    BY <2>2 DEF Ringed, SlotHas
  <2>3. offset[p] \in 0..Capacity - 1 /\ seen[p] \in Nat /\ k \in Nat
    BY <1>1
  <2>4. CASE p # t
    BY <1>1, <2>1, <2>2, <2>4 DEF Ringed, SlotHas
  <2>5. CASE p = t /\ k = Capacity - 1
    <3>1. (offset'[p] + k) % Capacity = offset[p]
      BY <1>1, <2>1, <2>2, <2>3, <2>5, RingFacts
    <3>2. slots[p][offset[p]] = seen[p]
      BY <2>2, <2>5, ZeroFacts DEF Ringed
    <3>3. (IF seen[p] + k + 1 > Capacity THEN seen[p] + k + 1 - Capacity
           ELSE 0) = seen[p]
      BY <1>1, <2>3, <2>5
    <3> QED
      BY <2>2, <3>1, <3>2, <3>3 DEF SlotHas
  <2>6. CASE p = t /\ k # Capacity - 1
    <3>1. (offset'[p] + k) % Capacity = (offset[p] + (k + 1)) % Capacity
      BY <1>1, <2>1, <2>2, <2>3, <2>6, RingFacts
    <3>2. k + 1 \in 0..Capacity - 1 /\ k + 1 # 0
      BY <1>1, <2>3, <2>6
    <3>3. SlotHas(p, k + 1, seen[p] - 1)
      BY <2>2, <2>6, <3>2 DEF Ringed
    <3>4. seen[p] - 1 + (k + 1) + 1 = seen[p] + k + 1
      BY <2>3
    <3>5. slots[p][(offset[p] + (k + 1)) % Capacity] =
              IF seen[p] + k + 1 > Capacity THEN seen[p] + k + 1 - Capacity
              ELSE 0
      BY <1>1, <2>3, <3>3, <3>4 DEF SlotHas
    <3> QED
      BY <2>2, <3>1, <3>5 DEF SlotHas
  <2> QED
    BY <2>4, <2>5, <2>6
<1> QED
  BY <1>3, <1>4, <1>5, <1>6 DEF NetStep

\* A chat only reads the ring buffer.
LEMMA ChatRinged ==
    ASSUME Typed, Ringed, NEW a \in Actors, ChatStep(a)
    PROVE  Ringed'
<1>1. pc \in [Actors -> Labels] /\ tracker \in [Actors -> 0..MaxPlays]
      /\ Net \in Actors
  BY ActorFacts DEF Typed, TypeOK
<1>2. UNCHANGED <<slots, offset, seen>>
  BY DEF ChatStep, SignChat, UnsignedChat, PrepareCommand, AcknowledgeSlot,
     Sign, IndexLoad, IndexStore, Offset, Reset, AppendChat, trackers
<1>3. \/ /\ pc[Net] \notin {"push_slot", "push_offset"}
         /\ pc'[Net] \notin {"push_slot", "push_offset"}
      \/ UNCHANGED <<pc[Net], tracker[Net]>>
  BY <1>1
  DEF ChatStep, SignChat, UnsignedChat, PrepareCommand, AcknowledgeSlot, Sign,
      IndexLoad, IndexStore, Offset, Reset, AppendChat, Writes, Begin, Done,
      Goto, locals
<1> QED
  BY <1>2, <1>3, RingKept

------------------------------------------------------------------------------
(* What is acknowledged.                                                    *)

\* A sequence that counts up, and its next number.
LEMMA CountingUp ==
    ASSUME NEW d \in Nat, NEW l \in Nat
    PROVE  [k \in 1..l + 1 |-> d + k] =
               Append([k \in 1..l |-> d + k], d + l + 1)
OBVIOUS

\* Another slot is listed if it is not empty.
LEMMA ListingGrows ==
    ASSUME NEW n \in Nat, NEW j \in 0..Capacity - 1, NEW g,
           g = IF n + j + 1 > Capacity THEN n + j + 1 - Capacity ELSE 0
    PROVE  /\ Listing(n, j + 1) = IF g = 0 THEN Listing(n, j)
                                  ELSE Append(Listing(n, j), g)
           /\ Marked(n, j + 1) = IF g = 0 THEN Marked(n, j)
                                 ELSE Marked(n, j) \cup {j}
<1> DEFINE m == Least(n, Capacity)
<1>1. /\ Capacity \in Nat \ {0} /\ j \in Nat /\ m \in Nat
      /\ m <= n /\ m <= Capacity /\ (m = n \/ m = Capacity)
  BY BoundsAssumption DEF Least
<1> HIDE DEF m
<1>2. g = 0 <=> j < Capacity - m
  BY <1>1 DEF m, Least
<1>3. CASE g = 0
  <2>1. ~(j + 1 > Capacity - m) /\ ~(j > Capacity - m)
    BY <1>1, <1>2, <1>3
  <2>2. Listing(n, j + 1) = Listing(n, j)
    BY <2>1 DEF Listing, m
  <2>3. Marked(n, j + 1) = Marked(n, j)
    BY <1>1, <1>2, <1>3 DEF Marked, m
  <2> QED
    BY <1>3, <2>2, <2>3
<1>4. CASE g # 0
  <2>1. PICK l \in Nat, d \in Nat : l = j - (Capacity - m) /\ d = n - m
    BY <1>1, <1>2, <1>4
  <2>2. Listing(n, j + 1) = [k \in 1..l + 1 |-> d + k]
    <3>1. j + 1 > Capacity - m /\ (j + 1) - (Capacity - m) = l + 1
      BY <1>1, <2>1
    <3> DEFINE e == IF j + 1 > Capacity - m THEN (j + 1) - (Capacity - m) ELSE 0
    <3>2. Listing(n, j + 1) = [k \in 1..e |-> n - m + k]
      BY Zenon DEF Listing, m
    <3>3. e = l + 1
      BY <3>1
    <3> HIDE DEF e
    <3> QED
      BY <2>1, <3>2, <3>3
  <2>3. Listing(n, j) = [k \in 1..l |-> d + k]
    <3> DEFINE e == IF j > Capacity - m THEN j - (Capacity - m) ELSE 0
    <3>1. e = l
      BY <1>1, <2>1
    <3>2. Listing(n, j) = [k \in 1..e |-> n - m + k]
      BY Zenon DEF Listing, m
    <3> HIDE DEF e
    <3> QED
      BY <2>1, <3>1, <3>2
  <2>4. Marked(n, j + 1) = Marked(n, j) \cup {j}
    BY <1>1, <1>2, <1>4 DEF Marked, m
  <2>5. g = d + l + 1
    BY <1>1, <1>4, <2>1
  <2>6. [k \in 1..l + 1 |-> d + k] = Append([k \in 1..l |-> d + k], g)
    BY <2>5, CountingUp
  <2> QED
    BY <1>4, <2>2, <2>3, <2>4, <2>6
<1> QED
  BY <1>3, <1>4

\* No slot, and all of them.
LEMMA ListingEnds ==
    ASSUME NEW n \in Nat
    PROVE  /\ Listing(n, 0) = <<>> /\ Marked(n, 0) = {}
           /\ Listing(n, Capacity) = Window(n)
           /\ Marked(n, Capacity) =
                  {b \in 0..Capacity - 1 : b >= Capacity - Len(Window(n))}
<1> DEFINE m == Least(n, Capacity)
<1>1. /\ Capacity \in Nat \ {0} /\ m \in Nat
      /\ m <= n /\ m <= Capacity
  BY BoundsAssumption DEF Least
<1> HIDE DEF m
<1>2. Listing(n, 0) = <<>>
  BY <1>1 DEF Listing, m
<1>3. Marked(n, 0) = {}
  BY <1>1 DEF Marked
<1>4. Listing(n, Capacity) = [k \in 1..m |-> n - m + k]
  BY <1>1 DEF Listing, m
<1>5. Window(n) = [k \in 1..m |-> n - m + k] /\ Len(Window(n)) = m
  BY <1>1 DEF Window, m
<1>6. Marked(n, Capacity) = {b \in 0..Capacity - 1 : b >= Capacity - m}
  BY <1>1 DEF Marked, m
<1> QED
  BY <1>2, <1>3, <1>4, <1>5, <1>6

\* What the networking thread has listed when it writes chat.
LEMMA NextListed ==
    ASSUME Typed, Placed, Ringed, Listed,
           NetStep \/ \E a \in Actors : ChatStep(a)
    PROVE  Listed'
<1> DEFINE t == tracker[Net]
<1>1. /\ pc \in [Actors -> Labels] /\ Net \in Actors
      /\ tracker \in [Actors -> 0..MaxPlays]
      /\ i \in [Actors -> 0..Capacity]
      /\ packet \in [Actors -> Packets]
      /\ seen \in [Plays -> Nat] /\ Capacity \in Nat \ {0}
  BY ActorFacts, NetFacts, BoundsAssumption DEF Typed, TypeOK
<1>2. pc[Net] \notin Idle => t \in Plays
  BY <1>1 DEF Placed
<1>3. CASE NetStep
  <2>1. pc'[Net] \notin ChatLabels
    BY <1>1, <1>3
    DEF NetStep, JoinGame, StartSession, AnnounceSession, PlayerChat, PushSlot,
        PushOffset, PushLoad, PushStore, Backlog, AckReset, AckAppend, Done,
        Goto, ChatLabels
  <2> QED
    BY <2>1 DEF Listed
<1>4. ASSUME NEW a \in Actors, a # Net, ChatStep(a)
      PROVE  Listed'
  <2>1. CASE SignChat(a) \/ PrepareCommand(a)
    BY <1>1, <1>4, <2>1 DEF SignChat, PrepareCommand, Begin, Goto, Listed
  <2>2. CASE UnsignedChat(a) \/ AppendChat(a)
    BY <1>1, <1>4, <2>2 DEF UnsignedChat, AppendChat, Done, Goto, locals, Listed
  <2>3. CASE AcknowledgeSlot(a) \/ Sign(a)
    BY <1>1, <1>4, <2>3 DEF AcknowledgeSlot, Sign, Goto, Listed
  <2>4. CASE IndexLoad(a) \/ IndexStore(a) \/ Offset(a) \/ Reset(a)
    BY <1>1, <1>4, <2>4
    DEF IndexLoad, IndexStore, Offset, Reset, Goto, locals, Listed
  <2> QED
    BY <1>4, <2>1, <2>2, <2>3, <2>4 DEF ChatStep
<1>5. ASSUME NEW kind, Writes(Net), Begin(Net, kind), seen' = seen
      PROVE  Listed'
  <2>1. play \in Plays
    BY <1>5, BoundsAssumption DEF Writes, Plays, Typed, TypeOK
  <2>2. /\ pc'[Net] = "acknowledge" /\ tracker'[Net] = play /\ i'[Net] = 0
        /\ packet'[Net].bits = {} /\ packet'[Net].signatures = <<>>
    BY <1>1, <1>5 DEF Begin, Goto, Blank, Typed, TypeOK
  <2>3. seen'[play] \in Nat
    BY <1>1, <1>5, <2>1
  <2> QED
    BY <2>2, <2>3, ListingEnds DEF Listed
<1>6. CASE SignChat(Net) \/ PrepareCommand(Net)
  BY <1>5, <1>6 DEF SignChat, PrepareCommand
<1>7. CASE UnsignedChat(Net)
  BY <1>7 DEF UnsignedChat, locals, Listed
<1>8. CASE AcknowledgeSlot(Net)
  <2> DEFINE n == seen[t]
             j == i[Net]
             g == slots[t][(offset[t] + j) % Capacity]
  <2>1. /\ pc[Net] = "acknowledge"
        /\ j \in 0..Capacity - 1 /\ j + 1 \in 0..Capacity
    BY <1>1, <1>8 DEF AcknowledgeSlot
  <2>2. t \in Plays /\ n \in Nat
    BY <1>1, <1>2, <2>1 DEF Idle
  <2>3. g = IF n + j + 1 > Capacity THEN n + j + 1 - Capacity ELSE 0
    BY <2>1, <2>2 DEF Ringed, SlotHas
  <2>4. /\ packet[Net].signatures = Listing(n, j)
        /\ packet[Net].bits = Marked(n, j)
    BY <2>1 DEF Listed, ChatLabels
  <2>5. /\ packet'[Net].signatures =
               IF g = 0 THEN packet[Net].signatures
               ELSE Append(packet[Net].signatures, g)
        /\ packet'[Net].bits = IF g = 0 THEN packet[Net].bits
                               ELSE packet[Net].bits \cup {j}
        /\ i'[Net] = j + 1 /\ UNCHANGED <<pc, tracker, seen>>
    BY <1>1, <1>8 DEF AcknowledgeSlot, Packets
  <2> HIDE DEF g, n, j
  <2>6. /\ packet'[Net].signatures = Listing(n, j + 1)
        /\ packet'[Net].bits = Marked(n, j + 1)
    <3>1. /\ Listing(n, j + 1) = IF g = 0 THEN Listing(n, j)
                                 ELSE Append(Listing(n, j), g)
          /\ Marked(n, j + 1) = IF g = 0 THEN Marked(n, j)
                                ELSE Marked(n, j) \cup {j}
      BY <2>1, <2>2, <2>3, ListingGrows
    <3> QED
      BY <2>4, <2>5, <3>1
  <2> QED
    BY <2>1, <2>5, <2>6 DEF Listed, n
<1>9. CASE Sign(Net)
  <2>1. /\ pc[Net] = "acknowledge" /\ i[Net] = Capacity
        /\ pc'[Net] \in {"index_load", "offset"} /\ UNCHANGED <<tracker, seen>>
        /\ packet'[Net].signatures = packet[Net].signatures
        /\ packet'[Net].bits = packet[Net].bits
    BY <1>1, <1>9 DEF Sign, Goto, Packets
  <2> QED
    BY <2>1 DEF Listed, ChatLabels
<1>10. CASE IndexLoad(Net) \/ IndexStore(Net) \/ Offset(Net) \/ Reset(Net)
  <2>1. /\ pc[Net] \in ChatLabels \ {"acknowledge"}
        /\ pc'[Net] \in ChatLabels \ {"acknowledge"}
        /\ UNCHANGED <<tracker, seen>>
        /\ packet'[Net].signatures = packet[Net].signatures
        /\ packet'[Net].bits = packet[Net].bits
    BY <1>1, <1>10
    DEF IndexLoad, IndexStore, Offset, Reset, Goto, locals, ChatLabels, Packets
  <2> QED
    BY <2>1 DEF Listed
<1>11. CASE AppendChat(Net)
  <2>1. pc'[Net] = "free"
    BY <1>1, <1>11 DEF AppendChat, Done, Goto
  <2> QED
    BY <2>1 DEF Listed, ChatLabels
<1>12. CASE ChatStep(Net)
  BY <1>6, <1>7, <1>8, <1>9, <1>10, <1>11, <1>12 DEF ChatStep
<1> QED
  BY <1>3, <1>4, <1>12

------------------------------------------------------------------------------
(* All of it.                                                               *)

\* What the server sees in packet k.
Agrees(k) ==
    sent[k].kind \in {"chat", "command"} =>
        LET w == Window(Position(sent[k].play, k)) IN
        /\ sent[k].signatures = w
        /\ sent[k].bits = {b \in 0..Capacity - 1 : b >= Capacity - Len(w)}

\* The inductive invariant.
SigningInv ==
    /\ Typed
    /\ Placed
    /\ \A c \in Actors : chatters = {c} => Numbers(c)
    /\ Ringed /\ Listed
    /\ chatters = {Net} => Tallied /\ \A k \in 1..Len(sent) : Agrees(k)

\* A packet that acknowledges nothing, or the right messages, keeps the
\* agreement.
LEMMA AgreesAppended ==
    ASSUME Typed, NEW q \in Packets, sent' = Append(sent, q),
           \A k \in 1..Len(sent) : Agrees(k),
           q.kind \in {"chat", "command"} =>
               LET w == Window(Acknowledged(q.play) + q.offset) IN
               /\ q.signatures = w
               /\ q.bits = {b \in 0..Capacity - 1 : b >= Capacity - Len(w)}
    PROVE  \A k \in 1..Len(sent)' : Agrees(k)'
<1>1. sent \in Seq(Packets) /\ Appended(sent, q, sent')
  BY QueueAppends
<1>2. PICK n \in Nat : /\ n = Len(sent) /\ Len(sent') = n + 1
                       /\ sent'[n + 1] = q
                       /\ \A k \in 1..n : sent[k] = sent'[k]
  BY <1>1 DEF Appended
<1>3. ASSUME NEW k \in 1..n PROVE Agrees(k)'
  <2>1. k \in 0..Len(sent) /\ sent'[k] = sent[k]
    BY <1>2
  <2>2. PICK p : p = sent[k].play
    OBVIOUS
  <2>3. PositionIn(sent', p, k) = PositionIn(sent, p, k)
    <3>1. k \in Nat /\ \A j \in 1..k : sent[j] = sent'[j]
      BY <1>2
    <3> QED
      BY <3>1, PositionSame
  <2>4. Position(p, k)' = Position(p, k)
    BY <2>3, PositionIsIn
  <2>5. Agrees(k)
    BY <1>2
  <2> QED
    BY <2>1, <2>2, <2>4, <2>5 DEF Agrees, Window
<1>4. Agrees(n + 1)'
  <2>1. PICK p : p = q.play
    OBVIOUS
  <2>2. PositionIn(sent', p, Len(sent')) =
            PositionIn(sent, p, Len(sent)) + q.offset
    BY <1>1, <2>1, PositionInAppended
  <2>3. Position(p, n + 1)' = Acknowledged(p) + q.offset
    BY <1>2, <2>2, PositionIsIn DEF Acknowledged
  <2> QED
    BY <1>2, <2>1, <2>3 DEF Agrees, Window
<1> QED
  BY <1>2, <1>3, <1>4

\* Without a new packet there is nothing to agree on.
LEMMA AgreesKept ==
    ASSUME sent' = sent, \A k \in 1..Len(sent) : Agrees(k)
    PROVE  \A k \in 1..Len(sent)' : Agrees(k)'
<1> SUFFICES ASSUME NEW k \in 1..Len(sent) PROVE Agrees(k)'
  OBVIOUS
<1>1. Position(sent[k].play, k)' = Position(sent[k].play, k)
  BY PositionIsIn
<1> QED
  BY <1>1 DEF Agrees, Window

\* What the networking thread queues names the right messages.
LEMMA NextAgrees ==
    ASSUME Typed, Placed, Listed, Tallied, \A k \in 1..Len(sent) : Agrees(k),
           NetStep \/ ChatStep(Net)
    PROVE  \A k \in 1..Len(sent)' : Agrees(k)'
<1>1. /\ Blank("session") \in Packets /\ Blank("session").kind = "session"
      /\ Blank("unsigned") \in Packets /\ Blank("unsigned").kind = "unsigned"
  BY BlankTyped DEF Kinds, Blank
<1>2. CASE AnnounceSession \/ UnsignedChat(Net)
  BY <1>1, <1>2, AgreesAppended DEF AnnounceSession, UnsignedChat, Queue
<1>3. CASE AckAppend
  <2> DEFINE q == [Blank("ack") EXCEPT !.play = tracker[Net],
                                       !.offset = loaded[Net]]
  <2>1. q \in Packets /\ q.kind = "ack"
    BY BlankTyped, NetFacts DEF Kinds, Blank, Packets, Typed
  <2>2. sent' = Append(sent, q)
    BY <1>3 DEF AckAppend, Queue
  <2> HIDE DEF q
  <2> QED
    BY <2>1, <2>2, AgreesAppended
<1>4. CASE AppendChat(Net)
  <2> DEFINE q == packet[Net]
             t == tracker[Net]
  <2>1. /\ pc[Net] = "append" /\ sent' = Append(sent, q) /\ q \in Packets
        /\ q.play = t /\ t \in Plays /\ q.offset \in Nat
    BY <1>4, NetFacts
    DEF AppendChat, Queue, Placed, ChatLabels, Idle, Typed, Packets
  <2>2. pending[t] = 0 /\ Uncounted(t) = q.offset
        /\ seen[t] = pending[t] + Acknowledged(t) + Uncounted(t)
    BY <2>1 DEF Tallied, Current, Counted, Uncounted, Acknowledged
  <2>3. Acknowledged(t) \in Nat /\ seen[t] \in Nat
    BY <2>1, AcknowledgedFacts, NetFacts DEF Typed
  <2>4. Acknowledged(t) + q.offset = seen[t]
    BY <2>1, <2>2, <2>3
  <2>5. q.signatures = Listing(seen[t], Capacity)
        /\ q.bits = Marked(seen[t], Capacity)
    BY <2>1 DEF Listed, ChatLabels
  <2>6. /\ q.signatures = Window(seen[t])
        /\ q.bits = {b \in 0..Capacity - 1 :
                         b >= Capacity - Len(Window(seen[t]))}
    BY <2>3, <2>5, ListingEnds
  <2> HIDE DEF q, t
  <2> QED
    BY <2>1, <2>4, <2>6, AgreesAppended
<1>5. CASE sent' = sent
  BY <1>5, AgreesKept
<1>6. \/ sent' = sent
      \/ AnnounceSession \/ AckAppend \/ UnsignedChat(Net) \/ AppendChat(Net)
  BY DEF NetStep, JoinGame, StartSession, PlayerChat, PushSlot, PushOffset,
     PushLoad, PushStore, Backlog, AckReset, ChatStep, SignChat, PrepareCommand,
     AcknowledgeSlot, Sign, IndexLoad, IndexStore, Offset, Reset
<1> QED
  BY <1>2, <1>3, <1>4, <1>5, <1>6

\* Initially the invariant holds.
LEMMA InitSigning == Init => SigningInv
<1> SUFFICES ASSUME Init PROVE SigningInv
  OBVIOUS
<1>1. Typed /\ Placed /\ Ringed /\ Tallied
  BY InitTyped, InitRinged, InitTallied
<1>2. Len(sent) = 0
  BY DEF Init
<1>3. ASSUME NEW c \in Actors PROVE Numbers(c)
  <2>1. ChatsIn(sent, Len(sent)) = {} /\ Chats(Len(sent)) = {}
    BY <1>2 DEF ChatsIn, Chats
  <2> QED
    BY <1>2, <2>1, FS_EmptySet DEF Numbers, Numbered, Consecutive, Init
<1>4. Listed
  BY DEF Listed, ChatLabels, Init, Actors
<1> QED
  BY <1>1, <1>2, <1>3, <1>4 DEF SigningInv

\* Every step preserves it.
LEMMA NextSigning == SigningInv /\ [Next]_vars => SigningInv'
<1> SUFFICES ASSUME SigningInv, [Next]_vars PROVE SigningInv'
  OBVIOUS
<1> USE DEF SigningInv
<1>1. Typed' /\ Placed'
  BY NextTyped
<1>2. \A c \in Actors : (chatters = {c} => Numbers(c))'
  BY NextNumbers
<1>3. CASE NetStep
  <2>1. Ringed' /\ Listed'
    BY <1>3, NetRinged, NextListed
  <2>2. chatters' = {Net} => Tallied' /\ \A k \in 1..Len(sent)' : Agrees(k)'
    BY <1>3, NetKeepsChatters, NetTallied, NextAgrees
  <2> QED
    BY <1>1, <1>2, <2>1, <2>2
<1>4. ASSUME NEW a \in Actors, ChatStep(a)
      PROVE  SigningInv'
  <2>1. Ringed' /\ Listed'
    BY <1>4, ChatRinged, NextListed
  <2>2. a \in chatters /\ chatters' = chatters
    BY <1>4, OnlyChattersChat
  <2>3. chatters' = {Net} => Tallied' /\ \A k \in 1..Len(sent)' : Agrees(k)'
    BY <1>4, <2>2, ChatTallied, NextAgrees
  <2> QED
    BY <1>1, <1>2, <2>1, <2>3
<1>5. CASE KeyExpires \/ UNCHANGED vars
  <2>1. UNCHANGED <<chatters, play, slots, offset, pending, pc, tracker, i,
                    packet, loaded, seen, sent>>
    BY <1>5 DEF KeyExpires, vars, environment, trackers, numbering, locals
  <2>2. Ringed' /\ Listed'
    BY <2>1, RingKept DEF Listed
  <2>3. Tallied => Tallied'
    <3>1. \A p : Position(p, Len(sent))' = Position(p, Len(sent))
      BY <2>1, PositionIsIn
    <3> QED
      BY <2>1, <3>1 DEF Tallied, Counted, Current, Limited, Uncounted
  <2>4. chatters' = {Net} => Tallied' /\ \A k \in 1..Len(sent)' : Agrees(k)'
    BY <2>1, <2>3, AgreesKept
  <2> QED
    BY <1>1, <1>2, <2>2, <2>4
<1> QED
  BY <1>3, <1>4, <1>5 DEF Next

\* The invariant holds in every reachable state.
THEOREM SigningInvariant == Spec => []SigningInv
<1> QED
  BY InitSigning, NextSigning, PTL DEF Spec

\* The variables have their types, and the offset stays within the ring
\* buffer, whichever threads chat (125-133).
THEOREM TypeCorrect == Spec => []TypeOK
<1>1. SigningInv => TypeOK
  BY DEF SigningInv, Typed
<1> QED
  BY <1>1, SigningInvariant, PTL

\* If the networking thread writes all chat, what every message and command
\* acknowledges is what the server takes it to be, for any size of the ring
\* buffer and however often it wraps around (136-147, 201-206, 227-276).
THEOREM AcknowledgesTheSame == Spec => []ServerAgrees
<1>1. SigningInv => ServerAgrees
  <2> SUFFICES ASSUME SigningInv, chatters = {Net}, NEW k \in DOMAIN sent
               PROVE  Agrees(k)
    BY DEF ServerAgrees, Agrees
  <2>1. k \in 1..Len(sent)
    BY DEF SigningInv, Typed
  <2> QED
    BY <2>1 DEF SigningInv
<1> QED
  BY <1>1, SigningInvariant, PTL

\* If the networking thread writes all chat, no more messages are left
\* unacknowledged than the limit, whatever the limit is (203-206).
THEOREM BacklogIsBounded == Spec => []BacklogBounded
<1>1. SigningInv => BacklogBounded
  <2> SUFFICES ASSUME SigningInv, chatters = {Net}, NEW p \in Plays,
                      pc[Net] = "free"
               PROVE  seen[p] - Acknowledged(p) <= AckLimit
    BY DEF BacklogBounded, Acknowledged
  <2>1. Uncounted(p) = 0 /\ pending[p] <= AckLimit
        /\ seen[p] = pending[p] + Acknowledged(p) + Uncounted(p)
    BY DEF SigningInv, Tallied, Counted, Limited, Uncounted, Acknowledged
  <2>2. /\ pending[p] \in Nat /\ Acknowledged(p) \in Nat /\ seen[p] \in Nat
        /\ AckLimit \in Nat
    BY NetFacts, AcknowledgedFacts, BoundsAssumption DEF SigningInv, Typed
  <2> QED
    BY <2>1, <2>2
<1> QED
  BY <1>1, SigningInvariant, PTL

\* If one thread chats, whichever it is, the signed messages carry the indexes
\* 0, 1, 2, ... in the order of the queue (268-271).
THEOREM IndexesAreConsecutive == Spec => []IndexesConsecutive
<1>1. SigningInv => IndexesConsecutive
  <2> SUFFICES ASSUME SigningInv, Cardinality(chatters) = 1,
                      NEW k \in Chats(Len(sent))
               PROVE  sent[k].index = Cardinality(Chats(k - 1))
    BY DEF IndexesConsecutive
  <2>1. PICK c : chatters = {c}
    BY UsagesAssumption, FS_Singleton DEF SigningInv, Typed, TypeOK
  <2>2. c \in Actors
    BY <2>1, ActorFacts DEF SigningInv
  <2>3. Consecutive(sent)
    BY <2>1, <2>2 DEF SigningInv, Numbers
  <2> QED
    BY <2>3 DEF Consecutive, ChatsIn, Chats
<1> QED
  BY <1>1, SigningInvariant, PTL
===============================================================================
