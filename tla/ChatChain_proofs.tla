--------------------------- MODULE ChatChain_proofs ---------------------------
(***************************************************************************)
(* Proofs about ChatChain, for any senders, any capacity of the list, any  *)
(* numbers of play states, messages and packets, and any writers of chat.  *)
(***************************************************************************)
EXTENDS ChatChain, FiniteSetTheorems, WellFoundedInduction, TLAPS

Labels == {"free", "sign", "chain", "append"}
Packets ==
    [kind : {"none", "chat", "command"}, play : 0..MaxPlays,
     signature : Nat, previous : Nat,
     digest : Seq(Nat), previous_messages : Seq(Nat)]

------------------------------------------------------------------------------
(* The loop of push.                                                        *)

\* A set of natural numbers that is not empty has a least one.
LEMMA LeastNumber ==
    ASSUME NEW S \in SUBSET Nat, S # {}
    PROVE  \E n \in S : \A m \in S : n <= m
<1> DEFINE R == StrictSubsetOrdering(Nat)
           T == {1..n : n \in S}
<1>1. \A n \in Nat : 1..n \in FiniteSubsetsOf(Nat)
  BY FS_Interval DEF FiniteSubsetsOf
<1>2. T \subseteq FiniteSubsetsOf(Nat) /\ T # {}
  BY <1>1
<1>3. IsWellFoundedOn(R, FiniteSubsetsOf(Nat))
  BY FS_StrictSubsetOrderingWellFounded
<1>4. \E x \in T : \A y \in T : ~(<<y, x>> \in R)
  <2> HIDE DEF R, T
  <2> QED
    BY <1>2, <1>3, WFMin
<1>5. PICK n \in S : \A m \in S : ~(<<1..m, 1..n>> \in R)
  BY <1>4
<1>6. ASSUME NEW m \in S, m < n PROVE FALSE
  <2>1. 1..m \subseteq 1..n /\ n \in 1..n /\ n \notin 1..m
    BY <1>6
  <2>2. <<1..m, 1..n>> \in R
    BY <2>1 DEF StrictSubsetOrdering
  <2> QED
    BY <1>5, <2>2
<1> QED
  BY <1>5, <1>6

\* f holds what push has kept after 0, 1, ..., b of the entries e.
Loops(e, s, n, b, f) ==
    f = [k \in 0..b |-> IF k = 0 THEN <<n>>
                        ELSE IF s[e[k]] # s[n] THEN Append(f[k - 1], e[k])
                        ELSE f[k - 1]]

\* There are such lists.
LEMMA LoopsExist ==
    ASSUME NEW e, NEW s, NEW n
    PROVE  \A b \in Nat : \E f : Loops(e, s, n, b, f)
<1> DEFINE Bad == {b \in Nat : ~\E f : Loops(e, s, n, b, f)}
<1>1. SUFFICES ASSUME Bad # {} PROVE FALSE
  OBVIOUS
<1>2. PICK b \in Bad : \A m \in Bad : b <= m
  BY <1>1, LeastNumber
<1>3. b # 0
  <2>1. Loops(e, s, n, 0, [k \in 0..0 |-> <<n>>])
    BY DEF Loops
  <2> QED
    BY <2>1
<1>4. PICK g : Loops(e, s, n, b - 1, g)
  BY <1>2, <1>3
<1> DEFINE Then(f, k) == IF k = 0 THEN <<n>>
                         ELSE IF s[e[k]] # s[n] THEN Append(f[k - 1], e[k])
                         ELSE f[k - 1]
           h == [k \in 0..b |-> Then(g, k)]
<1>5. \A k \in 0..b - 1 : g[k] = Then(g, k)
  BY <1>3, <1>4 DEF Loops
<1>6. \A k \in 0..b : Then(h, k) = Then(g, k)
  <2> TAKE k \in 0..b
  <2>1. CASE k = 0
    BY <2>1
  <2>2. CASE k # 0
    <3>1. k - 1 \in 0..b - 1 /\ k - 1 \in 0..b
      BY <2>2
    <3>2. h[k - 1] = g[k - 1]
      BY <3>1, <1>5
    <3> QED
      BY <2>2, <3>2
  <2> QED
    BY <2>1, <2>2
<1>7. h = [k \in 0..b |-> Then(h, k)]
  <2> HIDE DEF Then
  <2> QED
    BY <1>6
<1> QED
  BY <1>2, <1>7 DEF Loops

\* push keeps what the loop has kept at the end, as far as it fits.
LEMMA PushChosen ==
    ASSUME NEW n, NEW s, Len(entries) \in Nat
    PROVE  \E f : /\ Loops(entries, s, n, Len(entries), f)
                  /\ Push(n, s) = First(f[Len(entries)])
<1> DEFINE f == CHOOSE f : Loops(entries, s, n, Len(entries), f)
<1>1. Push(n, s) = First(f[Len(entries)])
  BY Zenon DEF Push, Loops
<1>2. Loops(entries, s, n, Len(entries), f)
  BY Zenon, LoopsExist
<1> QED
  BY <1>1, <1>2

\* The entries: a list of older messages than n, newest first, of distinct
\* senders.
Entries(e, s, n) ==
    /\ e \in Seq(Nat)
    /\ \A k \in DOMAIN e : e[k] < n
    /\ \A k \in DOMAIN e : \A j \in 1..k - 1 : e[j] > e[k] /\ s[e[j]] # s[e[k]]

\* What is kept of the first k entries: n, then those of other senders, in
\* their order.  At most one is lost.
Kept(e, s, n, k, g) ==
    /\ g \in Seq(Nat) /\ Len(g) >= 1 /\ g[1] = n
    /\ Len(g) >= k
    /\ (\A j \in 1..k : s[e[j]] # s[n]) => Len(g) = k + 1
    /\ \A i \in 2..Len(g) : \E j \in 1..k : g[i] = e[j] /\ s[e[j]] # s[n]
    /\ \A i \in 1..Len(g) : \A j \in 1..i - 1 : g[j] > g[i]
    /\ \A j \in 1..k : s[e[j]] # s[n] => \E i \in 1..Len(g) : g[i] = e[j]

\* One turn of the loop.
LEMMA KeptStep ==
    ASSUME NEW e, NEW s, NEW n \in Nat, Entries(e, s, n),
           NEW k \in 1..Len(e), NEW g, Kept(e, s, n, k - 1, g)
    PROVE  Kept(e, s, n, k, IF s[e[k]] # s[n] THEN Append(g, e[k]) ELSE g)
<1>1. /\ e \in Seq(Nat) /\ Len(e) \in Nat /\ k \in DOMAIN e
      /\ k - 1 \in Nat /\ k \in Nat /\ e[k] \in Nat
  BY DEF Entries
<1>2. g \in Seq(Nat) /\ Len(g) \in Nat /\ Len(g) >= 1
  BY DEF Kept
<1>3. CASE s[e[k]] # s[n]
  <2> DEFINE h == Append(g, e[k])
  <2>1. /\ h \in Seq(Nat) /\ Len(h) = Len(g) + 1
        /\ \A i \in 1..Len(g) : h[i] = g[i]
        /\ h[Len(g) + 1] = e[k]
    BY <1>1, <1>2
  <2> HIDE DEF h
  <2>2. h[1] = n /\ Len(h) >= 1 /\ Len(h) >= k
    BY <1>1, <1>2, <2>1 DEF Kept
  <2>3. (\A j \in 1..k : s[e[j]] # s[n]) => Len(h) = k + 1
    <3>1. SUFFICES ASSUME \A j \in 1..k : s[e[j]] # s[n]
                   PROVE  Len(h) = k + 1
      OBVIOUS
    <3>2. \A j \in 1..k - 1 : s[e[j]] # s[n]
      BY <1>1, <3>1
    <3>3. Len(g) = k - 1 + 1
      BY <3>2 DEF Kept
    <3> QED
      BY <1>1, <2>1, <3>3
  <2>4. ASSUME NEW i \in 2..Len(h)
        PROVE  \E j \in 1..k : h[i] = e[j] /\ s[e[j]] # s[n]
    <3>1. CASE i = Len(g) + 1
      <4>1. h[i] = e[k] /\ k \in 1..k
        BY <1>1, <2>1, <3>1
      <4> QED
        BY <1>3, <4>1
    <3>2. CASE i # Len(g) + 1
      <4>1. i \in 2..Len(g) /\ h[i] = g[i]
        BY <1>2, <2>1, <2>4, <3>2
      <4>2. PICK j \in 1..k - 1 : g[i] = e[j] /\ s[e[j]] # s[n]
        BY <4>1 DEF Kept
      <4> QED
        BY <1>1, <4>1, <4>2
    <3> QED
      BY <3>1, <3>2
  <2>5. ASSUME NEW i \in 1..Len(h), NEW j \in 1..i - 1 PROVE h[j] > h[i]
    <3>1. j \in 1..Len(g) /\ h[j] = g[j]
      BY <1>2, <2>1
    <3>2. CASE i = Len(g) + 1
      <4>1. h[i] = e[k]
        BY <2>1, <3>2
      <4>2. CASE j = 1
        BY <1>1, <3>1, <4>1, <4>2 DEF Kept, Entries
      <4>3. CASE j # 1
        <5>1. PICK m \in 1..k - 1 : g[j] = e[m]
          BY <1>2, <3>1, <4>3 DEF Kept
        <5>2. e[m] > e[k]
          BY <1>1, <5>1 DEF Entries
        <5> QED
          BY <3>1, <4>1, <5>1, <5>2
      <4> QED
        BY <4>2, <4>3
    <3>3. CASE i # Len(g) + 1
      <4>1. i \in 1..Len(g) /\ h[i] = g[i]
        BY <1>2, <2>1, <3>3
      <4>2. g[j] > g[i]
        BY <4>1 DEF Kept
      <4> QED
        BY <3>1, <4>1, <4>2
    <3> QED
      BY <3>2, <3>3
  <2>6. ASSUME NEW j \in 1..k, s[e[j]] # s[n]
        PROVE  \E i \in 1..Len(h) : h[i] = e[j]
    <3>1. CASE j = k
      BY <1>2, <2>1, <3>1
    <3>2. CASE j # k
      <4>1. j \in 1..k - 1
        BY <1>1, <3>2
      <4>2. PICK i \in 1..Len(g) : g[i] = e[j]
        BY <2>6, <4>1 DEF Kept
      <4> QED
        BY <1>2, <2>1, <4>2
    <3> QED
      BY <3>1, <3>2
  <2>7. Kept(e, s, n, k, h)
    BY <2>1, <2>2, <2>3, <2>4, <2>5, <2>6 DEF Kept
  <2> QED
    BY <1>3, <2>7 DEF h
<1>4. CASE s[e[k]] = s[n]
  <2>1. \A j \in 1..k - 1 : s[e[j]] # s[n]
    BY <1>1, <1>4 DEF Entries
  <2>2. Len(g) >= k
    BY <1>1, <1>2, <2>1 DEF Kept
  <2>3. ~\A j \in 1..k : s[e[j]] # s[n]
    BY <1>1, <1>4
  <2>4. \A i \in 2..Len(g) : \E j \in 1..k : g[i] = e[j] /\ s[e[j]] # s[n]
    <3> TAKE i \in 2..Len(g)
    <3>1. PICK j \in 1..k - 1 : g[i] = e[j] /\ s[e[j]] # s[n]
      BY DEF Kept
    <3> QED
      BY <1>1, <3>1
  <2>5. \A j \in 1..k : s[e[j]] # s[n] => \E i \in 1..Len(g) : g[i] = e[j]
    <3> TAKE j \in 1..k
    <3>1. j = k \/ j \in 1..k - 1
      BY <1>1
    <3> QED
      BY <1>4, <3>1 DEF Kept
  <2>6. Kept(e, s, n, k, g)
    BY <2>2, <2>3, <2>4, <2>5 DEF Kept
  <2> QED
    BY <1>4, <2>6
<1> QED
  BY <1>3, <1>4

\* After the last turn.
LEMMA KeptAtEnd ==
    ASSUME NEW e, NEW s, NEW n \in Nat, Entries(e, s, n),
           NEW f, Loops(e, s, n, Len(e), f)
    PROVE  Kept(e, s, n, Len(e), f[Len(e)])
<1> DEFINE Bad == {k \in 0..Len(e) : ~Kept(e, s, n, k, f[k])}
<1>1. Len(e) \in Nat
  BY DEF Entries
<1>2. SUFFICES ASSUME Bad # {} PROVE FALSE
  BY <1>1
<1>3. PICK k \in Bad : \A m \in Bad : k <= m
  <2>1. Bad \in SUBSET Nat
    BY <1>1
  <2> HIDE DEF Bad
  <2> QED
    BY <1>2, <2>1, LeastNumber
<1>4. k # 0
  <2>1. Kept(e, s, n, 0, <<n>>)
    BY DEF Kept
  <2>2. f[0] = <<n>>
    BY <1>1 DEF Loops
  <2> QED
    BY <1>3, <2>1, <2>2
<1>5. k \in 1..Len(e) /\ k - 1 \in 0..Len(e) /\ Kept(e, s, n, k - 1, f[k - 1])
  BY <1>1, <1>3, <1>4
<1>6. f[k] = IF s[e[k]] # s[n] THEN Append(f[k - 1], e[k]) ELSE f[k - 1]
  BY <1>3, <1>4 DEF Loops
<1> QED
  BY <1>3, <1>5, <1>6, KeptStep
------------------------------------------------------------------------------
(* The list of entries.                                                     *)

\* A message more: it is the newest one, and replaces that of its sender.
LEMMA NewestGrows ==
    ASSUME NEW s \in Seq(Senders), NEW x \in Senders
    PROVE  /\ \A m \in 0..Len(s) : Newest(Append(s, x), m) = Newest(s, m)
           /\ Newest(Append(s, x), Len(s) + 1) =
                  {Len(s) + 1} \cup {m \in Newest(s, Len(s)) : s[m] # x}
<1> DEFINE t == Append(s, x)
           n == Len(s) + 1
<1>1. /\ Len(s) \in Nat /\ n \in Nat /\ t[n] = x
      /\ \A i \in 1..Len(s) : t[i] = s[i]
  OBVIOUS
<1> HIDE DEF t
<1>2. \A m \in 0..Len(s) : Newest(t, m) = Newest(s, m)
  <2> TAKE m \in 0..Len(s)
  <2>1. \A i \in 1..m : t[i] = s[i] /\ \A k \in i + 1..m : t[k] = s[k]
    BY <1>1
  <2>2. \A i \in 1..m : (\A k \in i + 1..m : t[k] # t[i])
                            <=> \A k \in i + 1..m : s[k] # s[i]
    BY <2>1
  <2> QED
    BY <2>2 DEF Newest
<1>3. ASSUME NEW m \in 1..Len(s)
      PROVE  m \in Newest(t, n) <=> m \in Newest(s, Len(s)) /\ s[m] # x
  <2>1. m + 1..n = (m + 1..Len(s)) \cup {n} /\ m \in 1..n
    BY <1>1
  <2>2. /\ t[m] = s[m]
        /\ \A k \in m + 1..Len(s) : t[k] = s[k]
    BY <1>1
  <2> HIDE DEF n
  <2>3. m \in Newest(t, n) <=>
            (\A k \in m + 1..Len(s) : s[k] # s[m]) /\ x # s[m]
    BY <1>1, <2>1, <2>2 DEF Newest
  <2> QED
    BY <2>3 DEF Newest
<1>4. n \in Newest(t, n)
  BY <1>1 DEF Newest
<1>5. Newest(t, n) \subseteq 1..Len(s) \cup {n}
  BY <1>1 DEF Newest
<1>6. Newest(s, Len(s)) \subseteq 1..Len(s)
  BY DEF Newest
<1>7. Newest(t, n) = {n} \cup {m \in Newest(s, Len(s)) : s[m] # x}
  <2> HIDE DEF n
  <2> QED
    BY <1>3, <1>4, <1>5, <1>6
<1> QED
  BY <1>2, <1>7 DEF t

\* What was the right list at some moment is so for ever.
LEMMA RecentStays ==
    ASSUME NEW s \in Seq(Senders), NEW x \in Senders, NEW l,
           NEW m \in 0..Len(s), Recent(l, s, m)
    PROVE  Recent(l, Append(s, x), m)
<1>1. Newest(Append(s, x), m) = Newest(s, m)
  BY NewestGrows
<1> QED
  BY <1>1 DEF Recent

\* What First returns.
LEMMA FirstFacts ==
    ASSUME NEW g \in Seq(Nat)
    PROVE  /\ First(g) \in Seq(Nat)
           /\ Len(First(g)) = IF Len(g) < Capacity THEN Len(g) ELSE Capacity
           /\ \A i \in 1..Len(First(g)) : i \in 1..Len(g) /\ First(g)[i] = g[i]
<1>1. Capacity \in Nat \ {0} /\ Len(g) \in Nat
  BY BoundsAssumption
<1> QED
  BY <1>1 DEF First

\* push makes the right list from the right list.
LEMMA PushRecent ==
    ASSUME NEW s \in Seq(Senders), NEW x \in Senders,
           entries \in Seq(Nat), Recent(entries, s, Len(s))
    PROVE  LET l == Push(Len(s) + 1, Append(s, x)) IN
           l \in Seq(Nat) /\ Recent(l, Append(s, x), Len(s) + 1)
<1> DEFINE t == Append(s, x)
           n == Len(s) + 1
           l == Push(n, t)
           L == Len(entries)
<1>1. /\ Len(s) \in Nat /\ n \in Nat /\ t[n] = x
      /\ \A i \in 1..Len(s) : t[i] = s[i]
  OBVIOUS
<1>2. /\ L \in Nat /\ DOMAIN entries = 1..L
      /\ L <= Capacity /\ Capacity \in Nat \ {0}
      /\ \A k \in 1..L : entries[k] \in Newest(s, Len(s))
      /\ \A k \in 1..L : \A j \in 1..k - 1 : entries[j] > entries[k]
      /\ \A m \in Newest(s, Len(s)) :
            \/ \E k \in 1..L : entries[k] = m
            \/ L = Capacity /\ \A k \in 1..L : entries[k] > m
  BY BoundsAssumption DEF Recent
<1>3. Newest(t, n) = {n} \cup {m \in Newest(s, Len(s)) : s[m] # x}
  BY NewestGrows
<1> HIDE DEF t
<1>4. \A m \in Newest(s, Len(s)) :
          /\ m \in 1..Len(s) /\ m < n /\ t[m] = s[m]
          /\ \A k \in m + 1..Len(s) : s[k] # s[m]
  BY <1>1 DEF Newest
<1>5. Entries(entries, t, n)
  <2>1. ASSUME NEW k \in 1..L, NEW j \in 1..k - 1
        PROVE  t[entries[j]] # t[entries[k]]
    <3>1. j \in 1..L
      <4>1. L \in Nat
        BY <1>2
      <4> QED
        BY <4>1
    <3>2. /\ entries[j] \in 1..Len(s) /\ entries[k] \in 1..Len(s)
          /\ entries[j] > entries[k]
          /\ t[entries[j]] = s[entries[j]] /\ t[entries[k]] = s[entries[k]]
          /\ \A i \in entries[k] + 1..Len(s) : s[i] # s[entries[k]]
      BY <1>2, <1>4, <3>1
    <3>3. entries[j] \in entries[k] + 1..Len(s)
      BY <1>1, <3>2
    <3> QED
      BY <3>2, <3>3
  <2> QED
    BY <1>2, <1>4, <2>1 DEF Entries
<1>6. PICK g : Kept(entries, t, n, L, g) /\ l = First(g)
  <2>1. PICK f : Loops(entries, t, n, L, f) /\ l = First(f[L])
    BY <1>2, PushChosen
  <2>2. Kept(entries, t, n, L, f[L])
    BY <1>1, <1>5, <2>1, KeptAtEnd
  <2> QED
    BY <2>1, <2>2
<1> HIDE DEF l, n, L
<1>7. /\ g \in Seq(Nat) /\ Len(g) \in Nat /\ Len(g) >= 1 /\ g[1] = n
      /\ Len(g) >= L
      /\ \A i \in 2..Len(g) :
            \E j \in 1..L : g[i] = entries[j] /\ t[entries[j]] # t[n]
      /\ \A i \in 1..Len(g) : \A j \in 1..i - 1 : g[j] > g[i]
      /\ \A j \in 1..L :
            t[entries[j]] # t[n] => \E i \in 1..Len(g) : g[i] = entries[j]
  BY <1>6 DEF Kept
<1>8. /\ l \in Seq(Nat) /\ Len(l) \in Nat /\ DOMAIN l = 1..Len(l)
      /\ Len(l) = IF Len(g) < Capacity THEN Len(g) ELSE Capacity
      /\ \A i \in 1..Len(l) : i \in 1..Len(g) /\ l[i] = g[i]
  <2>1. /\ l \in Seq(Nat)
        /\ Len(l) = IF Len(g) < Capacity THEN Len(g) ELSE Capacity
        /\ \A i \in 1..Len(l) : i \in 1..Len(g) /\ l[i] = g[i]
    BY <1>6, <1>7, FirstFacts, Zenon
  <2>2. Len(l) \in Nat /\ DOMAIN l = 1..Len(l)
    BY <2>1
  <2> QED
    BY <2>1, <2>2
<1>9. \A i \in 1..Len(g) : g[i] \in Newest(t, n)
  <2> TAKE i \in 1..Len(g)
  <2>1. CASE i = 1
    BY <1>3, <1>7, <2>1
  <2>2. CASE i # 1
    <3>1. PICK j \in 1..L : g[i] = entries[j] /\ t[entries[j]] # t[n]
      BY <1>7, <2>2
    <3> QED
      BY <1>1, <1>2, <1>3, <1>4, <3>1 DEF n
  <2> QED
    BY <2>1, <2>2
<1>10. Len(l) <= Capacity
  BY <1>2, <1>7, <1>8
<1>11. \A k \in DOMAIN l :
           l[k] \in Newest(t, n) /\ \A j \in 1..k - 1 : l[j] > l[k]
  <2> TAKE k \in DOMAIN l
  <2>1. k \in 1..Len(g) /\ l[k] = g[k]
    BY <1>8
  <2>2. \A j \in 1..k - 1 : j \in 1..Len(l) /\ l[j] = g[j]
    BY <1>8
  <2> QED
    BY <1>7, <1>9, <2>1, <2>2
<1>12. ASSUME NEW m \in Newest(t, n)
       PROVE  \/ \E k \in DOMAIN l : l[k] = m
              \/ Len(l) = Capacity /\ \A k \in DOMAIN l : l[k] > m
  <2>1. CASE \E i \in 1..Len(g) : g[i] = m
    <3>1. PICK i \in 1..Len(g) : g[i] = m
      BY <2>1
    <3>2. CASE i <= Len(l)
      <4>1. i \in DOMAIN l /\ l[i] = g[i]
        BY <1>8, <3>2
      <4> QED
        BY <3>1, <4>1
    <3>3. CASE i > Len(l)
      <4>1. Len(l) = Capacity
        BY <1>2, <1>7, <1>8, <3>3
      <4>2. ASSUME NEW k \in 1..Len(l) PROVE l[k] > m
        <5>1. k \in 1..i - 1 /\ l[k] = g[k]
          BY <1>8, <3>3
        <5> QED
          BY <1>7, <3>1, <5>1
      <4> QED
        BY <1>8, <4>1, <4>2
    <3> QED
      BY <1>7, <1>8, <3>1, <3>2, <3>3
  <2>2. CASE ~\E i \in 1..Len(g) : g[i] = m
    <3>1. m \in Newest(s, Len(s)) /\ s[m] # x
      BY <1>3, <1>7, <2>2
    <3>2. ~\E k \in 1..L : entries[k] = m
      <4> SUFFICES ASSUME NEW k \in 1..L, entries[k] = m PROVE FALSE
        OBVIOUS
      <4>1. t[entries[k]] # t[n]
        BY <1>1, <1>4, <3>1 DEF n
      <4> QED
        BY <1>7, <2>2, <4>1
    <3>3. L = Capacity /\ \A k \in 1..L : entries[k] > m
      BY <1>2, <3>1, <3>2
    <3>4. Len(l) = Capacity
      BY <1>2, <1>7, <1>8, <3>3
    <3>5. ASSUME NEW k \in 1..Len(l) PROVE l[k] > m
      <4>1. l[k] = g[k] /\ k \in 1..Len(g)
        BY <1>8
      <4>2. CASE k = 1
        BY <1>4, <1>7, <3>1, <4>1, <4>2
      <4>3. CASE k # 1
        <5>1. PICK j \in 1..L : g[k] = entries[j]
          BY <1>7, <4>1, <4>3
        <5> QED
          BY <3>3, <4>1, <5>1
      <4> QED
        BY <4>2, <4>3
    <3> QED
      BY <1>8, <3>4, <3>5
  <2> QED
    BY <2>1, <2>2
<1>13. Recent(l, t, n)
  BY <1>10, <1>11, <1>12 DEF Recent
<1> QED
  BY <1>8, <1>13 DEF l, n, t

\* There is only one right list: one side of it.
LEMMA RecentAgrees ==
    ASSUME NEW s, NEW n \in Nat, NEW l \in Seq(Nat), NEW r \in Seq(Nat),
           Recent(l, s, n), Recent(r, s, n),
           NEW k \in 1..Len(l),
           \A j \in 1..k - 1 : j \in DOMAIN r /\ l[j] = r[j]
    PROVE  k \in DOMAIN r /\ l[k] <= r[k]
<1>1. /\ Capacity \in Nat /\ Len(l) \in Nat /\ Len(r) \in Nat
      /\ DOMAIN l = 1..Len(l) /\ DOMAIN r = 1..Len(r)
      /\ \A j \in 1..Len(l) : l[j] \in Nat
      /\ \A j \in 1..Len(r) : r[j] \in Nat
  BY BoundsAssumption
<1>2. l[k] \in Newest(s, n) /\ \A j \in 1..k - 1 : l[j] > l[k]
  BY <1>1 DEF Recent
<1>3. Len(l) <= Capacity
  BY DEF Recent
<1>4. \A j \in 1..Len(r) : \A i \in 1..j - 1 : r[i] > r[j]
  BY <1>1 DEF Recent
<1>5. \/ \E j \in 1..Len(r) : r[j] = l[k]
      \/ Len(r) = Capacity /\ \A j \in 1..Len(r) : r[j] > l[k]
  BY <1>1, <1>2 DEF Recent
<1>6. CASE \E j \in 1..Len(r) : r[j] = l[k]
  <2>1. PICK j \in 1..Len(r) : r[j] = l[k]
    BY <1>6
  <2>2. j >= k
    <3> SUFFICES ASSUME j < k PROVE FALSE
      BY <1>1
    <3>1. j \in 1..k - 1
      BY <1>1
    <3> QED
      BY <1>1, <1>2, <2>1, <3>1
  <2>3. k \in 1..Len(r) /\ (k = j \/ k \in 1..j - 1)
    BY <1>1, <2>2
  <2> QED
    BY <1>1, <1>4, <2>1, <2>3
<1>7. CASE Len(r) = Capacity /\ \A j \in 1..Len(r) : r[j] > l[k]
  <2>1. k \in 1..Len(r)
    BY <1>1, <1>3, <1>7
  <2> QED
    BY <1>1, <1>7, <2>1
<1> QED
  BY <1>5, <1>6, <1>7

\* There is only one right list after n messages.
THEOREM RecentIsOneList ==
    ASSUME NEW s, NEW n \in Nat, NEW l \in Seq(Nat), NEW r \in Seq(Nat),
           Recent(l, s, n), Recent(r, s, n)
    PROVE  l = r
<1> DEFINE Same(k) == k \in DOMAIN l /\ k \in DOMAIN r /\ l[k] = r[k]
           Bad == {k \in DOMAIN l \cup DOMAIN r : ~Same(k)}
<1>1. /\ Len(l) \in Nat /\ Len(r) \in Nat
      /\ DOMAIN l = 1..Len(l) /\ DOMAIN r = 1..Len(r)
      /\ \A j \in 1..Len(l) : l[j] \in Nat
      /\ \A j \in 1..Len(r) : r[j] \in Nat
  OBVIOUS
<1>2. Bad = {}
  <2> SUFFICES ASSUME Bad # {} PROVE FALSE
    OBVIOUS
  <2>1. Bad \in SUBSET Nat
    BY <1>1
  <2>2. PICK k \in Bad : \A j \in Bad : k <= j
    <3> HIDE DEF Bad
    <3> QED
      BY <2>1, LeastNumber
  <2>3. k \in Nat /\ k >= 1
    BY <1>1
  <2>4. \A j \in 1..k - 1 : Same(j)
    <3> TAKE j \in 1..k - 1
    <3>1. j \in DOMAIN l \cup DOMAIN r
      BY <1>1, <2>2
    <3> QED
      BY <2>2, <2>3, <3>1
  <2>5. k \in DOMAIN l => k \in DOMAIN r /\ l[k] <= r[k]
    BY <1>1, <2>4, RecentAgrees
  <2>6. k \in DOMAIN r => k \in DOMAIN l /\ r[k] <= l[k]
    BY <1>1, <2>4, RecentAgrees
  <2> QED
    BY <1>1, <2>2, <2>5, <2>6
<1>3. DOMAIN l = DOMAIN r /\ \A k \in DOMAIN l : l[k] = r[k]
  BY <1>2
<1> HIDE DEF Same, Bad
<1>4. Len(l) = Len(r)
  <2>1. 1..Len(l) = 1..Len(r)
    BY <1>1, <1>3
  <2>2. \A m \in Nat : Cardinality(1..m) = m
    BY FS_Interval
  <2>3. Cardinality(1..Len(l)) = Len(l) /\ Cardinality(1..Len(r)) = Len(r)
    BY <1>1, <2>2
  <2> QED
    BY <2>1, <2>3, Zenon
<1>5. \A k \in 1..Len(l) : l[k] = r[k]
  BY <1>1, <1>3
<1>6. l = [k \in 1..Len(l) |-> l[k]] /\ r = [k \in 1..Len(r) |-> r[k]]
  OBVIOUS
<1> QED
  BY <1>4, <1>5, <1>6, Zenon

\* Before any message the list is empty.
LEMMA RecentEmpty == Recent(<<>>, <<>>, 0)
BY BoundsAssumption DEF Recent, Newest
------------------------------------------------------------------------------
(* The inductive invariant.                                                 *)

Typed ==
    /\ chatters \in Usages
    /\ play \in 0..MaxPlays
    /\ entries \in Seq(Nat)
    /\ last_own \in Nat /\ signed \in Nat
    /\ pc \in [Actors -> Labels]
    /\ packet \in [Actors -> Packets]
    /\ seen \in [Plays -> Seq(Senders)]
    /\ sent \in Seq(Packets)

\* Later play states have no messages yet, and packets belong to a play state
\* that has begun; only chatters write them, and only chat is signed.
Placed ==
    /\ \A p \in Plays : p > play => seen[p] = <<>>
    /\ \A k \in DOMAIN sent : sent[k].play \in 1..play
    /\ \A a \in Actors : pc[a] # "free" =>
          /\ a \in chatters
          /\ packet[a].play \in 1..play
          /\ packet[a].kind \in {"chat", "command"}
          /\ pc[a] \in {"sign", "chain"} => packet[a].kind = "chat"

\* v is the signature of the last chat of play state p among the first n
\* packets of s, or 0.
Chat(q, p) == q.kind = "chat" /\ q.play = p
LinkTo(s, n, p, v) ==
    \/ v = 0 /\ \A j \in 1..n : ~Chat(s[j], p)
    \/ \E k \in 1..n :
          /\ Chat(s[k], p) /\ v = s[k].signature
          /\ \A j \in 1..n : Chat(s[j], p) => j <= k
Chained ==
    chatters = {Net} => \A k \in DOMAIN sent :
        sent[k].kind = "chat" =>
            LinkTo(sent, k - 1, sent[k].play, sent[k].previous)

\* What the networking thread signs next, or has signed, follows the last
\* message in the queue.
Linked ==
    chatters = {Net} /\ play # 0 =>
        LET q == packet[Net]
            current == \/ pc[Net] \in {"free", "sign"}
                       \/ pc[Net] = "append" /\ q.kind = "command"
        IN  /\ current => LinkTo(sent, Len(sent), play, last_own)
            /\ ~current => LinkTo(sent, Len(sent), play, q.previous)
            /\ ~current /\ pc[Net] = "append" => last_own = q.signature
            /\ pc[Net] # "free" => q.play = play

\* The list q.digest was right at one moment, no earlier than any of those
\* sent in s.
OrderlyAfter(q, s, n) ==
    /\ n \in 0..Len(seen[q.play])
    /\ Recent(q.digest, seen[q.play], n)
    /\ \A j \in DOMAIN s : s[j].play = q.play =>
          \E m \in 0..n : Recent(s[j].digest, seen[q.play], m)
Orderly(q, s) ==
    /\ q.digest = q.previous_messages
    /\ \E n \in Nat : OrderlyAfter(q, s, n)

\* So it is with what the only chatter is about to send.
Consistent ==
    Cardinality(chatters) = 1 =>
        \A a \in Actors : pc[a] # "free" => Orderly(packet[a], sent)

ChainInv ==
    /\ Typed /\ Placed
    /\ EntriesAreRecent
    /\ Linked /\ Chained
    /\ Consistent /\ ListsAreConsistent

\* A new packet belongs to the play state of the moment.
LEMMA BlankTyped ==
    ASSUME Typed, NEW k \in {"none", "chat", "command"}
    PROVE  /\ Blank(k) \in Packets
           /\ Blank(k).kind = k /\ Blank(k).play = play
BY DEF Typed, Blank, Packets

\* The packet that is begun has the list of entries twice.
LEMMA TakenFacts ==
    ASSUME Typed, NEW a \in Actors, TakeEntries(a)
    PROVE  \E q \in Packets :
              /\ packet' = [packet EXCEPT ![a] = q]
              /\ q.kind \in {"chat", "command"} /\ q.play = play
              /\ q.digest = entries /\ q.previous_messages = entries
              /\ pc' = [pc EXCEPT ![a] = IF q.kind = "chat" THEN "sign"
                                                            ELSE "append"]
<1>1. PICK kind \in {"chat", "command"} :
          /\ packet' = [packet EXCEPT
                ![a] = [Blank(kind) EXCEPT !.digest = entries,
                                           !.previous_messages = entries]]
          /\ pc' = [pc EXCEPT ![a] = IF kind = "chat" THEN "sign" ELSE "append"]
  BY DEF TakeEntries, Goto
<1> DEFINE q == [Blank(kind) EXCEPT !.digest = entries,
                                    !.previous_messages = entries]
<1>2. /\ q \in Packets /\ q.kind = kind /\ q.play = play
      /\ q.digest = entries /\ q.previous_messages = entries
  BY BlankTyped DEF Typed, Packets, Blank
<1> HIDE DEF q
<1>3. packet' = [packet EXCEPT ![a] = q]
  BY <1>1 DEF q
<1> QED
  BY <1>1, <1>2, <1>3

\* The packet that is signed keeps everything but the two signatures.
LEMMA SignedFacts ==
    ASSUME Typed, NEW a \in Actors, Sign(a)
    PROVE  \E q \in Packets :
              /\ packet' = [packet EXCEPT ![a] = q]
              /\ q.kind = packet[a].kind /\ q.play = packet[a].play
              /\ q.digest = packet[a].digest
              /\ q.previous_messages = packet[a].previous_messages
              /\ q.previous = last_own
<1> DEFINE q == [packet[a] EXCEPT !.signature = signed + 1,
                                  !.previous = last_own]
<1>1. /\ q \in Packets
      /\ q.kind = packet[a].kind /\ q.play = packet[a].play
      /\ q.digest = packet[a].digest
      /\ q.previous_messages = packet[a].previous_messages
      /\ q.previous = last_own
  <2>1. /\ packet[a] \in Packets
        /\ signed + 1 \in Nat /\ last_own \in Nat
    BY DEF Typed
  <2> QED
    BY <2>1 DEF Packets
<1>2. packet' = [packet EXCEPT ![a] = q]
  BY DEF Sign, Typed
<1> HIDE DEF q
<1> QED
  BY <1>1, <1>2

\* A packet more in the queue.
LEMMA SentFacts ==
    ASSUME NEW s \in Seq(Packets), NEW q \in Packets
    PROVE  /\ Append(s, q) \in Seq(Packets)
           /\ DOMAIN s = 1..Len(s) /\ Len(s) \in Nat
           /\ DOMAIN Append(s, q) = 1..Len(s) + 1
           /\ \A k \in DOMAIN s : Append(s, q)[k] = s[k]
           /\ Append(s, q)[Len(s) + 1] = q
OBVIOUS

\* The invariant holds initially: nothing is seen or sent.
LEMMA InitInv == Init => ChainInv
<1> SUFFICES ASSUME Init PROVE ChainInv
  OBVIOUS
<1>1. Typed
  <2>1. play \in 0..MaxPlays /\ <<>> \in Seq(Nat)
    BY BoundsAssumption DEF Init
  <2>2. Blank("none") \in Packets
    BY <2>1 DEF Init, Blank, Packets
  <2> QED
    BY <2>1, <2>2 DEF Init, Typed, Labels
<1>2. Placed
  BY DEF Init, Placed
<1>3. EntriesAreRecent /\ Linked /\ Chained /\ ListsAreConsistent
  BY DEF Init, EntriesAreRecent, Linked, Chained, ListsAreConsistent
<1>4. Consistent
  BY DEF Init, Consistent
<1> QED
  BY <1>1, <1>2, <1>3, <1>4 DEF ChainInv

\* A message arrives: the right list, and nothing else is changed.
LEMMA PlayerChatFacts ==
    ASSUME Typed, EntriesAreRecent, PlayerChat
    PROVE  \E x \in Senders :
              LET t == Append(seen[play], x) IN
              /\ play \in Plays
              /\ t \in Seq(Senders) /\ Len(t) = Len(seen[play]) + 1
              /\ seen' = [seen EXCEPT ![play] = t]
              /\ entries' \in Seq(Nat)
              /\ Recent(entries', t, Len(t))
<1>1. play \in Plays /\ seen[play] \in Seq(Senders)
  <2>1. MaxPlays \in Nat /\ play \in 0..MaxPlays /\ play # 0
    BY BoundsAssumption DEF PlayerChat, Typed
  <2>2. play \in Plays
    BY <2>1 DEF Plays
  <2> QED
    BY <2>2 DEF Typed
<1>2. Recent(entries, seen[play], Len(seen[play])) /\ entries \in Seq(Nat)
  BY DEF EntriesAreRecent, PlayerChat, Typed
<1>3. PICK x \in Senders :
          /\ seen' = [seen EXCEPT ![play] = Append(seen[play], x)]
          /\ entries' = Push(Len(Append(seen[play], x)), Append(seen[play], x))
  BY DEF PlayerChat
<1>4. /\ Append(seen[play], x) \in Seq(Senders)
      /\ Len(Append(seen[play], x)) = Len(seen[play]) + 1
  BY <1>1
<1>5. /\ entries' \in Seq(Nat)
      /\ Recent(entries', Append(seen[play], x), Len(seen[play]) + 1)
  BY <1>1, <1>2, <1>3, <1>4, PushRecent
<1> QED
  BY <1>1, <1>3, <1>4, <1>5

\* Every step keeps the types, what belongs where, and the right entries.
LEMMA NextTyped ==
    ASSUME Typed, Placed, EntriesAreRecent, Next
    PROVE  Typed' /\ Placed' /\ EntriesAreRecent'
<1>1. MaxPlays \in Nat
  BY BoundsAssumption
<1>2. CASE JoinGame
  <2>1. /\ play \in 0..MaxPlays /\ play < MaxPlays /\ play' = play + 1
    BY <1>1, <1>2 DEF JoinGame, Typed
  <2>2. Typed'
    <3>1. play' \in 0..MaxPlays /\ entries' \in Seq(Nat) /\ last_own' \in Nat
      BY <1>1, <1>2, <2>1 DEF JoinGame
    <3> QED
      BY <1>2, <3>1 DEF JoinGame, Typed
  <2>3. /\ \A p \in Plays : p > play' => p > play
        /\ 1..play \subseteq 1..play'
        /\ play' \in Plays /\ play' > play
    BY <1>1, <2>1 DEF Plays
  <2>4. Placed'
    BY <1>2, <2>3 DEF JoinGame, Placed
  <2>5. EntriesAreRecent'
    <3>1. seen'[play'] = <<>> /\ entries' = <<>>
      BY <1>2, <2>3 DEF JoinGame, Placed
    <3> QED
      BY <3>1, RecentEmpty DEF EntriesAreRecent
  <2> QED
    BY <2>2, <2>4, <2>5
<1>3. CASE PlayerChat
  <2>1. PICK x \in Senders :
              LET t == Append(seen[play], x) IN
              /\ play \in Plays
              /\ t \in Seq(Senders) /\ Len(t) = Len(seen[play]) + 1
              /\ seen' = [seen EXCEPT ![play] = t]
              /\ entries' \in Seq(Nat)
              /\ Recent(entries', t, Len(t))
    BY <1>3, PlayerChatFacts
  <2>2. UNCHANGED <<chatters, play, last_own, signed, pc, packet, sent>>
    BY <1>3 DEF PlayerChat
  <2>3. seen' \in [Plays -> Seq(Senders)] /\ seen'[play] = Append(seen[play], x)
    BY <2>1 DEF Typed
  <2>4. Typed'
    BY <2>1, <2>2, <2>3 DEF Typed
  <2>5. \A p \in Plays : p > play' => seen'[p] = <<>>
    BY <2>1, <2>2 DEF Placed, Typed, Plays
  <2>6. Placed'
    BY <2>2, <2>5 DEF Placed
  <2>7. EntriesAreRecent'
    BY <2>1, <2>2, <2>3 DEF EntriesAreRecent
  <2> QED
    BY <2>4, <2>6, <2>7
<1>4. ASSUME NEW a \in Actors, TakeEntries(a)
      PROVE  Typed' /\ Placed' /\ EntriesAreRecent'
  <2>1. PICK q \in Packets :
              /\ packet' = [packet EXCEPT ![a] = q]
              /\ q.kind \in {"chat", "command"} /\ q.play = play
              /\ q.digest = entries /\ q.previous_messages = entries
              /\ pc' = [pc EXCEPT ![a] = IF q.kind = "chat" THEN "sign"
                                                            ELSE "append"]
    BY <1>4, TakenFacts
  <2>2. /\ UNCHANGED <<chatters, play, entries, last_own, signed, seen, sent>>
        /\ a \in chatters /\ play # 0
    BY <1>4 DEF TakeEntries
  <2>3. Typed'
    BY <2>1, <2>2 DEF Typed, Labels
  <2>4. play \in 1..play
    BY <1>1, <2>2 DEF Typed
  <2>5. \A b \in Actors :
            IF b = a THEN /\ packet'[b] = q
                          /\ pc'[b] = IF q.kind = "chat" THEN "sign"
                                                         ELSE "append"
            ELSE packet'[b] = packet[b] /\ pc'[b] = pc[b]
    BY <2>1 DEF Typed
  <2>6. Placed'
    BY <2>1, <2>2, <2>4, <2>5 DEF Placed
  <2>7. EntriesAreRecent'
    BY <2>2 DEF EntriesAreRecent
  <2> QED
    BY <2>3, <2>6, <2>7
<1>5. ASSUME NEW a \in Actors, Sign(a)
      PROVE  Typed' /\ Placed' /\ EntriesAreRecent'
  <2>1. PICK q \in Packets :
              /\ packet' = [packet EXCEPT ![a] = q]
              /\ q.kind = packet[a].kind /\ q.play = packet[a].play
    BY <1>5, SignedFacts
  <2>2. /\ UNCHANGED <<chatters, play, entries, last_own, seen, sent>>
        /\ pc[a] = "sign" /\ pc' = [pc EXCEPT ![a] = "chain"]
        /\ signed' = signed + 1
    BY <1>5 DEF Sign, Goto
  <2>3. Typed'
    BY <2>1, <2>2 DEF Typed, Labels
  <2>4. \A b \in Actors :
            IF b = a THEN packet'[b] = q /\ pc'[b] = "chain"
            ELSE packet'[b] = packet[b] /\ pc'[b] = pc[b]
    BY <2>1, <2>2 DEF Typed
  <2>5. Placed'
    BY <2>1, <2>2, <2>4 DEF Placed
  <2>6. EntriesAreRecent'
    BY <2>2 DEF EntriesAreRecent
  <2> QED
    BY <2>3, <2>5, <2>6
<1>6. ASSUME NEW a \in Actors, Chain(a)
      PROVE  Typed' /\ Placed' /\ EntriesAreRecent'
  <2>1. /\ UNCHANGED <<chatters, play, entries, signed, packet, seen, sent>>
        /\ pc[a] = "chain" /\ pc' = [pc EXCEPT ![a] = "append"]
        /\ last_own' = packet[a].signature
    BY <1>6 DEF Chain, Goto
  <2>2. Typed'
    <3>1. last_own' \in Nat
      BY <2>1 DEF Typed, Packets
    <3> QED
      BY <2>1, <3>1 DEF Typed, Labels
  <2>3. \A b \in Actors : pc'[b] = IF b = a THEN "append" ELSE pc[b]
    BY <2>1 DEF Typed
  <2>4. Placed'
    BY <2>1, <2>3 DEF Placed
  <2>5. EntriesAreRecent'
    BY <2>1 DEF EntriesAreRecent
  <2> QED
    BY <2>2, <2>4, <2>5
<1>7. ASSUME NEW a \in Actors, AppendChat(a)
      PROVE  Typed' /\ Placed' /\ EntriesAreRecent'
  <2>1. /\ UNCHANGED <<chatters, play, entries, last_own, signed, seen>>
        /\ pc[a] = "append" /\ pc' = [pc EXCEPT ![a] = "free"]
        /\ sent' = Append(sent, packet[a])
        /\ packet' = [packet EXCEPT ![a] = Blank("none")]
    BY <1>7 DEF AppendChat, Goto
  <2>2. Blank("none") \in Packets /\ packet[a] \in Packets
    BY BlankTyped DEF Typed
  <2>3. /\ sent' \in Seq(Packets)
        /\ \A k \in DOMAIN sent' :
              (k \in DOMAIN sent /\ sent'[k] = sent[k]) \/ sent'[k] = packet[a]
    BY <2>1, <2>2, SentFacts DEF Typed
  <2>4. Typed'
    BY <2>1, <2>2, <2>3 DEF Typed, Labels
  <2>5. \A b \in Actors :
            IF b = a THEN pc'[b] = "free"
            ELSE packet'[b] = packet[b] /\ pc'[b] = pc[b]
    BY <2>1 DEF Typed
  <2>6. packet[a].play \in 1..play
    BY <2>1 DEF Placed
  <2>7. Placed'
    BY <2>1, <2>3, <2>5, <2>6 DEF Placed
  <2>8. EntriesAreRecent'
    BY <2>1 DEF EntriesAreRecent
  <2> QED
    BY <2>4, <2>7, <2>8
<1> QED
  BY <1>2, <1>3, <1>4, <1>5, <1>6, <1>7 DEF Next
------------------------------------------------------------------------------
(* The chain of signatures.                                                 *)

\* What begins with the same packets has the same links there.
LEMMA LinkSame ==
    ASSUME NEW s, NEW t, NEW n \in Nat, \A k \in 1..n : t[k] = s[k],
           NEW p, NEW v
    PROVE  LinkTo(s, n, p, v) <=> LinkTo(t, n, p, v)
BY DEF LinkTo

\* One packet further that is no chat of this play state.
LEMMA LinkKept ==
    ASSUME NEW s, NEW n \in Nat, NEW p, NEW v, ~Chat(s[n + 1], p),
           LinkTo(s, n, p, v)
    PROVE  LinkTo(s, n + 1, p, v)
<1>1. 1..n + 1 = 1..n \cup {n + 1}
  OBVIOUS
<1>2. CASE v = 0 /\ \A j \in 1..n : ~Chat(s[j], p)
  BY <1>1, <1>2 DEF LinkTo
<1>3. CASE \E k \in 1..n :
              /\ Chat(s[k], p) /\ v = s[k].signature
              /\ \A j \in 1..n : Chat(s[j], p) => j <= k
  BY <1>1, <1>3 DEF LinkTo
<1> QED
  BY <1>2, <1>3 DEF LinkTo

\* One packet further that is one.
LEMMA LinkMoves ==
    ASSUME NEW s, NEW n \in Nat, s[n + 1].kind = "chat"
    PROVE  LinkTo(s, n + 1, s[n + 1].play, s[n + 1].signature)
<1>1. n + 1 \in 1..n + 1 /\ \A j \in 1..n + 1 : j <= n + 1
  OBVIOUS
<1>2. Chat(s[n + 1], s[n + 1].play)
  BY DEF Chat
<1> QED
  BY <1>1, <1>2 DEF LinkTo

\* The links are what the property asks for.
LEMMA ChainedLinks == Typed /\ Chained => ChainLinked
<1> SUFFICES ASSUME Typed, Chained, chatters = {Net},
                    NEW k \in DOMAIN sent, sent[k].kind = "chat"
             PROVE  LET before == {j \in Chats(sent[k].play) : j < k} IN
                    IF before = {} THEN sent[k].previous = 0
                    ELSE sent[k].previous = sent[Max(before)].signature
  BY DEF ChainLinked
<1> DEFINE p == sent[k].play
           v == sent[k].previous
           before == {j \in Chats(p) : j < k}
<1>1. /\ k \in Nat /\ k - 1 \in Nat
      /\ \A j : j \in before <=> j \in 1..k - 1 /\ Chat(sent[j], p)
  BY DEF Typed, Chats, Chat
<1>2. LinkTo(sent, k - 1, p, v)
  BY DEF Chained
<1> HIDE DEF before, p, v
<1>3. CASE v = 0 /\ \A j \in 1..k - 1 : ~Chat(sent[j], p)
  <2>1. before = {}
    BY <1>1, <1>3
  <2> QED
    BY <1>3, <2>1 DEF before, p, v
<1>4. CASE \E m \in 1..k - 1 :
              /\ Chat(sent[m], p) /\ v = sent[m].signature
              /\ \A j \in 1..k - 1 : Chat(sent[j], p) => j <= m
  <2>1. PICK m \in 1..k - 1 :
              /\ Chat(sent[m], p) /\ v = sent[m].signature
              /\ \A j \in 1..k - 1 : Chat(sent[j], p) => j <= m
    BY <1>4
  <2>2. m \in before /\ m \in Nat /\ \A j \in before : j \in Nat /\ m >= j
    BY <1>1, <2>1
  <2>3. Max(before) = m
    <3>1. \A x \in before : (\A y \in before : x >= y) => x = m
      BY <2>2
    <3>2. \E x \in before : \A y \in before : x >= y
      BY <2>2
    <3>3. /\ Max(before) \in before
          /\ \A y \in before : Max(before) >= y
      BY <3>2, Zenon DEF Max
    <3> QED
      BY <3>1, <3>3
  <2> QED
    BY <2>1, <2>2, <2>3 DEF before, p, v
<1> QED
  BY <1>2, <1>3, <1>4 DEF LinkTo, before, p, v

\* The links of the queue stay when one more packet is appended.
LEMMA ChainGrows ==
    ASSUME sent \in Seq(Packets), Chained, chatters' = chatters,
           NEW q \in Packets, sent' = Append(sent, q),
           chatters = {Net} /\ q.kind = "chat" =>
               LinkTo(sent, Len(sent), q.play, q.previous)
    PROVE  Chained'
<1> DEFINE n == Len(sent)
<1>1. /\ DOMAIN sent = 1..n /\ n \in Nat
      /\ DOMAIN sent' = 1..n + 1
      /\ \A k \in 1..n : sent'[k] = sent[k]
      /\ sent'[n + 1] = q
  BY SentFacts
<1> HIDE DEF n
<1>2. SUFFICES ASSUME chatters = {Net}, NEW k \in 1..n + 1,
                      sent'[k].kind = "chat"
               PROVE  LinkTo(sent', k - 1, sent'[k].play, sent'[k].previous)
  BY <1>1 DEF Chained
<1>3. k - 1 \in Nat /\ \A i \in 1..k - 1 : sent'[i] = sent[i]
  BY <1>1
<1>4. LinkTo(sent, k - 1, sent'[k].play, sent'[k].previous)
  <2>1. CASE k \in 1..n
    BY <1>1, <1>2, <2>1 DEF Chained
  <2>2. CASE k = n + 1
    BY <1>1, <1>2, <2>2 DEF n
  <2> QED
    BY <1>1, <2>1, <2>2
<1> QED
  BY <1>3, <1>4, LinkSame

\* The chain goes on from what has been queued, in each step of the
\* networking thread; no other thread has a step when it writes all chat.
LEMMA NextLinked ==
    ASSUME Typed, Placed, Linked, Chained, Next
    PROVE  Linked' /\ Chained'
<1>1. Net \in Actors
  BY DEF Actors
<1>2. CASE JoinGame
  <2>1. /\ pc[Net] = "free" /\ play' = play + 1 /\ last_own' = 0
        /\ UNCHANGED <<chatters, signed, pc, packet, seen, sent>>
        /\ play \in Nat
    BY <1>2, BoundsAssumption DEF JoinGame, Typed
  <2>2. \A j \in 1..Len(sent) : ~Chat(sent[j], play')
    <3>1. DOMAIN sent = 1..Len(sent)
      BY DEF Typed
    <3>2. \A j \in DOMAIN sent : sent[j].play # play'
      BY <2>1 DEF Placed
    <3> QED
      BY <3>1, <3>2 DEF Chat
  <2>3. LinkTo(sent, Len(sent), play', last_own')
    BY <2>1, <2>2 DEF LinkTo
  <2>4. Linked'
    BY <2>1, <2>3 DEF Linked
  <2>5. Chained'
    BY <2>1 DEF Chained
  <2> QED
    BY <2>4, <2>5
<1>3. CASE PlayerChat
  <2>1. UNCHANGED <<chatters, play, last_own, signed, pc, packet, sent>>
    BY <1>3 DEF PlayerChat
  <2> QED
    BY <2>1 DEF Linked, Chained
<1>4. \A a \in Actors :
          TakeEntries(a) \/ Sign(a) \/ Chain(a) \/ AppendChat(a) =>
              a \in chatters /\ chatters' = chatters
  BY DEF TakeEntries, Sign, Chain, AppendChat, Placed
<1>5. ASSUME NEW a \in Actors, TakeEntries(a) PROVE Linked' /\ Chained'
  <2>1. PICK q \in Packets :
              /\ packet' = [packet EXCEPT ![a] = q]
              /\ q.kind \in {"chat", "command"} /\ q.play = play
              /\ pc' = [pc EXCEPT ![a] = IF q.kind = "chat" THEN "sign"
                                                            ELSE "append"]
    BY <1>5, TakenFacts
  <2>2. /\ UNCHANGED <<chatters, play, entries, last_own, signed, seen, sent>>
        /\ pc[a] = "free"
    BY <1>5 DEF TakeEntries
  <2>3. ASSUME chatters = {Net}, play # 0 PROVE Linked'
    <3>1. a = Net
      BY <1>4, <1>5, <2>3
    <3>2. packet'[Net] = q /\ pc'[Net] = IF q.kind = "chat" THEN "sign"
                                                            ELSE "append"
      BY <1>1, <2>1, <3>1 DEF Typed
    <3>3. LinkTo(sent, Len(sent), play, last_own)
      BY <2>2, <2>3, <3>1 DEF Linked
    <3> QED
      BY <2>1, <2>2, <3>2, <3>3 DEF Linked
  <2> QED
    BY <2>2, <2>3 DEF Linked, Chained
<1>6. ASSUME NEW a \in Actors, Sign(a) PROVE Linked' /\ Chained'
  <2>1. PICK q \in Packets :
              /\ packet' = [packet EXCEPT ![a] = q]
              /\ q.kind = packet[a].kind /\ q.play = packet[a].play
              /\ q.previous = last_own
    BY <1>6, SignedFacts
  <2>2. /\ UNCHANGED <<chatters, play, entries, last_own, seen, sent>>
        /\ pc[a] = "sign" /\ pc' = [pc EXCEPT ![a] = "chain"]
    BY <1>6 DEF Sign, Goto
  <2>3. ASSUME chatters = {Net}, play # 0 PROVE Linked'
    <3>1. a = Net
      BY <1>4, <1>6, <2>3
    <3>2. packet'[Net] = q /\ pc'[Net] = "chain"
      BY <1>1, <2>1, <2>2, <3>1 DEF Typed
    <3>3. LinkTo(sent, Len(sent), play, last_own) /\ q.play = play
      BY <2>1, <2>2, <2>3, <3>1 DEF Linked
    <3> QED
      BY <2>1, <2>2, <3>2, <3>3 DEF Linked
  <2> QED
    BY <2>2, <2>3 DEF Linked, Chained
<1>7. ASSUME NEW a \in Actors, Chain(a) PROVE Linked' /\ Chained'
  <2>1. /\ UNCHANGED <<chatters, play, entries, signed, packet, seen, sent>>
        /\ pc[a] = "chain" /\ pc' = [pc EXCEPT ![a] = "append"]
        /\ last_own' = packet[a].signature
    BY <1>7 DEF Chain, Goto
  <2>2. ASSUME chatters = {Net}, play # 0 PROVE Linked'
    <3>1. a = Net
      BY <1>4, <1>7, <2>2
    <3>2. pc'[Net] = "append" /\ packet[Net].kind = "chat"
      BY <1>1, <2>1, <3>1 DEF Typed, Placed
    <3>3. /\ LinkTo(sent, Len(sent), play, packet[Net].previous)
          /\ packet[Net].play = play
      BY <2>1, <2>2, <3>1 DEF Linked
    <3> QED
      BY <2>1, <3>1, <3>2, <3>3 DEF Linked
  <2> QED
    BY <2>1, <2>2 DEF Linked, Chained
<1>8. ASSUME NEW a \in Actors, AppendChat(a) PROVE Linked' /\ Chained'
  <2>1. /\ UNCHANGED <<chatters, play, entries, last_own, signed, seen>>
        /\ pc[a] = "append" /\ pc' = [pc EXCEPT ![a] = "free"]
        /\ sent' = Append(sent, packet[a])
    BY <1>8 DEF AppendChat, Goto
  <2> DEFINE q == packet[a]
             n == Len(sent)
  <2>2. /\ q \in Packets /\ sent \in Seq(Packets)
        /\ q.kind \in {"chat", "command"} /\ q.play \in 1..play
    BY <2>1 DEF Typed, Placed
  <2>3. /\ n \in Nat /\ Len(sent') = n + 1
        /\ \A k \in 1..n : sent'[k] = sent[k]
        /\ sent'[n + 1] = q
    BY <2>1, <2>2
  <2>4. play # 0
    BY <2>2
  <2> HIDE DEF q, n
  <2>5. ASSUME chatters = {Net}
        PROVE  /\ a = Net /\ q.play = play
               /\ q.kind = "chat" => /\ LinkTo(sent, n, play, q.previous)
                                     /\ last_own = q.signature
               /\ q.kind = "command" => LinkTo(sent, n, play, last_own)
    <3>1. a = Net
      BY <1>4, <1>8, <2>5
    <3> QED
      BY <2>1, <2>4, <2>5, <3>1 DEF Linked, q, n
  <2>6. Chained'
    BY <2>1, <2>2, <2>5, ChainGrows DEF q, n
  <2>7. ASSUME chatters = {Net} PROVE LinkTo(sent', n + 1, play, last_own)
    <3>1. CASE q.kind = "chat"
      BY <2>3, <2>5, <2>7, <3>1, LinkMoves
    <3>2. CASE q.kind = "command"
      <4>1. LinkTo(sent', n, play, last_own)
        BY <2>3, <2>5, <2>7, <3>2, LinkSame
      <4>2. ~Chat(sent'[n + 1], play)
        BY <2>3, <3>2 DEF Chat
      <4> QED
        BY <2>3, <4>1, <4>2, LinkKept
    <3> QED
      BY <2>2, <3>1, <3>2
  <2>8. ASSUME chatters = {Net} PROVE Linked'
    <3>1. pc'[Net] = "free"
      BY <1>1, <2>1, <2>5, <2>8 DEF Typed
    <3>2. LinkTo(sent', Len(sent'), play', last_own')
      BY <2>1, <2>3, <2>7, <2>8
    <3> QED
      BY <3>1, <3>2 DEF Linked
  <2> QED
    BY <2>1, <2>6, <2>8 DEF Linked
<1> QED
  BY <1>2, <1>3, <1>5, <1>6, <1>7, <1>8 DEF Next
------------------------------------------------------------------------------
(* The lists that are signed and sent.                                      *)

\* One chatter only: no two threads are writing.
LEMMA OneChatter ==
    ASSUME Typed, Cardinality(chatters) = 1,
           NEW a \in chatters, NEW b \in chatters
    PROVE  a = b
<1>1. IsFiniteSet(chatters)
  BY UsagesAssumption DEF Typed
<1>2. PICK c : chatters = {c}
  BY <1>1, FS_Singleton
<1> QED
  BY <1>2

\* When a message arrives, every list stays the right one of its moment.
LEMMA MomentsStay ==
    ASSUME Typed, play \in Plays, NEW x \in Senders,
           seen' = [seen EXCEPT ![play] = Append(seen[play], x)],
           NEW p \in Plays
    PROVE  /\ Len(seen[p]) \in Nat /\ Len(seen'[p]) \in Nat
           /\ Len(seen[p]) <= Len(seen'[p])
           /\ \A l : \A n \in 0..Len(seen[p]) :
                 Recent(l, seen[p], n) => Recent(l, seen'[p], n)
<1>1. seen[p] \in Seq(Senders) /\ seen[play] \in Seq(Senders)
  BY DEF Typed
<1>2. CASE p = play
  <2>1. seen'[p] = Append(seen[p], x)
    BY <1>2 DEF Typed
  <2>2. /\ Len(seen[p]) \in Nat /\ Len(seen'[p]) = Len(seen[p]) + 1
    BY <1>1, <2>1
  <2>3. \A l : \A n \in 0..Len(seen[p]) :
            Recent(l, seen[p], n) => Recent(l, seen'[p], n)
    BY <1>1, <2>1, RecentStays, Zenon
  <2> QED
    BY <2>2, <2>3
<1>3. CASE p # play
  <2>1. seen'[p] = seen[p]
    BY <1>3 DEF Typed
  <2> QED
    BY <1>1, <2>1
<1> QED
  BY <1>2, <1>3

\* The first part of the next packet's moment: what is taken now is the right
\* list of now, and whatever has been sent was right by now.
LEMMA TakenOrderly ==
    ASSUME Typed, Placed, EntriesAreRecent, ListsAreConsistent,
           Cardinality(chatters) = 1, play # 0,
           NEW q \in Packets, q.play = play,
           q.digest = entries, q.previous_messages = entries
    PROVE  Orderly(q, sent)
<1>1. play \in Plays
  BY BoundsAssumption DEF Typed, Plays
<1> DEFINE n == Len(seen[play])
<1>2. n \in Nat /\ n \in 0..n
  BY <1>1 DEF Typed
<1>3. Recent(q.digest, seen[play], n)
  BY DEF EntriesAreRecent
<1> HIDE DEF n
<1>4. ASSUME NEW j \in DOMAIN sent, sent[j].play = play
      PROVE  \E m \in 0..n : Recent(sent[j].digest, seen[play], m)
  BY <1>4 DEF ListsAreConsistent, n
<1>5. OrderlyAfter(q, sent, n)
  BY <1>2, <1>3, <1>4 DEF OrderlyAfter, n
<1> QED
  BY <1>2, <1>5 DEF Orderly

\* What is in order stays so when messages arrive.
LEMMA ArrivalOrderly ==
    ASSUME Typed, Placed, play \in Plays, NEW x \in Senders,
           seen' = [seen EXCEPT ![play] = Append(seen[play], x)],
           NEW q \in Packets, q.play \in Plays, Orderly(q, sent)
    PROVE  /\ q.digest = q.previous_messages
           /\ \E n \in 0..Len(seen'[q.play]) :
                 /\ Recent(q.digest, seen'[q.play], n)
                 /\ \A j \in DOMAIN sent : sent[j].play = q.play =>
                       \E m \in 0..n : Recent(sent[j].digest, seen'[q.play], m)
<1>1. PICK n \in Nat : OrderlyAfter(q, sent, n)
  BY DEF Orderly
<1>2. /\ n \in 0..Len(seen[q.play])
      /\ Recent(q.digest, seen[q.play], n)
      /\ \A j \in DOMAIN sent : sent[j].play = q.play =>
            \E m \in 0..n : Recent(sent[j].digest, seen[q.play], m)
  BY <1>1 DEF OrderlyAfter
<1>3. /\ Len(seen[q.play]) \in Nat /\ Len(seen'[q.play]) \in Nat
      /\ Len(seen[q.play]) <= Len(seen'[q.play])
      /\ \A l : \A m \in 0..Len(seen[q.play]) :
            Recent(l, seen[q.play], m) => Recent(l, seen'[q.play], m)
  BY MomentsStay
<1>4. /\ n \in 0..Len(seen'[q.play])
      /\ 0..n \subseteq 0..Len(seen[q.play])
  BY <1>2, <1>3
<1>5. Recent(q.digest, seen'[q.play], n)
  BY <1>2, <1>3
<1>6. ASSUME NEW j \in DOMAIN sent, sent[j].play = q.play
      PROVE  \E m \in 0..n : Recent(sent[j].digest, seen'[q.play], m)
  <2>1. PICK m \in 0..n : Recent(sent[j].digest, seen[q.play], m)
    BY <1>2, <1>6
  <2> QED
    BY <1>3, <1>4, <2>1
<1> QED
  BY <1>4, <1>5, <1>6 DEF Orderly

\* What has been sent stays in order when messages arrive.
LEMMA ArrivalSent ==
    ASSUME Typed, Placed, ListsAreConsistent, play \in Plays,
           NEW x \in Senders,
           seen' = [seen EXCEPT ![play] = Append(seen[play], x)],
           UNCHANGED <<chatters, sent>>
    PROVE  ListsAreConsistent'
<1> SUFFICES ASSUME Cardinality(chatters) = 1, NEW k \in DOMAIN sent
             PROVE  /\ sent[k].digest = sent[k].previous_messages
                    /\ \E n \in 0..Len(seen'[sent[k].play]) :
                          /\ Recent(sent[k].digest, seen'[sent[k].play], n)
                          /\ \A j \in {j \in 1..k - 1 :
                                          sent[j].play = sent[k].play} :
                                \E m \in 0..n : Recent(sent[j].digest,
                                                   seen'[sent[k].play], m)
  BY DEF ListsAreConsistent
<1> DEFINE p == sent[k].play
<1>1. p \in Plays
  <2>1. p \in 1..play /\ play \in 1..MaxPlays /\ MaxPlays \in Nat
    BY BoundsAssumption DEF Placed, Plays
  <2> QED
    BY <2>1 DEF Plays
<1>2. sent[k].digest = sent[k].previous_messages
  BY DEF ListsAreConsistent
<1>3. PICK n \in 0..Len(seen[p]) :
          /\ Recent(sent[k].digest, seen[p], n)
          /\ \A j \in {j \in 1..k - 1 : sent[j].play = p} :
                \E m \in 0..n : Recent(sent[j].digest, seen[p], m)
  BY DEF ListsAreConsistent
<1>4. /\ Len(seen[p]) \in Nat /\ Len(seen'[p]) \in Nat
      /\ Len(seen[p]) <= Len(seen'[p])
      /\ \A l : \A m \in 0..Len(seen[p]) :
            Recent(l, seen[p], m) => Recent(l, seen'[p], m)
  BY <1>1, MomentsStay
<1> HIDE DEF p
<1>5. n \in 0..Len(seen'[p]) /\ 0..n \subseteq 0..Len(seen[p])
  BY <1>3, <1>4
<1>6. Recent(sent[k].digest, seen'[p], n)
  BY <1>3, <1>4
<1>7. ASSUME NEW j \in {j \in 1..k - 1 : sent[j].play = p}
      PROVE  \E m \in 0..n : Recent(sent[j].digest, seen'[p], m)
  <2>1. PICK m \in 0..n : Recent(sent[j].digest, seen[p], m)
    BY <1>3, <1>7
  <2> QED
    BY <1>4, <1>5, <2>1
<1> QED
  BY <1>2, <1>5, <1>6, <1>7 DEF p

\* Once it is appended, a packet in order is one of those sent in order.
LEMMA AppendedSent ==
    ASSUME sent \in Seq(Packets), ListsAreConsistent,
           NEW q \in Packets, Cardinality(chatters) = 1 => Orderly(q, sent),
           sent' = Append(sent, q), UNCHANGED <<chatters, seen>>
    PROVE  ListsAreConsistent'
<1> DEFINE L == Len(sent)
<1>1. /\ DOMAIN sent = 1..L /\ L \in Nat
      /\ DOMAIN sent' = 1..L + 1
      /\ \A k \in 1..L : sent'[k] = sent[k]
      /\ sent'[L + 1] = q
  BY SentFacts
<1> HIDE DEF L
<1> DEFINE Good(t, k) ==
             /\ t[k].digest = t[k].previous_messages
             /\ \E n \in 0..Len(seen[t[k].play]) :
                   /\ Recent(t[k].digest, seen[t[k].play], n)
                   /\ \A j \in {j \in 1..k - 1 : t[j].play = t[k].play} :
                         \E m \in 0..n :
                            Recent(t[j].digest, seen[t[k].play], m)
<1>2. SUFFICES ASSUME Cardinality(chatters) = 1, NEW k \in DOMAIN sent'
               PROVE  Good(sent', k)
  <2>1. seen' = seen /\ chatters' = chatters
    OBVIOUS
  <2> QED
    BY <2>1, Zenon DEF ListsAreConsistent
<1>3. \A j \in 1..k - 1 : j \in 1..L /\ sent'[j] = sent[j]
  BY <1>1
<1>4. CASE k \in 1..L
  <2>1. Good(sent, k)
    BY <1>1, <1>2, <1>4 DEF ListsAreConsistent
  <2>2. sent'[k] = sent[k]
    BY <1>1, <1>4
  <2> QED
    BY <1>3, <2>1, <2>2
<1>5. CASE k = L + 1
  <2>1. Orderly(q, sent) /\ sent'[k] = q
    BY <1>1, <1>2, <1>5
  <2>2. PICK n \in Nat : OrderlyAfter(q, sent, n)
    BY <2>1 DEF Orderly
  <2>3. /\ n \in 0..Len(seen[q.play])
        /\ Recent(q.digest, seen[q.play], n)
        /\ \A j \in 1..L : sent[j].play = q.play =>
              \E m \in 0..n : Recent(sent[j].digest, seen[q.play], m)
    BY <1>1, <2>2 DEF OrderlyAfter
  <2>4. \A j \in {j \in 1..k - 1 : sent'[j].play = q.play} :
            \E m \in 0..n : Recent(sent'[j].digest, seen[q.play], m)
    BY <1>3, <2>3
  <2>5. q.digest = q.previous_messages
    BY <2>1 DEF Orderly
  <2> QED
    BY <2>1, <2>3, <2>4, <2>5
<1> QED
  BY <1>1, <1>4, <1>5

\* With one chatter, the moments follow each other in the queue.
LEMMA NextConsistent ==
    ASSUME Typed, Placed, EntriesAreRecent, Consistent, ListsAreConsistent, Next
    PROVE  Consistent' /\ ListsAreConsistent'
<1>1. CASE JoinGame
  <2>1. UNCHANGED <<chatters, signed, pc, packet, seen, sent>>
    BY <1>1 DEF JoinGame
  <2> QED
    BY <2>1 DEF Consistent, ListsAreConsistent, Orderly, OrderlyAfter
<1>2. CASE PlayerChat
  <2>1. PICK x \in Senders :
              /\ play \in Plays
              /\ seen' = [seen EXCEPT ![play] = Append(seen[play], x)]
    BY <1>2, PlayerChatFacts
  <2>2. UNCHANGED <<chatters, play, last_own, signed, pc, packet, sent>>
    BY <1>2 DEF PlayerChat
  <2>3. ListsAreConsistent'
    BY <2>1, <2>2, ArrivalSent
  <2>4. ASSUME Cardinality(chatters) = 1, NEW a \in Actors, pc[a] # "free"
        PROVE  Orderly(packet[a], sent)'
    <3> DEFINE q == packet[a]
    <3>1. q \in Packets /\ q.play \in 1..play /\ Orderly(q, sent)
      BY <2>4 DEF Typed, Placed, Consistent
    <3>2. q.play \in Plays
      <4>1. MaxPlays \in Nat /\ play \in 1..MaxPlays
        BY <2>1, BoundsAssumption DEF Plays
      <4> QED
        BY <3>1, <4>1 DEF Plays
    <3>3. packet'[a] = q /\ sent' = sent
      BY <2>2
    <3> HIDE DEF q
    <3>4. /\ q.digest = q.previous_messages
          /\ \E n \in 0..Len(seen'[q.play]) :
                /\ Recent(q.digest, seen'[q.play], n)
                /\ \A j \in DOMAIN sent : sent[j].play = q.play =>
                      \E m \in 0..n : Recent(sent[j].digest, seen'[q.play], m)
      BY <2>1, <3>1, <3>2, ArrivalOrderly
    <3>5. PICK n \in 0..Len(seen'[q.play]) :
              /\ Recent(q.digest, seen'[q.play], n)
              /\ \A j \in DOMAIN sent : sent[j].play = q.play =>
                    \E m \in 0..n : Recent(sent[j].digest, seen'[q.play], m)
      BY <3>4
    <3>6. n \in Nat
      OBVIOUS
    <3> QED
      BY <3>3, <3>4, <3>5, <3>6 DEF Orderly, OrderlyAfter
  <2>5. Consistent'
    BY <2>2, <2>4 DEF Consistent
  <2> QED
    BY <2>3, <2>5
<1>3. ASSUME NEW a \in Actors, TakeEntries(a)
      PROVE  Consistent' /\ ListsAreConsistent'
  <2>1. PICK q \in Packets :
              /\ packet' = [packet EXCEPT ![a] = q]
              /\ q.play = play
              /\ q.digest = entries /\ q.previous_messages = entries
              /\ pc' = [pc EXCEPT ![a] = IF q.kind = "chat" THEN "sign"
                                                            ELSE "append"]
    BY <1>3, TakenFacts
  <2>2. /\ UNCHANGED <<chatters, play, entries, last_own, signed, seen, sent>>
        /\ a \in chatters /\ play # 0
    BY <1>3 DEF TakeEntries
  <2>3. ListsAreConsistent'
    BY <2>2 DEF ListsAreConsistent
  <2>4. ASSUME Cardinality(chatters) = 1, NEW b \in Actors, pc'[b] # "free"
        PROVE  Orderly(packet'[b], sent)
    <3>1. b = a
      <4>1. b # a => pc[b] # "free"
        BY <2>1, <2>4 DEF Typed
      <4>2. b # a => b \in chatters
        BY <4>1 DEF Placed
      <4> QED
        BY <2>2, <2>4, <4>2, OneChatter
    <3>2. packet'[b] = q
      BY <2>1, <3>1 DEF Typed
    <3>3. Orderly(q, sent)
      BY <2>1, <2>2, <2>4, TakenOrderly
    <3> QED
      BY <3>2, <3>3
  <2>5. Consistent'
    BY <2>2, <2>4 DEF Consistent, Orderly, OrderlyAfter
  <2> QED
    BY <2>3, <2>5
<1>4. ASSUME NEW a \in Actors, Sign(a)
      PROVE  Consistent' /\ ListsAreConsistent'
  <2>1. PICK q \in Packets :
              /\ packet' = [packet EXCEPT ![a] = q]
              /\ q.play = packet[a].play
              /\ q.digest = packet[a].digest
              /\ q.previous_messages = packet[a].previous_messages
    BY <1>4, SignedFacts
  <2>2. /\ UNCHANGED <<chatters, play, entries, last_own, seen, sent>>
        /\ pc[a] = "sign" /\ pc' = [pc EXCEPT ![a] = "chain"]
    BY <1>4 DEF Sign, Goto
  <2>3. ListsAreConsistent'
    BY <2>2 DEF ListsAreConsistent
  <2>4. ASSUME Cardinality(chatters) = 1, NEW b \in Actors, pc'[b] # "free"
        PROVE  Orderly(packet'[b], sent)
    <3>1. CASE b = a
      <4>1. packet'[b] = q /\ Orderly(packet[a], sent)
        BY <2>1, <2>2, <2>4, <3>1 DEF Typed, Consistent
      <4> QED
        BY <2>1, <4>1 DEF Orderly, OrderlyAfter
    <3>2. CASE b # a
      <4>1. packet'[b] = packet[b] /\ pc[b] # "free"
        BY <2>1, <2>2, <2>4, <3>2 DEF Typed
      <4> QED
        BY <2>4, <4>1 DEF Consistent
    <3> QED
      BY <3>1, <3>2
  <2>5. Consistent'
    BY <2>2, <2>4 DEF Consistent, Orderly, OrderlyAfter
  <2> QED
    BY <2>3, <2>5
<1>5. ASSUME NEW a \in Actors, Chain(a)
      PROVE  Consistent' /\ ListsAreConsistent'
  <2>1. /\ UNCHANGED <<chatters, play, entries, signed, packet, seen, sent>>
        /\ pc[a] = "chain" /\ pc' = [pc EXCEPT ![a] = "append"]
    BY <1>5 DEF Chain, Goto
  <2>2. \A b \in Actors : pc'[b] # "free" => pc[b] # "free"
    BY <2>1 DEF Typed
  <2> QED
    BY <2>1, <2>2 DEF Consistent, ListsAreConsistent, Orderly, OrderlyAfter
<1>6. ASSUME NEW a \in Actors, AppendChat(a)
      PROVE  Consistent' /\ ListsAreConsistent'
  <2>1. /\ UNCHANGED <<chatters, play, entries, last_own, signed, seen>>
        /\ pc[a] = "append" /\ pc' = [pc EXCEPT ![a] = "free"]
        /\ sent' = Append(sent, packet[a])
    BY <1>6 DEF AppendChat, Goto
  <2>2. ListsAreConsistent'
    <3>1. packet[a] \in Packets /\ sent \in Seq(Packets)
      BY DEF Typed
    <3>2. Cardinality(chatters) = 1 => Orderly(packet[a], sent)
      BY <2>1 DEF Consistent
    <3> QED
      BY <2>1, <3>1, <3>2, AppendedSent
  <2>3. ASSUME Cardinality(chatters) = 1, NEW b \in Actors, pc'[b] # "free"
        PROVE  FALSE
    <3>1. b # a /\ pc[b] # "free"
      BY <2>1, <2>3 DEF Typed
    <3>2. a \in chatters /\ b \in chatters
      BY <2>1, <3>1 DEF Placed
    <3> QED
      BY <2>3, <3>1, <3>2, OneChatter
  <2> QED
    BY <2>1, <2>2, <2>3 DEF Consistent
<1> QED
  BY <1>1, <1>2, <1>3, <1>4, <1>5, <1>6 DEF Next
------------------------------------------------------------------------------
(* The theorems.                                                            *)

\* Every step preserves the inductive invariant.
LEMMA NextInv == ChainInv /\ [Next]_vars => ChainInv'
<1> SUFFICES ASSUME ChainInv, [Next]_vars PROVE ChainInv'
  OBVIOUS
<1>1. CASE Next
  BY <1>1, NextTyped, NextLinked, NextConsistent DEF ChainInv
<1>2. CASE UNCHANGED vars
  <2>1. /\ UNCHANGED <<chatters, play, entries, last_own, signed, pc>>
        /\ UNCHANGED <<packet, seen, sent>>
    BY <1>2 DEF vars
  <2>2. Typed' /\ Placed' /\ EntriesAreRecent'
    BY <2>1 DEF ChainInv, Typed, Placed, EntriesAreRecent
  <2>3. Linked' /\ Chained'
    BY <2>1 DEF ChainInv, Linked, Chained
  <2>4. Consistent' /\ ListsAreConsistent'
    BY <2>1 DEF ChainInv, Consistent, Orderly, OrderlyAfter,
                ListsAreConsistent
  <2> QED
    BY <2>2, <2>3, <2>4 DEF ChainInv
<1> QED
  BY <1>1, <1>2

\* The inductive invariant holds in every reachable state.
LEMMA Invariance == Spec => []ChainInv
<1>1. Init => ChainInv
  BY InitInv
<1>2. ChainInv /\ [Next]_vars => ChainInv'
  BY NextInv
<1> QED
  BY <1>1, <1>2, PTL DEF Spec

\* The tracker of the last seen messages is right at every moment: the newest
\* message of each of the most recent senders, newest first (98-110).
THEOREM EntriesRecent == Spec => []EntriesAreRecent
<1>1. ChainInv => EntriesAreRecent
  BY DEF ChainInv
<1> QED
  BY <1>1, Invariance, PTL

\* Chat written by the networking thread alone makes one unbroken chain of
\* signatures in each play state (255-258, 188).
THEOREM ChainIsLinked == Spec => []ChainLinked
<1>1. ChainInv => ChainLinked
  BY ChainedLinks DEF ChainInv
<1> QED
  BY <1>1, Invariance, PTL

\* One thread writes chat while messages arrive: the list signed is the list
\* sent, right at one moment, and moments never go back (252-262).
THEOREM ListsConsistent == Spec => []ListsAreConsistent
<1>1. ChainInv => ListsAreConsistent
  BY DEF ChainInv
<1> QED
  BY <1>1, Invariance, PTL
==============================================================================
