------------------------------ MODULE ChatChain ------------------------------
(***************************************************************************)
(* Secure chat for protocol 760: ChatSigner keeps the last seen messages   *)
(* of the five most recent senders, and chains the signatures of its own   *)
(* messages.  The networking thread pushes incoming messages while any     *)
(* thread may sign a message in write_packet(), without a lock.  The n-th  *)
(* message of a play state stands for its signature, and so does the n-th  *)
(* signature made for the player.  A message that is not signed, because   *)
(* the key has expired, touches none of this and is left out.              *)
(***************************************************************************)
EXTENDS Naturals, Sequences, FiniteSets, FiniteSetsExt

CONSTANTS
    Usages,    \* sets of threads that write chat (Net: from its listeners)
    Senders,   \* other players
    Capacity,  \* LastSeenMessages760.capacity (5)
    MaxPlays,  \* bound on "join game" packets
    MaxSeen,   \* bound on the messages received
    MaxSent    \* bound on the packets written

Net == "net"

ASSUME BoundsAssumption ==
    /\ Capacity \in Nat \ {0}
    /\ MaxPlays \in Nat /\ MaxSeen \in Nat /\ MaxSent \in Nat

ASSUME UsagesAssumption == \A u \in Usages : IsFiniteSet(u)

Actors == {Net} \cup UNION Usages
Plays == 1..MaxPlays

VARIABLES
    chatters, \* the threads that write chat in this behaviour
    play,     \* number of the tracker last_seen_760 refers to (0: None)
    entries,  \* its entries: messages, newest first
    last_own, \* _last_own_signature (0: None)
    signed,   \* signatures made so far
    pc,       \* where a thread is
    packet,   \* the packet it fills in
    seen,     \* seen[p]: the senders of the messages received in play p
    sent      \* the packets appended to the outgoing queue (history)

vars == <<chatters, play, entries, last_own, signed, pc, packet, seen, sent>>

\* 'digest' is the list that is signed, 'previous_messages' the one sent.
Blank(kind) == [kind |-> kind, play |-> play, signature |-> 0, previous |-> 0,
                digest |-> <<>>, previous_messages |-> <<>>]

Init ==
    /\ chatters \in Usages
    /\ play = 0
    /\ entries = <<>>
    /\ last_own = 0
    /\ signed = 0
    /\ pc = [a \in Actors |-> "free"]
    /\ packet = [a \in Actors |-> Blank("none")]
    /\ seen = [p \in Plays |-> <<>>]
    /\ sent = <<>>

Goto(a, l) == pc' = [pc EXCEPT ![a] = l]
First(s) == SubSeq(s, 1, IF Len(s) < Capacity THEN Len(s) ELSE Capacity)

\* Faulty variant: the chain is not broken by a new play state.
JoinGameChained ==
    /\ pc[Net] = "free"
    /\ play < MaxPlays
    /\ play' = play + 1
    /\ entries' = <<>>
    /\ UNCHANGED <<chatters, last_own, signed, pc, packet, seen, sent>>

\* begin_play: a new tracker and a new chain.
JoinGame ==
    /\ pc[Net] = "free"
    /\ play < MaxPlays
    /\ play' = play + 1
    /\ entries' = <<>>
    /\ last_own' = 0
    /\ UNCHANGED <<chatters, signed, pc, packet, seen, sent>>

\* Faulty variant: older messages of the sender are kept.
PushAll(n, senders) == First(<<n>> \o entries)

\* LastSeenMessages760.push: only the newest message of a sender is kept.
Push(n, senders) ==
    LET kept[k \in 0..Len(entries)] ==
            IF k = 0 THEN <<n>>
            ELSE IF senders[entries[k]] # senders[n]
            THEN Append(kept[k - 1], entries[k]) ELSE kept[k - 1]
    IN  First(kept[Len(entries)])

\* A signed message arrives; the list of entries is replaced, not changed.
PlayerChat ==
    /\ pc[Net] = "free"
    /\ play # 0
    /\ MapThenSumSet(LAMBDA p : Len(seen[p]), Plays) < MaxSeen
    /\ \E s \in Senders :
          LET senders == Append(seen[play], s) IN
          /\ seen' = [seen EXCEPT ![play] = senders]
          /\ entries' = Push(Len(senders), senders)
    /\ UNCHANGED <<chatters, play, last_own, signed, pc, packet, sent>>

\* sign_chat_packet or prepare_command_packet takes the list of entries.
TakeEntries(a) ==
    /\ pc[a] = "free"
    /\ a \in chatters /\ play # 0
    /\ Len(sent) < MaxSent
    /\ \E kind \in {"chat", "command"} :
          /\ packet' = [packet EXCEPT
                ![a] = [Blank(kind) EXCEPT !.digest = entries,
                                           !.previous_messages = entries]]
          /\ Goto(a, IF kind = "chat" THEN "sign" ELSE "append")
    /\ UNCHANGED <<chatters, play, entries, last_own, signed, seen, sent>>

\* The digest is signed together with the last own signature.
Sign(a) ==
    /\ pc[a] = "sign"
    /\ signed' = signed + 1
    /\ packet' = [packet EXCEPT ![a].signature = signed + 1,
                                ![a].previous = last_own]
    /\ Goto(a, "chain")
    /\ UNCHANGED <<chatters, play, entries, last_own, seen, sent>>

Chain(a) ==
    /\ pc[a] = "chain"
    /\ last_own' = packet[a].signature
    /\ Goto(a, "append")
    /\ UNCHANGED <<chatters, play, entries, signed, packet, seen, sent>>

\* Faulty variant: the list that is sent is taken when it is sent.
AppendReread(a) ==
    /\ pc[a] = "append"
    /\ sent' = Append(sent, [packet[a] EXCEPT !.previous_messages = entries])
    /\ packet' = [packet EXCEPT ![a] = Blank("none")]
    /\ Goto(a, "free")
    /\ UNCHANGED <<chatters, play, entries, last_own, signed, seen>>

AppendChat(a) ==
    /\ pc[a] = "append"
    /\ sent' = Append(sent, packet[a])
    /\ packet' = [packet EXCEPT ![a] = Blank("none")]
    /\ Goto(a, "free")
    /\ UNCHANGED <<chatters, play, entries, last_own, signed, seen>>

Next ==
    \/ JoinGame \/ PlayerChat
    \/ \E a \in Actors : TakeEntries(a) \/ Sign(a) \/ Chain(a) \/ AppendChat(a)

Spec == Init /\ [][Next]_vars

------------------------------------------------------------------------------
(* Properties.                                                              *)

\* The newest message of each sender among the first n messages.
Newest(s, n) == {m \in 1..n : \A k \in m + 1..n : s[k] # s[m]}

\* The list l is what it ought to be after the first n messages: it has the
\* newest ones, newest first, and those that it lacks are older and do not fit.
Recent(l, s, n) ==
    /\ Len(l) <= Capacity
    /\ \A k \in DOMAIN l :
          l[k] \in Newest(s, n) /\ \A j \in 1..k - 1 : l[j] > l[k]
    /\ \A m \in Newest(s, n) :
          \/ \E k \in DOMAIN l : l[k] = m
          \/ Len(l) = Capacity /\ \A k \in DOMAIN l : l[k] > m

\* The entries are always the most recent messages of distinct senders,
\* newest first, in whatever order senders speak and speak again (98-110).
EntriesAreRecent ==
    play # 0 => Recent(entries, seen[play], Len(seen[play]))

Chats(p) == {k \in DOMAIN sent : sent[k].kind = "chat" /\ sent[k].play = p}

\* When all chat is written by the networking thread, each signed message of
\* a play state carries the signature of the one before it in the queue, and
\* the first one carries none, with commands in between (255-258, 188).
ChainLinked ==
    chatters = {Net} => \A k \in DOMAIN sent :
        sent[k].kind = "chat" =>
            LET before == {j \in Chats(sent[k].play) : j < k} IN
            IF before = {} THEN sent[k].previous = 0
            ELSE sent[k].previous = sent[Max(before)].signature

\* Although messages arrive while one application thread signs, the list that
\* is signed is the list that is sent, it is what was recent at one moment,
\* and in a play state that moment never moves back from one packet to the
\* next (252-262).
ListsAreConsistent ==
    Cardinality(chatters) = 1 => \A k \in DOMAIN sent :
        LET s == seen[sent[k].play] IN
        /\ sent[k].digest = sent[k].previous_messages
        /\ \E n \in 0..Len(s) :
              /\ Recent(sent[k].digest, s, n)
              /\ \A j \in {j \in 1..k - 1 : sent[j].play = sent[k].play} :
                    \E m \in 0..n : Recent(sent[j].digest, s, m)
==============================================================================
