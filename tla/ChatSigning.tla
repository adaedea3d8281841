----------------------------- MODULE ChatSigning -----------------------------
(***************************************************************************)
(* Secure chat for protocols 761 and later: ChatSigner keeps the last seen *)
(* signatures in a ring buffer, counts the messages that were not yet      *)
(* acknowledged to the server, and numbers the signed messages of the chat *)
(* session.  The networking thread observes incoming messages while any    *)
(* thread may sign a chat message or prepare a command inside              *)
(* write_packet(), without a lock, so every read and write of an attribute *)
(* is a step.  The n-th signed message that the server sends in a play     *)
(* state stands for its signature; 0 is an empty slot.                     *)
(***************************************************************************)
EXTENDS Naturals, Sequences, FiniteSets, FiniteSetsExt

CONSTANTS
    Usages,    \* sets of threads that write chat (Net: from its listeners)
    Capacity,  \* LastSeenMessages761.capacity (20)
    AckLimit,  \* pending messages that need no acknowledgement packet (64)
    MaxPlays,  \* bound on "join game" packets
    MaxSeen,   \* bound on the messages received
    MaxSent    \* bound on the packets written

Net == "net"

ASSUME BoundsAssumption ==
    /\ Capacity \in Nat \ {0} /\ AckLimit \in Nat
    /\ MaxPlays \in Nat /\ MaxSeen \in Nat /\ MaxSent \in Nat

ASSUME UsagesAssumption == \A u \in Usages : IsFiniteSet(u)

Actors == {Net} \cup UNION Usages
Plays == 1..MaxPlays

VARIABLES
    chatters,   \* the threads that write chat in this behaviour
    encrypted,  \* _encryption_enabled: the server is in online mode
    expired,    \* the profile key has expired
    play,       \* number of the tracker last_seen_761 refers to (0: None)
    slots,      \* slots[p], offset[p], pending[p]: the attributes of tracker p
    offset,
    pending,
    index,      \* session.index
    session,    \* the session has been started
    pc,         \* where a thread is
    tracker,    \* the tracker it works with
    i,          \* the next slot of its acknowledge loop
    packet,     \* the packet it fills in
    loaded,     \* the attribute value it has loaded
    seen,       \* seen[p]: signed messages received in play state p (history)
    sent        \* the packets appended to the outgoing queue (history)

environment == <<chatters, encrypted, expired>>
trackers    == <<slots, offset, pending>>
numbering   == <<session, index>>
locals      == <<tracker, i, packet, loaded>>
vars == <<environment, play, trackers, numbering, pc, locals, seen, sent>>

NewTracker == [s \in 0..Capacity - 1 |-> 0]

Blank(kind) ==
    [kind |-> kind, play |-> 0, index |-> 0, offset |-> 0, bits |-> {},
     signatures |-> <<>>]

Init ==
    /\ chatters \in Usages
    /\ encrypted \in BOOLEAN
    /\ expired = FALSE
    /\ play = 0
    /\ slots = [p \in Plays |-> NewTracker]
    /\ offset = [p \in Plays |-> 0]
    /\ pending = [p \in Plays |-> 0]
    /\ index = 0
    /\ session = FALSE
    /\ pc = [a \in Actors |-> "free"]
    /\ tracker = [a \in Actors |-> 0]
    /\ i = [a \in Actors |-> 0]
    /\ packet = [a \in Actors |-> Blank("none")]
    /\ loaded = [a \in Actors |-> 0]
    /\ seen = [p \in Plays |-> 0]
    /\ sent = <<>>

Goto(a, l) == pc' = [pc EXCEPT ![a] = l]
Load(a, v) == loaded' = [loaded EXCEPT ![a] = v]

\* A thread is done with a packet, and with its local variables.
Done(a) ==
    /\ Goto(a, "free")
    /\ tracker' = [tracker EXCEPT ![a] = 0]
    /\ i' = [i EXCEPT ![a] = 0]
    /\ packet' = [packet EXCEPT ![a] = Blank("none")]
    /\ loaded' = [loaded EXCEPT ![a] = 0]

\* deque.append
Queue(p) == sent' = Append(sent, p)

------------------------------------------------------------------------------
(* The networking thread: PlayingReactor.react.                             *)

\* "join game": begin_play makes a new tracker.
JoinGame ==
    /\ pc[Net] = "free"
    /\ play < MaxPlays
    /\ play' = play + 1
    /\ Goto(Net, IF encrypted /\ ~session THEN "session" ELSE "free")
    /\ UNCHANGED <<environment, trackers, numbering, locals, seen, sent>>

\* The session is started, then announced.
StartSession ==
    /\ pc[Net] = "session"
    /\ session' = TRUE
    /\ Goto(Net, "session_append")
    /\ UNCHANGED <<environment, play, trackers, index, locals, seen, sent>>

AnnounceSession ==
    /\ pc[Net] = "session_append"
    /\ Queue(Blank("session"))
    /\ Goto(Net, "free")
    /\ UNCHANGED <<environment, play, trackers, numbering, locals, seen>>

\* "player chat message" with a signature; one without is not tracked.
PlayerChat ==
    /\ pc[Net] = "free"
    /\ play # 0
    /\ MapThenSumSet(LAMBDA p : seen[p], Plays) < MaxSeen
    /\ seen' = [seen EXCEPT ![play] = @ + 1]
    /\ tracker' = [tracker EXCEPT ![Net] = play]
    /\ Goto(Net, "push_slot")
    /\ UNCHANGED <<environment, play, trackers, numbering, i, packet, loaded,
                   sent>>

PushSlot ==
    LET p == tracker[Net] IN
    /\ pc[Net] = "push_slot"
    /\ slots' = [slots EXCEPT ![p][offset[p]] = seen[p]]
    /\ Goto(Net, "push_offset")
    /\ UNCHANGED <<environment, play, offset, pending, numbering, locals,
                   seen, sent>>

\* Faulty variant: the offset does not wrap around at the capacity.
PushOffsetUnwrapped ==
    LET p == tracker[Net] IN
    /\ pc[Net] = "push_offset"
    /\ offset' = [offset EXCEPT ![p] = @ + 1]
    /\ Goto(Net, "push_load")
    /\ UNCHANGED <<environment, play, slots, pending, numbering, locals, seen,
                   sent>>

PushOffset ==
    LET p == tracker[Net] IN
    /\ pc[Net] = "push_offset"
    /\ offset' = [offset EXCEPT ![p] = (@ + 1) % Capacity]
    /\ Goto(Net, "push_load")
    /\ UNCHANGED <<environment, play, slots, pending, numbering, locals, seen,
                   sent>>

\* pending += 1 is a load and a store.
PushLoad ==
    /\ pc[Net] = "push_load"
    /\ Load(Net, pending[tracker[Net]])
    /\ Goto(Net, "push_store")
    /\ UNCHANGED <<environment, play, trackers, numbering, tracker, i, packet,
                   seen, sent>>

PushStore ==
    /\ pc[Net] = "push_store"
    /\ pending' = [pending EXCEPT ![tracker[Net]] = loaded[Net] + 1]
    /\ Goto(Net, "backlog")
    /\ UNCHANGED <<environment, play, slots, offset, numbering, locals, seen,
                   sent>>

\* Faulty variant: one message too late.
BacklogLate ==
    LET p == tracker[Net] IN
    /\ pc[Net] = "backlog"
    /\ IF pending[p] > AckLimit + 1
       THEN /\ Load(Net, pending[p])
            /\ Goto(Net, "ack_reset")
            /\ UNCHANGED <<tracker, i, packet>>
       ELSE Done(Net)
    /\ UNCHANGED <<environment, play, trackers, numbering, seen, sent>>

\* More than AckLimit messages are pending: the count is loaded.
Backlog ==
    LET p == tracker[Net] IN
    /\ pc[Net] = "backlog"
    /\ IF pending[p] > AckLimit
       THEN /\ Load(Net, pending[p])
            /\ Goto(Net, "ack_reset")
            /\ UNCHANGED <<tracker, i, packet>>
       ELSE Done(Net)
    /\ UNCHANGED <<environment, play, trackers, numbering, seen, sent>>

AckReset ==
    /\ pc[Net] = "ack_reset"
    /\ pending' = [pending EXCEPT ![tracker[Net]] = 0]
    /\ Goto(Net, "ack_append")
    /\ UNCHANGED <<environment, play, slots, offset, numbering, locals, seen,
                   sent>>

\* The acknowledgement packet is appended to the outgoing queue.
AckAppend ==
    /\ pc[Net] = "ack_append"
    /\ Queue([Blank("ack") EXCEPT !.play = tracker[Net],
                                  !.offset = loaded[Net]])
    /\ Done(Net)
    /\ UNCHANGED <<environment, play, trackers, numbering, seen>>

------------------------------------------------------------------------------
(* Any thread that chats: sign_chat_packet and prepare_command_packet.      *)

Writes(a) == pc[a] = "free" /\ a \in chatters /\ play # 0 /\ Len(sent) < MaxSent

Begin(a, kind) ==
    /\ tracker' = [tracker EXCEPT ![a] = play]
    /\ packet' = [packet EXCEPT ![a] = [Blank(kind) EXCEPT !.play = play]]
    /\ i' = [i EXCEPT ![a] = 0]
    /\ Goto(a, "acknowledge")

\* The chat message is signed if the key is valid and a session is there.
SignChat(a) ==
    /\ Writes(a)
    /\ ~expired /\ session
    /\ Begin(a, "chat")
    /\ UNCHANGED <<environment, play, trackers, numbering, loaded, seen, sent>>

UnsignedChat(a) ==
    /\ Writes(a)
    /\ expired \/ ~session
    /\ Queue(Blank("unsigned"))
    /\ UNCHANGED <<environment, play, trackers, numbering, pc, locals, seen>>

\* A command is not signed but acknowledges what was seen (protocols 761 to
\* 765).
PrepareCommand(a) ==
    /\ Writes(a)
    /\ Begin(a, "command")
    /\ UNCHANGED <<environment, play, trackers, numbering, loaded, seen, sent>>

\* One turn of the loop of acknowledge, with the offset as it is now.
AcknowledgeSlot(a) ==
    LET p == tracker[a]
        signature == slots[p][(offset[p] + i[a]) % Capacity]
    IN
    /\ pc[a] = "acknowledge"
    /\ i[a] < Capacity
    /\ i' = [i EXCEPT ![a] = @ + 1]
    /\ packet' = [packet EXCEPT
                     ![a].bits = IF signature = 0 THEN @ ELSE @ \cup {i[a]},
                     ![a].signatures = IF signature = 0 THEN @
                                       ELSE Append(@, signature)]
    /\ UNCHANGED <<environment, play, trackers, numbering, pc, tracker, loaded,
                   seen, sent>>

\* The message is signed with the index of the session; a command is not.
Sign(a) ==
    /\ pc[a] = "acknowledge"
    /\ i[a] = Capacity
    /\ IF packet[a].kind = "chat"
       THEN /\ packet' = [packet EXCEPT ![a].index = index]
            /\ Goto(a, "index_load")
       ELSE /\ Goto(a, "offset")
            /\ UNCHANGED packet
    /\ UNCHANGED <<environment, play, trackers, numbering, tracker, i, loaded,
                   seen, sent>>

IndexLoad(a) ==
    /\ pc[a] = "index_load"
    /\ Load(a, index)
    /\ Goto(a, "index_store")
    /\ UNCHANGED <<environment, play, trackers, numbering, tracker, i, packet,
                   seen, sent>>

\* Faulty variant: the index is not incremented.
IndexKept(a) ==
    /\ pc[a] = "index_store"
    /\ Goto(a, "offset")
    /\ UNCHANGED <<environment, play, trackers, numbering, locals, seen, sent>>

IndexStore(a) ==
    /\ pc[a] = "index_store"
    /\ index' = loaded[a] + 1
    /\ Goto(a, "offset")
    /\ UNCHANGED <<environment, play, trackers, session, locals, seen, sent>>

Offset(a) ==
    /\ pc[a] = "offset"
    /\ packet' = [packet EXCEPT ![a].offset = pending[tracker[a]]]
    /\ Goto(a, "reset")
    /\ UNCHANGED <<environment, play, trackers, numbering, tracker, i, loaded,
                   seen, sent>>

\* Faulty variant: what was acknowledged stays pending.
ResetForgotten(a) ==
    /\ pc[a] = "reset"
    /\ Goto(a, "append")
    /\ UNCHANGED <<environment, play, trackers, numbering, locals, seen, sent>>

Reset(a) ==
    /\ pc[a] = "reset"
    /\ pending' = [pending EXCEPT ![tracker[a]] = 0]
    /\ Goto(a, "append")
    /\ UNCHANGED <<environment, play, slots, offset, numbering, locals, seen,
                   sent>>

AppendChat(a) ==
    /\ pc[a] = "append"
    /\ Queue(packet[a])
    /\ Done(a)
    /\ UNCHANGED <<environment, play, trackers, numbering, seen>>

------------------------------------------------------------------------------
KeyExpires ==
    /\ ~expired
    /\ expired' = TRUE
    /\ UNCHANGED <<chatters, encrypted, play, trackers, numbering, pc, locals,
                   seen, sent>>

NetStep ==
    \/ JoinGame \/ StartSession \/ AnnounceSession \/ PlayerChat \/ PushSlot
    \/ PushOffset \/ PushLoad \/ PushStore \/ Backlog \/ AckReset \/ AckAppend

ChatStep(a) ==
    \/ SignChat(a) \/ UnsignedChat(a) \/ PrepareCommand(a) \/ AcknowledgeSlot(a)
    \/ Sign(a) \/ IndexLoad(a) \/ IndexStore(a) \/ Offset(a) \/ Reset(a)
    \/ AppendChat(a)

Next == NetStep \/ (\E a \in Actors : ChatStep(a)) \/ KeyExpires

Spec == Init /\ [][Next]_vars

------------------------------------------------------------------------------
(* What the server knows: it has sent seen[p] messages, and the packets     *)
(* acknowledge them in the order of the queue.                              *)

\* How many messages of play state p the first n packets acknowledge.
Position(p, n) ==
    LET total[k \in 0..n] ==
            IF k = 0 THEN 0
            ELSE total[k - 1] + IF sent[k].play = p THEN sent[k].offset ELSE 0
    IN  total[n]

Least(m, n) == IF m < n THEN m ELSE n

\* The last messages of the first n, oldest first.
Window(n) == [k \in 1..Least(n, Capacity) |-> n - Least(n, Capacity) + k]

Labels == {"free", "session", "session_append", "push_slot", "push_offset",
           "push_load", "push_store", "backlog", "ack_reset", "ack_append",
           "acknowledge", "index_load", "index_store", "offset", "reset",
           "append"}

\* The variables have their types; the offset stays within the ring buffer
\* (125-133).
TypeOK ==
    /\ chatters \in Usages
    /\ encrypted \in BOOLEAN /\ expired \in BOOLEAN /\ session \in BOOLEAN
    /\ play \in 0..MaxPlays
    /\ slots \in [Plays -> [0..Capacity - 1 -> 0..MaxSeen]]
    /\ offset \in [Plays -> 0..Capacity - 1]
    /\ pending \in [Plays -> Nat]
    /\ index \in Nat
    /\ pc \in [Actors -> Labels]
    /\ tracker \in [Actors -> 0..MaxPlays]
    /\ i \in [Actors -> 0..Capacity]
    /\ loaded \in [Actors -> Nat]
    /\ seen \in [Plays -> 0..MaxSeen]

\* When all chat is written by the networking thread, every acknowledgement
\* names exactly the messages that the server takes it to name: its bits and
\* signatures are those of the last messages, oldest first, of all that have
\* been acknowledged up to that packet of the queue, whatever was
\* acknowledged in chat, in commands, or by acknowledgement packets before,
\* and wherever the ring buffer wraps around (136-147, 201-206, 227-276).
ServerAgrees ==
    chatters = {Net} => \A k \in DOMAIN sent :
        sent[k].kind \in {"chat", "command"} =>
            LET w == Window(Position(sent[k].play, k)) IN
            /\ sent[k].signatures = w
            /\ sent[k].bits = {b \in 0..Capacity - 1 : b >= Capacity - Len(w)}

\* When all chat is written by the networking thread, the server is never left
\* with more than AckLimit unacknowledged messages once a message has been
\* dealt with (203-206).
BacklogBounded ==
    chatters = {Net} => \A p \in Plays :
        pc[Net] = "free" => seen[p] - Position(p, Len(sent)) <= AckLimit

Chats(n) == {j \in 1..n : sent[j].kind = "chat"}

\* The signed messages of the session carry the indexes 0, 1, 2, ... in the
\* order of the queue, whatever the networking thread does meanwhile and
\* across play states, if one thread signs, be it another one (268-271).
IndexesConsecutive ==
    Cardinality(chatters) = 1 =>
        \A k \in Chats(Len(sent)) : sent[k].index = Cardinality(Chats(k - 1))

------------------------------------------------------------------------------
(* Claims that the code does not keep when an application thread chats.     *)

\* chat_signing.py 114-118: the tracker keeps "the number of messages not yet
\* acknowledged to the server".
PendingCountsUnacknowledged ==
    \A p \in Plays :
        (\A a \in Actors : pc[a] = "free") =>
            pending[p] + Position(p, Len(sent)) = seen[p]
==============================================================================
