# pyCraft in TLA+

A verification project for pyCraft, the Python client library for the
Minecraft protocol. It models the parts of the library in which several
threads, callbacks, reconnections and bounds meet, checks them with TLC on
small instances, and proves the central invariants with TLAPS for every number
of threads and connections. It also models what pyCraft knows of the protocol
(versions, packet ids, layouts, replies) as tables and operators, checked under
every supported version. Paths below are relative to the repository;
`connection.py` is `minecraft/networking/connection.py`, `chat_signing.py` is
`minecraft/networking/chat_signing.py`.

## 1. The system

A `Connection` object is shared by three kinds of code: application threads
that call its methods, the networking thread that it starts for a connection,
and callbacks of the application (packet listeners, exception handlers, the
exit handler) that the networking thread runs and that may call the same
methods again. There is one lock, `_write_lock`, which is re-entrant; much of
the state is read without it. Listeners of outgoing packets are run by whoever
sends the packet, inside of the lock, and may connect and disconnect there.

| part | state | operations | hard behaviour |
|---|---|---|---|
| connection life cycle (`connection.py` 82-219, 371-633) | thread slots `networking_thread`, `new_networking_thread`; `connected`; socket and file object; reactor; per thread `interrupt`, `previous_thread` | `connect`, `status`, `disconnect`, `run`, `_run`, `_react`, `_handle_exception`, `_handle_exit` | a new connection is requested while the old thread is still in callbacks; unlocked reads of the reactor, the file, the interrupt flag |
| outgoing queue (`connection.py` 221-243, 339-369, 469, 496-499, 636-655; `packet.py` 76-106) | the deque, the socket, packets of an iteration | `write_packet` (queued or forced), `_pop_packet`, the write loop, the flush | three writers of one socket, two sends per packet, listeners called in between that write and reconnect, the deque is replaced while others append, sends fail |
| version negotiation (`connection.py` 148-173, 419-454, 575-591, 997-1031) | `allowed_proto_versions`, `default_proto_version`, `context.protocol_version` | `connect`, `handle_status`, `handle_proto_version`, `handle_failure`, `_version_mismatch` | what one negotiation leaves behind for the next |
| chat signing (`chat_signing.py`; `connection.py` 234-238, 898-930) | last seen messages, pending count, session and index, own last signature | `begin_play`, `start_session`, `observe_player_chat`, `prepare_command_packet`, `sign_chat_packet` | a ring buffer that wraps around; the networking thread observes while others sign, without a lock |
| reactors (`connection.py` 678-1031) | the current reactor, its table of packet classes, compression and encryption settings | `read_packet`, `react`, `handle_exception` | swap of socket, file and reactor in the middle of a stream; replies that wait in the queue while the state changes |
| packet framing, compression, encryption (`packet.py`, `packet_buffer.py`, `encryption.py`) | the modes of the streams | `write`, `read_packet`, the wrappers | modes change while other threads write; a stream ends inside of a packet |
| versions (`__init__.py`, `utility.py`) | the list of known protocols | comparisons | numbers are not in the order of the versions |
| packet ids and layouts (`packets/`) | none | `get_id`, `get_packets`, `read`, `write_fields` | branches on versions, written twice by hand |
| codecs (`types/`) | none | `read`, `send` of each type | widths, negative numbers, limits |
| records (`packets/clientbound/play/`) | `PlayerList`, `MapSet`, the modes of `JoinGamePacket` | `apply`, setters and getters | several actions in one packet, one field with two meanings |
| Yggdrasil authentication (`authentication.py`) | attributes of `AuthenticationToken` | `authenticate`, `refresh`, `invalidate`, `sign_out` | lost and partial responses |
| Microsoft authentication (`microsoft/`) | three cache files | the chain of tokens, device code, retries | expiry, revocation, crashes while writing |

The lock, the slots, the socket and the queue are what the parts share: the
life cycle installs the queue and the socket that the queue module writes to,
negotiation runs inside reactors of the networking thread and calls
`disconnect` and `connect` from there, and chat is signed inside
`write_packet`. A login switches the modes of the same socket that the queue is
written to; the reactors' replies go through that queue; every packet is looked
up by an id, and laid out, under the version that the negotiation has set. The
authentication is called by the login reactor (`join`) and provides the profile
key that chat signing uses.

What makes each part correct:

- life cycle: one networking thread at a time; the slots say truthfully which
  thread runs and which waits; whoever is not told to stop has its own open
  socket; a connection that says it is connected is served; everything that is
  told to stop ends, and what waits gets its turn.
- queue: frames stay whole; each thread's packets leave in order, once; no
  packet of an old connection reaches a new one; a flush leaves nothing
  behind; what is queued is written in the end.
- negotiation: the version of the login was reported or is the default, and
  the negotiation does not go in circles.
- chat: client and server agree on which messages an acknowledgement names;
  the backlog is bounded; indexes and chains have no holes and no forks.
- login: both sides read each packet under the modes it was written under; the
  login comes to an end; no chat session without a request for encryption.
- packets: each is found under its id; each reply is complete and is read in
  the state it is meant for; what is written is read.
- records: the client's copy is the server's; what is set is what is got.
- authentication: an account's attributes belong together; the Microsoft chain
  survives what its retries are for and spares its user.

## 2. Modules

| module | models |
|---|---|
| `ConnectionThreads` | the life cycle: one action per critical section or unlocked read of connect, status, disconnect, run, _run, _react, _handle_exception |
| `Handover` | what the two thread slots promise, abstractly: one place, one waiting successor |
| `MCConnectionThreads` | symmetry for TLC |
| `ConnectionThreads_proofs` | the theorems about `ConnectionThreads`, with proofs |
| `OutgoingQueue`, `MCOutgoingQueue` | from `write_packet` to the wire, over several connections |
| `OutgoingQueue_proofs` | the theorems about `OutgoingQueue`, with proofs |
| `ChatSigning` | protocols 761 and later: ring buffer, pending count, session index |
| `ChatSigning_proofs` | the theorems about `ChatSigning`, with proofs |
| `ChatChain` | protocol 760: last seen entries per sender, signature chain |
| `ChatChain_proofs` | the theorems about `ChatChain`, with proofs |
| `VersionNegotiation` | which version a connection is made with |
| `VersionNegotiation_proofs` | the theorems about it, with proofs |
| `LoginProtocol` | a login against a server: encryption, compression, states, ends of the stream, reconnections |
| `LoginProtocol_proofs` | the theorems about it, with proofs |
| `ProtocolVersions` | the version records and the order of protocols |
| `PacketIds` | `get_id` of every registered class, `get_packets` of every state |
| `PacketExchange` | the reactors' tables and replies, next to a server; composes `PacketIds` |
| `PacketLayouts` | fields of the hand-written packets, as written and as read |
| `FieldTypes` | VarInts, positions, records, angles, vectors, NBT |
| `PacketTransfer` | composes the three: sessions, with packets and fields that are transferred |
| `PlayerList` | the player list and the masks of its packets |
| `GameRecords` | the modes of 'join game', maps |
| `Records_proofs` | a theorem about each of these records, with proof |
| `MCPackets` | `PacketTransfer`, `PlayerList` and `GameRecords` for TLC |
| `MicrosoftAuth` | the chain of tokens, its cache and its retries |
| `Yggdrasil` | the attributes of an `AuthenticationToken` |
| `Accounts_proofs` | the theorems about `MicrosoftAuth` and `Yggdrasil`, with proofs |
| `MCBeforeLogin` | `VersionNegotiation` and both kinds of account for TLC |

### How the models correspond to the code

**ConnectionThreads.** The variables have the names of the attributes.
`pc[a]` is where an actor (application or networking thread) is; `ret[a]` is
where a method called from a callback continues after returning or raising,
since the same `connect` and `disconnect` run in every thread. A successful
`connect` makes a socket, a file and a thread; all three are named by the same
member of `Threads`. Code under the lock is one step unless an unlocked read
can see its middle: `connect` takes three (`ConnectOpen`, `ConnectReactor`,
`StartThread`), `status` three with the reactor set last, `disconnect` two. A
connect that cannot resolve the address leaves the old socket in place, one that
cannot reach it leaves a socket that is not connected; with a packet in the
queue, the flush of the next disconnect raises on that. Outgoing
listeners run in the middle of the write loop and of the flush, under the lock
(`w_held`, `d_held`), and may call the methods of `OutgoingCalls`; those of a
forced packet are like any other call of its writer. In a flush that such a
listener has started, listeners return or raise and call nothing.
The two unlocked reads of `_run` (lines 659 and 660) are `BindReactor` and
`BindFile`; the test of line 567 is `CheckCurrent`, the disconnect of line 568
the method call that it starts. Listeners, the exit handler and exception
handlers are application code: they return, raise, or call a method, any of
them. What a read yields depends only on the packet table of the bound
reactor. `LoginReactor`, `PlayingReactor` (standing for `ConfigurationReactor`
as well), `StatusReactor` and `PlayingStatusReactor` are the reactor kinds
`login`, `play`, `status`, `negotiate`.

**OutgoingQueue.** Deques, sockets and connections are numbered, number `g`
having deque `g` and socket `g`; `attr` and `socket` are the attributes. All
networking threads are played by one actor, `Net`, which serves one connection
after the other: that no two of them run is `SingleRunner` of
`ConnectionThreads`, proved. A packet is two sends; `wire[g]` is what socket
`g` was given. Between the pop and the first send, and after the second, are the
listeners of the packet (labels `Early` and `Late`): one may have it ignored,
raise, write, flush and close, or open a new connection, step by step
(`reentry`), and the socket is read only when it has returned. `NetRead` is the
beginning of a packet, for which a read waits 50 ms; in the middle of one
(`NetStuck`) only its rest or the end of the stream helps. `appended`, `lost`
and `carried` (packets in the hands of a sender whose listener has opened a
connection) are history variables.

**ChatSigning.** The n-th signed message that the server sends in a play state
stands for its signature; 0 is an empty slot. Every load and store of a shared
attribute is a step, so `pending += 1` is two. Each "join game" makes a new
tracker; a writer keeps the tracker it has loaded. `sent` is the outgoing
queue, which by `OutgoingQueue` reaches the server in order.

**ChatChain.** Entries are messages; who sent them is in `seen`. A push
replaces the list, so readers hold whole lists; its loop over the entries is
the function `kept`. Signatures are numbered as they are made.

**VersionNegotiation.** Versions are numbers in the order of
`PROTOCOL_VERSION_INDICES`; `server` is the version the server has. Each
step is one action of the client or the server; the threads behind it are in
`ConnectionThreads`.

**LoginProtocol.** Connections are numbered; `socket` and `file` are the number
and whether the wrapper of `encryption.py` is around it. A packet on the wire
is its name and the two modes it was written under; a reader under other modes
reads garbage, and the connection ends. No lock is held while a packet is read
and reacted to, so this is as many steps as there are unlocked looks at shared
state: the reactor and the file object are bound, the stream is waited for, the
bytes are read, the packet is parsed under the compression of that moment, and
the reaction follows (`reading` is what the thread has got so far). Between any
two, others may disconnect and connect. The reaction to 'encryption request' is
five steps (`Join`, `Respond`, `WrapSocket`, `WrapFile`, `SetFlag`), because
others may come in between here too; the other reactions are one. The server is
external: it asks for a plugin response, encryption and compression once each
and in any order that the protocol has, waits where it must, and may close at
any time, with a packet, without one, or inside of one.

**ProtocolVersions, PacketIds.** The records of `__init__.py` are kept as runs
of consecutive protocols; `PRE + n` is `PRE | n`. `Earlier`, `LaterEq` and
`InRange` are the comparisons of `ConnectionContext`, and `IdOf` is the chain of
conditional expressions that every `get_id` is. `When` adds
the classes that `get_packets` registers under a condition.

**PacketExchange.** `table` is `clientbound_packets`: for each registered class
the class that its id finds. Where ids collide, the dict comprehension keeps
the class that the set yields last, so any of them (`Tables`). A reaction reads
the packet, appends the replies and changes the reactor in one step, as only
the networking thread does so. `Wanted` are the fields that `write_fields`
takes from a reply, `Given` those that the reactor has put there.

**PacketLayouts, FieldTypes, PacketTransfer.** Both directions of each
hand-written packet are sequences of typed fields, for all choices that the
code branches on. Packed fields have the widths of the code. As a word of 64
bits is beyond TLC's integers, it is the set of the places of its bits that are
1; `Position` (26, 12 and 26 bits, in the two orders that it has had) and
`ChunkSectionPos` (22, 20 and 22) are packed and unpacked by shifts of such sets.

**PlayerList, GameRecords.** The server's list changes by the same `apply`, or,
for masks that combine several actions, by what the mask names (`Masked`,
external). What the client makes of it goes through the mask, the order of the
fields and the actions that `_read_bitmask` emits. The modes are the four
attributes that the setters write. A map is `Size` by `Size`.

**MicrosoftAuth, Yggdrasil.** Tokens are statuses, as only their validity is
branched on; `call` is where `authenticate()` is in the chain, with its two
nested `_retry` loops and the closure of `obtain_tokens`. A crash may leave the
file that is being written cut off. A token may expire at any point of a
call (`Expire`); `lapsed` are those that did. Device and title tokens of an
earlier call were issued for another `ProofKey`, which may get a request
rejected or not (`Foreign`, `Rejectable`): the code does not tell what the
services do with it. For Yggdrasil, access tokens are numbered
as the server issues them.

## 3. What the runs show

Passing runs:

| run | instance | properties | states |
|---|---|---|---|
| `ConnectionThreads_safety` | 2 application threads, 3 connections | `TypeOK`, `SingleRunner`, `SlotsTruthful`, `OwnSocket`, `ConnectedIsServed`, `ReadsOwnStream`, `HandlerFindsThread`, `ImplementsHandover` | 1.4 million |
| `ConnectionThreads_liveness` | 1 application thread, 2 connections | `PendingRuns`, `InterruptedStops` | 0.2 million |
| `OutgoingQueue_safety` | 2 writers, 2 connections, 1 packet, 2 calls of listeners, burst 1 | `TypeOK`, `FramesIntact`, `NoCrossTalk`, `FlushedOnReturn` | 1.4 million |
| `OutgoingQueue_delivery` | 1 writer, 1 connection, 2 packets, 2 calls of listeners, burst 2, read limit 1 | `InOrderOnce`, `QueuedIsSent` | 0.3 million |
| `ChatSigning` | chat written by the networking thread or by one application thread; ring of 2, 2 play states, 3 messages, 3 packets | `TypeOK`, `ServerAgrees`, `BacklogBounded`, `IndexesConsecutive` | 2.6 million |
| `ChatChain` | the same; 3 senders, room for 2, 4 messages, 3 packets | `EntriesAreRecent`, `ChainLinked`, `ListsAreConsistent` | 1.9 million |
| `LoginProtocol` | protocols 340, 763, 764; 2 connections, 1 packet of the user | `NothingGarbled`, `SessionsAreEncrypted`, `LoginSettles` | 3.2 million |
| `Packets` | all supported protocols, 4 replies at a time; 2 players; maps of 2 by 2 | `NoClassShadowed`, `LifelinesDecoded`, `RepliesAreUnderstood`, `RepliesAreComplete`, `ReadsWhatIsWritten`, `FieldsAreKept`, `ListsAgree`, `ModesAreIndependent`, `MapsAgree` | 245 thousand |
| `BeforeLogin` | 3 supported versions, 1 foreign one; 4 faults in a call; 3 Mojang accounts, 1 without the game, 4 tokens | `OneQuery`, `LoginIsAgreed`, `MishapIsSurvived`, `UserIsSpared`, `IdentityIsWhole` | 9.9 million |

What the properties are about:

- `ConnectedIsServed`: the end of an old thread, a failed reconnection and a
  disconnect in any order never leave `connected` set without a thread, as
  long as the socket is there. If a listener reconnects in the flush of a
  `disconnect()`, this goes on to close the new socket, and `connected` stays.
- `ImplementsHandover`: the slots behave like `Handover`, that is, a thread
  leaves only after it was told to, and its successor enters after it.
- `FramesIntact`: the loop, the flush of any thread and forced writes share
  the socket without tearing a packet apart.
- `NoCrossTalk`: nothing that was queued before a connection was made is sent
  on it, also by a sender that waits for a listener meanwhile; only if this very
  listener has reconnected does its packet go to the new connection.
- `FlushedOnReturn`: a `disconnect()` that comes to its end leaves no packet
  of its caller unsent on the connection it closes, but for those that a
  listener has ignored or an exception has cost.
- `QueuedIsSent`: of a connection that stays up, nothing stays in the queue,
  unless the server stops in the middle of a packet for ever.
- `ServerAgrees`: the server knows the messages it sent and adds up the
  offsets of the packets it receives; what it takes a packet to acknowledge is
  what the client signed. It and `BacklogBounded` and `ChainLinked` hold if
  chat is written from listeners (by the networking thread) only;
  `IndexesConsecutive` and `ListsAreConsistent` hold also if one application
  thread chats.
- `NothingGarbled`: streams change their modes without a lock, and packets are
  read and reacted to without one, and yet both sides agree, but for three
  cases that the property names: a packet that the user writes during the login;
  a new connection that is made while the old thread has read a packet or reacts
  to it, and gets its answer, its 'set compression' or its wrappers; and the old
  connection, whose last packet is then parsed under the compression of the new
  one. `LoginSettles` names two: a stream that ends inside of a packet,
  for which `read_packet` spins, and those.
- `SessionsAreEncrypted`: "this server or one before" is what holds, since
  `_encryption_enabled` is never reset.
- `NoClassShadowed`, `LifelinesDecoded`: ids are unique in every release, and in
  snapshots for all packets that a reactor has to answer.
- `RepliesAreUnderstood`: replies are read after the state has changed under
  them, by a server under whose ids they could be something else.
- `ReadsWhatIsWritten`: no branch of `read` and `write_fields` disagrees under
  any version, but for maps from 452 on and sounds of registry id 0 from 766.
- `FieldsAreKept`: each packed field at the limits of its widths; angles only
  up to the last step before a full turn, the rest is `AnglesAreSent`.
- `ListsAgree`: masks that change several fields at once neither lose nor
  invent a change, although the bit 0x40 has been a removal, an order and a hat.
- `ModesAreIndependent`: set before the version is known, in any order.
- `MishapIsSurvived`: the retries are enough for one mishap, a fault or a token
  that expires between its check and its use, on top of whatever has expired or
  been cut off before the call. What they do not survive is in the property:
  two mishaps, one in the requests that follow the loops, and tokens that no
  retry replaces (revoked, or issued for an earlier key).

Violated runs, each one claim of a comment, docstring, message or test that
the code does not keep (the counterexample is the shortest one):

| run | the claim | what happens |
|---|---|---|
| `HandlerSparesNewConnection` | `connection.py` 563-566 | another thread connects between the test of line 567 and the disconnect of 568, which closes its new connection |
| `MismatchIsForbidden` | `connection.py` 585-587 | the server gives no version in its status, the client falls back to its default (1018-1031), and the server, which has another of the allowed versions, rejects that: it is reported as not allowed (811-820) |
| `AnglesAreSent` | `basic.py` 142, `tests/test_serialization.py` 76-79 | from 359.3 degrees on an angle is rounded to 256, which is no byte |

The first needs two threads that use one `Connection`; the library offers a
lock for `connect` and `disconnect` and a queue for `write_packet`, and no
text asks the application to call them from one thread only. The second is one
`connect()` of one thread to one server, with several versions allowed.

Behaviours that the models have and that no run is about, for a reader who
wonders: a disconnect during the status query can be followed by a connection
of the library's own (`connection.py` 1018-1031); the exit handler is skipped
if another thread has connected meanwhile (593-595); `disconnect` before the
first `connect` raises `AttributeError` (496, 506); a packet can be appended
to a deque that was just replaced, and is never sent (243, 469); with two
threads that chat, messages can share an index or a previous signature
(`chat_signing.py` 257-271), and with one, the signed list can be out of order
(142-143) or precede the session packet (`connection.py` 909-916); the default
version need not be an allowed one (`connection.py` 168-171).

Three more claims are definitions of the modules, for a reader who wants to see
their counterexamples: `ReactorServesSocket` of `ConnectionThreads` (a packet
read from the old connection makes the login reactor of the new one a play
reactor, against `connection.py` 409), `HandshakeFirst` of `OutgoingQueue` (what
another thread writes while the socket connects is in the new queue, line 469,
before the handshake, 516-523, against `tests/fake_server.py` 303-305) and
`PendingCountsUnacknowledged` of
`ChatSigning` (an increment is lost to a concurrent reset, against
`chat_signing.py` 114-118).

Seen while the protocol modules were written:

- In snapshots, ids collide: 'disconnect' and 'named sound effect' (471-476 and
  721-750), 'chat message' and 'multi block change' (317), and others;
  `tests/test_packets.py` 175-208 looks for them under the newest versions. The
  id 0x5F of 'player list header and footer' for 461 to 470 stands between
  0x50 and 0x53.
- A packet that the user writes while the state changes is read in another
  state; relative flags of 'player position and look' are ignored in the
  answer before protocol 107.
- From protocol 766 on a sound of registry id 0 is read as an inline one
  (`sound_effect_packet.py` 51-55); a map is written without `is_locked`, and
  from `PRE | 6` on with `is_tracking_position` in another place.
- `VarInt.send` of a negative number does not end; a threshold of -1 in 'set
  compression' arrives as 4294967295.
- `pure_game_mode` returns a hardcore bit that `game_mode` has set, under 738 to
  765; a packet read with a combined mask and written again has one entry per
  action.
- `disconnect()` while another thread reacts to 'encryption request' leaves a
  wrapper of None behind.
- A Microsoft session whose refresh token is revoked fails until the cached
  tokens expire, without asking the user, as `force_xbl_refresh` sets a flag
  that nothing reads (`auth_flow.py` 147); a user who declines is asked up to
  four times.
- `validate()` returns None for a token that is not valid, though its docstring
  says that it raises (`authentication.py` 180-197); a response without a
  profile leaves new tokens next to the old profile (130-134).

### Bounds

- *Threads and connections.* Three connections are needed for a thread that
  dies while a second one waits and a third one is requested. The model has
  no other use of a fourth: a slot pair holds two, and what is dead is never
  looked at again except by `join`. The proofs need no bound at all.
- *Queue.* `Burst` (300 in the code) is 1 or 2 and `ReadLimit` (50) is 1: both
  limits are hit. `OutgoingQueue_delivery` has the read limit below the burst, as
  in the code, so that a full burst skips the reads, and two packets and the
  handshake are a queue longer than a burst. In `OutgoingQueue_safety`, with
  several writers and connections, one packet of a user or a listener next to
  the two handshakes is enough to be in anybody's hands at any time. Two calls of
  listeners are a disconnect and a connect, or one in each of two packets.
- *Chat.* The ring has 2 slots instead of 20 and `AckLimit` is 2 instead of
  64; three messages go round the ring and exceed the limit. In the code
  the limit is above the capacity, so that acknowledgement packets name
  messages which have already left the ring; with three pending messages and
  two slots the run contains that case.
- *Chain.* Three senders and room for two: an entry is cut, moved to the
  front, and pushed out by its own sender.
- *Login.* Protocols 340, 763 and 764 are one of each kind: without chat
  sessions, with them, and with a configuration state. Two connections show
  what one leaves for the next; one packet of the user can be at any place.
- *Packets.* The versions are not bounded: all that pyCraft supports are
  checked. Two replies are the most that one reaction queues, so with four a
  state changes while others wait.
- *Records.* Two players, as no action is about more than one. A map of 2 by 2
  has parts of every shape relative to the map.
- *Accounts.* Four faults exhaust both loops of retries. Three accounts and four
  tokens have an authentication, a refresh and two of other accounts between.
- *Versions.* Three supported versions, every non-empty allowed set, every
  default, and a server that changes its version whenever no play state is
  reached.

`CHECK_DEADLOCK FALSE` is set where the bounds, or an application that is done,
end the behaviours.

### Fairness

`LiveSpec` of `ConnectionThreads` assumes strong fairness of every step of a
thread and of every method in progress, and none of the calls of the
application. Python runs every runnable thread; a thread that waits for the
lock may find it taken again and again, but it is also free again and again,
and nothing keeps it for ever: critical sections contain no waiting except
`socket.connect` and sends, which end or raise. Callbacks are assumed to return,
those under the lock too (`ListenersEnd`).

Waiting for a packet to begin ends after 50 ms (`read_timeout`). In the middle of
a packet nothing ends the wait (`connection.py` 701-708) but its rest or the end
of the stream. `LiveSpec` of `ConnectionThreads` assumes that one of them comes:
for the threads that its properties are about, those that are told to stop,
the disconnect has closed the stream. In `OutgoingQueue` the rest of a packet
(`NetRestArrives`) has no fairness, and `QueuedIsSent` names the case in which
it never comes; otherwise `LiveSpec` assumes strong fairness of the writers and of
the networking thread.

`Spec` of `LoginProtocol` assumes weak fairness of the networking thread and of a
server that has not closed, and strong fairness of the thread's writes, as `_run`
writes before each read; a stream that ends inside of a packet leaves
the thread spinning, which is an exception of `LoginSettles`. Users need do
nothing, and a server may close at any time but need not.

## 4. What is proved

`ConnectionThreads_proofs` holds, for all sets of application threads and
networking threads that are disjoint from each other and from the special
values (`ActorsAssumption`):

| theorem | statement |
|---|---|
| `TypeCorrect` | `Spec => []TypeOK` |
| `SlotsAreTruthful` | `Spec => []SlotsTruthful` |
| `OneRunner` | `Spec => []SingleRunner` |
| `SocketsAreOwn` | `Spec => []OwnSocket` |
| `ReadsAreOwn` | `Spec => []ReadsOwnStream` |
| `HandlerHasThread` | `Spec => []HandlerFindsThread` |
| `ConnectionIsServed` | `Spec => []ConnectedIsServed` |
| `RefinesHandover` | `Spec => ImplementsHandover` |

None of these is inductive by itself. The invariant `Inv` joins

- `TypeOK`;
- `LockOwned`: exactly the owner of the lock is in the middle of a method;
- `Connecting`: between the making of a socket and the start of its thread
  there is no existing connection, and the socket is installed, open and has
  no thread yet. This is what `_check_connection` establishes and the lock
  preserves, and why the second test in `_start_network_thread` never fails;
- `SlotsTruthful`, `OwnSocket`, `ReadsOwnStream`.

`SlotsTruthful` is kept by a thread that ends because its successor holds the
other slot; by `TakeOver` because the previous thread is dead and therefore,
by the invariant, the first slot is empty; by `StartThread` because of
`Connecting`. `OwnSocket` survives a `disconnect` because it interrupts exactly
the thread that would still be entitled to the socket (`Current`), and a
`connect` because none is. `ReadsOwnStream` follows from `OwnSocket` at the
unlocked read of line 660. There is one lemma per action, `NextInv` combines
them, and `SpecInv` concludes with PTL. The refinement needs one more
invariant, `EndsInterrupted`: a thread on its way out was told to stop, so it
may `Leave`.

`ConnectedIsServed` needs `Served`, which says what the word "connected" means
(`Live`: with the socket) while no thread is entitled to go on: either some
actor is between the making of a socket and the start of its thread
(`Opening`), or the running thread has failed and is on its way to the
disconnect of line 568 (`Failing`), also through a method that a handler has
called and that returns there. A thread that is told to stop while it waits is
no exception, since every `disconnect` clears the flag before it interrupts; it
sets the socket to None as well, which is what remains when a listener in its
flush has set the flag again.

`OutgoingQueue_proofs` holds for every set of writers (none of them named like
the networking thread or the free lock, `WritersAssumption`) and all bounds
(`BoundsAssumption`):

| theorem | statement |
|---|---|
| `TypeCorrect` | `Spec => []TypeOK` |
| `FramesAreIntact` | `Spec => []FramesIntact` |
| `QueuesAreApart` | `Spec => []NoCrossTalk` |
| `OrderedDelivery` | `Spec => []InOrderOnce` |
| `FlushDelivers` | `Spec => FlushedOnReturn` |

`FramesIntact` is not inductive: it says nothing of who is about to send the
body that is missing at the end of a wire. `Inv` adds

- `LockOwner`: exactly the owner of the lock is at a label of `Holding`, and
  `Nesting`: what a listener has begun is begun in the owner's hands;
- `BodyFollows`: an actor between the two sends has just sent the length of
  the packet it holds, on the socket that is still installed;
- `CutOnlyBroken`: a length without a body is the end of a wire only while
  an actor is about to send the body, or for ever, on a socket that is broken;
- `AtHand`, `QueuesNumbered`, `Links`: the packets in deque `g`, and those
  about to be appended to it, were queued for connection `g`; so was one
  in the hand of a sender, or for a newer one, unless its own listener has
  carried it over; the socket is never newer than the deque attribute.

A reconnection by another actor cannot come between the pop and the reading of
the socket, because the lock is held through both; one by the listener can, and
is the only way to move a packet over.

`LengthSent` and `BodySent` show what the two sends do to the wires (resting on
`FramedLength` and `FramedBody`, about sequences), `NoSend` that the other
steps keep what was sent and who is about to send, `Others` that a step leaves
what the other actors hold alone unless it has the lock. One lemma per group
of like actions follows.

The order needs a second invariant, `OrderInv`, next to `Inv`. A packet passes
three places: the queue, the hands of the one that has popped it, the wire.
`Stages` says that for the installed connection everything in a later place was
written before everything in an earlier one (while a listener flushes,
what it flushes overtakes the packet it was called for, but then no socket is
left for that: `Overtaking`), `QueuesOrdered` that the queue is
ordered in itself, and `Numbered` and `LastWritten` that what a writer is about
to append, perhaps to a deque it loaded before a reconnection, comes after all
of its packets that are out anywhere. `Fresh` keeps a handshake, which is put
into a deque that is new, from overtaking anything. `Accounted` says that what
was queued is in one of the three places or was lost, as long as its socket is
the installed one; with an empty queue and nothing under way it gives
`FlushedOnReturn`, an action property. `PopEffect`, `PushEffect`,
`LengthEffect` and `BodyEffect` say what the four moves of a packet do to the
places; each action is then one or two moves.

`LoginProtocol_proofs` holds for all versions, connections and packets
(`LoginAssumption`):

| theorem | statement |
|---|---|
| `BothSidesAgree` | `Spec => []NothingGarbled` |
| `SessionsEncrypted` | `Spec => []SessionsAreEncrypted` |

For the second, `SessionInv` says of everything that leads to an announcement
that a server has asked for encryption before (`Asked`): a request on the wire,
a thread between `Join` and `SetFlag`, the flag itself, a queued announcement
(`Justified`); with it `StreamsType`, `ServerType` and `ChannelType`, that a
request that was read but not reacted to yet was made by a server too, and that
announcements are on connections that there have been. Each step moves at most
one link of this chain, and what a server has asked is never forgotten, as
`connections` only grows.

For the first, `NothingGarbled` only speaks of the moment at which a packet is
read, long after it was written, so that `Agreed` has to relate the modes of
the server, of the socket and of the file object to everything under way. A
packet that the thread has read and does not react to yet is counted as one
that it has still to read (`At`, `Incoming`): its reaction changes modes, not
its reading. Of the last connection, unless it has been overtaken (the exception
that the property makes), `LastAgreed` says

- `Readable`: the packets to the client can be read one after the other, while
  the modes change: each was encrypted if the client reads encrypted then
  (`Ciphered`), compressed if compression is on or one before it
  switches it on (`Compresses`), and none but the end of the stream follows a
  request for encryption. The file object has the mode of `Ciphered` only once
  the thread is past `WrapFile`;
- `Agrees`: what is on its way to the server was written under the modes that
  the server has now;
- `Stage`: for each state of the server, what the client owes: the packets that
  open the login, nothing while the server chooses, the answer to what it has
  asked, in the queue or on the wire and exactly once, with nothing but packets
  of the user around it. This is why the answer to a request for encryption is
  forced past the queue before the wrappers are installed, and why a server
  that waits sends nothing that would be read in the wrong mode;
- `Shut`: of a connection that the client has closed, what is left to read;
- `Attends`: what the thread has at hand was read from this connection, for the
  reactor of now;
- `Unopened`: while a successor waits for the old thread's end, this
  has no packet in its hands, is not between `Join` and `WrapFile`, and nothing of
  the login has been written.

Of every connection that was not overtaken `Parsable` says that a packet which
is about to be parsed has the format of the compression of now. This is where
a reconnection in the middle of a read would break it, and why the exceptions
have to name both connections.

`Open` joins these as a predicate of values; one lemma per kind of step
(`OpenPops`, `OpenForces`, `OpenWrapsSocket`, `OpenReads`, `OpenSends`, ...) says
that it is kept, and one per action that the action is such a step.

`VersionNegotiation_proofs` holds for every finite set of supported versions,
all versions that servers may report, and all choices of the application
(`VersionsAssumption`):

| theorem | statement |
|---|---|
| `AlwaysAVersion` | `Spec => []TypeOK` |
| `NegotiationEnds` | `Spec => []OneQuery` |
| `VersionIsAgreed` | `Spec => []LoginIsAgreed` |

The invariant `Negotiated` adds what the two calls of `connect` in a negotiation
have between them: a query under way is the first one and has no answer yet,
and the versions that are still allowed are among those given and the default.
`ConnectWithFacts` says that a single allowed version is logged in with and
several are asked about; it rests on `LatestExists` (a finite set of numbers
that is not empty has a greatest one, so `max` of line 420 has a value).

`ChatSigning_proofs` holds for any writers, any capacity of the ring buffer,
any limit, any numbers of messages and of play states (`BoundsAssumption`,
`UsagesAssumption`):

| theorem | statement |
|---|---|
| `TypeCorrect` | `Spec => []TypeOK` |
| `AcknowledgesTheSame` | `Spec => []ServerAgrees` |
| `BacklogIsBounded` | `Spec => []BacklogBounded` |
| `IndexesAreConsecutive` | `Spec => []IndexesConsecutive` |

The last one rests on `Numbered`: between the load of the session's index and
the appending of the packet, index, loaded value and packet are the number of
chat messages queued so far, or one more. The others hold when the networking
thread writes all chat, and rest on

- `Counted`: of each play state, the messages seen are the pending ones, the
  acknowledged ones (`Position`, a sum over the queue) and those in between,
  which `Uncounted` reads off the label of the thread;
- `Current`: what was loaded of the pending count is still its value;
- `Limited`: only while a message is dealt with is the limit exceeded, by one;
- `Ringed`: slot `offset + k` modulo the capacity holds the (k+1)-th last of
  the messages, before, between and after the two stores of a push;
- `Listed`: what the loop of `acknowledge` has collected after `j` slots is the
  beginning of what the server would list.

`ChatChain_proofs` holds for any senders, any capacity of the list, any numbers
of play states, messages and packets (`BoundsAssumption`), and any finite sets
of writers (`UsagesAssumption`):

| theorem | statement |
|---|---|
| `EntriesRecent` | `Spec => []EntriesAreRecent` |
| `ChainIsLinked` | `Spec => []ChainLinked` |
| `ListsConsistent` | `Spec => []ListsAreConsistent` |
| `RecentIsOneList` | only one list is `Recent` after `n` messages |

The last one says that the property does not leave a choice: it determines the
entries. The first rests on the loop of `push`: `Kept` says what it has kept
after `k` entries (`KeptStep`, `KeptAtEnd`), and `PushRecent` that cutting the
result leaves what is recent; a sender who speaks again frees the place that
his own message takes. For the chain, `Linked` says that what the networking
thread signs next, or has signed and not yet queued, follows the last message
in the queue. For the lists, `Consistent` says that the list which is being
signed was right at one moment, no earlier than any list that was sent; since
messages are only added to what was seen, the moment stays (`MomentsStay`).

`Records_proofs` has `ModesIndependent` (`ModeSpec => []ModesAreIndependent`)
for every set of versions: while only the version-independent attributes are
used, `mode738` is the mode, `mode0` is the mode with the hardcore bit, and
`worldMode` is the mode without one, whichever of the two was set first. It has
`MapsAreEqual` (`MapSpec => []MapsAgree`) for every size of the map
(`SizeAssumption`) and every part of it: `PartIndex` says that the pixel `i` of
a part of width `w` lies at column `i % w` and row `i \div w`, that this hits
each cell of the part once, and that `PartIsPainted` therefore paints the cells
that the packet covers, and no other. It rests on three lemmas about quotient
and remainder, for which the provers have no arithmetic of their own. And it
has `PlayerListsAgree` (`ListSpec => []ListsAgree`) for all players and all
sets of known versions (`ListVersionsAssumption`, which also has the order of
the three versions that the code compares with: facts about the table, which
the run evaluates). `SameOrder` and `EntryRead` say that a value is read where
it was written, `ActionsMade` which actions the reader makes of a mask and that
each is made once, `OneType` that the mask of one type gives that type alone,
so that no two branches of `_write_bitmask` and `_read_bitmask` take a bit for
different things under one version; then `ReceivedEffect` is that a packet does
what the server did, and `MaskEffect` that the actions made of a combined mask,
in the order of the reader, change the fields that the mask names to the values
of the entry, and no other field and no other player.

`Accounts_proofs` holds for all accounts and any number of tokens, whatever
earlier calls, crashes, expiries and revocations have left in the caches, and
for any number of failing requests:

| theorem | statement |
|---|---|
| `UserIsAskedRarely` | `AuthSpec => []UserIsSpared` |
| `MishapsAreSurvived` | `AuthSpec => []MishapIsSurvived` |
| `TokenIsWhole` | `TokenSpec => []IdentityIsWhole` |

For the first, `Asked` bounds the prompts by the attempts that were begun, two
in each of two rounds, and says that the token which the user has authorised is
never replaced by a worse one. For the second, `Withstood` follows a call that
nothing would excuse if it failed (`NoExcuse`). Only a mishap (`Mishap`) leads
it out of its first round; and as long as there has been none, or in the last
round, nothing stands in its way (`Sound`): what it uses of the closure is
valid (`Kept`), so is the 'msa' token, or the second attempt, which forces a
refresh, replaces it (`Mended`). `Held` says which tokens are at hand at each
request. `TokenIsWhole` is proved from `TokenInv`: an access token, once set,
is one of those issued, and it, the client token and the user name are assigned
together from one response.

The specifications of a part of a module that a run composes with others
(`ModeSpec`, `MapSpec`, `ListSpec`, `AuthSpec`, `TokenSpec`) are `Init` and
`Next` of that part; the runs check the same properties of the composition, in
which a step changes the variables of at most one part.

**Recursion and induction.** The library's induction theorems cannot be used,
since they take an operator as a parameter. Two things stand in for them here.
`LeastNumber` and `LatestExists` argue by a smallest counterexample, with
`WFMin` and the well-foundedness of strict inclusion of finite sets, whose
parameters are sets. And a recursive function, or a sum over a set, is what is
chosen to satisfy its equation: `PositionsExist`, `PositionsAgree` and
`SumsExist` show that there is one such function below every bound, after which
`PositionZero`, `PositionStep` and `TermsAreBelowSum` are all that the proofs
use; `LoopsExist` and `PushChosen` do this for the loop of `push`,
`FirstApplied` and `NoneApplied` for the one of `apply`, which runs over at
most nine actions of an entry.

**Only model-checked.**

- Liveness (`PendingRuns`, `InterruptedStops`, `QueuedIsSent`, `LoginSettles`):
  out of the prover's reach.
- The properties of `PacketExchange` and `PacketTransfer` (with `PacketIds`,
  `PacketLayouts` and `FieldTypes`): these state facts about the finite tables of
  the code, for which TLC's check of all supported versions is complete, or
  about encodings that are recursive (`VarInt`, NBT), for which the sample has
  the cases that the code distinguishes. A proof would repeat the tables.

## 5. What is not modelled

- *Ciphers, hashes, compression, HTTP, DNS.* They belong to libraries. Whether a
  packet is compressed under a threshold (`packet.py` 79) does not change how it
  is read, except for its format, which `LoginProtocol` has.
- *Packets with one `definition`.* The same list is used to write and to read,
  so they cannot disagree; their ids are modelled, their fields only where a
  reactor uses them.
- *What is signed.* The byte layouts, the checksum of protocol 770 and
  certificate parsing are pure and have no reference but the server. Protocol
  759's signatures keep no state.
- *Selection of handlers and listeners.* By type and order of registration; in
  `ConnectionThreads` any may run, and what they do is the application's. Of
  outgoing listeners, those of packets that a listener writes or flushes
  only return or raise: calls are nested once, not without end.
- *Ping.* In `ConnectionThreads` a `ping` answer is one of the responses of the
  status reactor.
- *Partial sends.* A send is whole or raises (`packet.py` 96).
- *A 'disconnect' of the server that crosses the answer to 'encryption request'.*
  It would be read under the wrong mode; the server of `LoginProtocol` closes
  without it.
- *Two programs with one cache directory, and `initglobals` at run time.* Both
  change what others read without any protection.
- *Examples, scripts, the test server, enums and exceptions.*

## 6. Plan

Done: `ConnectionThreads` and `Handover`; `OutgoingQueue`; `ChatSigning` and
`ChatChain`; `VersionNegotiation`; `LoginProtocol`; the packets and records;
both kinds of accounts; and the proofs of section 4, of every safety property
but those about the packet tables. Next, in this order:

1. the selection of exception handlers and listeners by type and order;
2. partial sends (`packet.py` 96) in `OutgoingQueue`;
3. what protocol 770 adds to a signature, if its server side is documented.
