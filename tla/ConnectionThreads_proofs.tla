----------------------- MODULE ConnectionThreads_proofs -----------------------
(***************************************************************************)
(* Proofs about ConnectionThreads, for any number of application threads   *)
(* and of reconnections.                                                   *)
(***************************************************************************)
EXTENDS ConnectionThreads, TLAPS

\* Exactly the owner of the lock is in the middle of a method.
LockOwned == \A a \in Actors : InLock(a) <=> lock = a

\* Between the creation of a socket and the start of its thread no other
\* connection exists, and the socket is installed and new.
Connecting ==
    \A a \in Actors :
        /\ pc[a] \in {"c_reactor", "c_start", "s_start"} =>
              /\ ~Existing
              /\ socket \in Threads
              /\ pc[socket] = "unborn"
              /\ file_object = socket
              /\ socket \in open
        /\ pc[a] = "s_reactor" => socket \in Threads

\* The inductive invariant: what the lock protects, and what the two slots,
\* the sockets and the interrupt flags have to do with each other.
Inv ==
    /\ TypeOK
    /\ LockOwned
    /\ Connecting
    /\ SlotsTruthful
    /\ OwnSocket
    /\ ReadsOwnStream

\* Initially the invariant holds.
LEMMA InitInv == Init => Inv
<1> SUFFICES ASSUME Init PROVE Inv
  OBVIOUS
<1> USE DEF Init, Actors
<1>1. TypeOK
  BY ActorsAssumption DEF TypeOK, Labels, ReturnLabels, Calls, PlainCalls,
     Reactors, NoReactor, ReactorKinds, Packets, NoPacket, NoCall
<1>2. LockOwned /\ Connecting
  BY ActorsAssumption DEF LockOwned, Connecting, InLock
<1>3. SlotsTruthful /\ OwnSocket /\ ReadsOwnStream
  BY ActorsAssumption DEF SlotsTruthful, OwnSocket, ReadsOwnStream, Running
<1> QED
  BY <1>1, <1>2, <1>3 DEF Inv

------------------------------------------------------------------------------
(* Calls and the lock.                                                      *)

\* Where the steps of one actor may lead while it holds the lock.
LockLabels == {"c_reactor", "c_start", "s_start", "s_reactor", "d_close",
               "w_held", "d_held"}

\* A call returns to the listener that made it under the lock, or to a place
\* that does not hold the lock.
LEMMA CallsReturn ==
    ASSUME TypeOK, NEW a \in Actors
    PROVE  /\ Held(a) => /\ ret[a].ok = ret[a].bad
                         /\ ret[a].ok \in {"w_held", "d_held"}
           /\ ~Held(a) => /\ ret[a] \in PlainCalls
                          /\ ret[a].ok \in ReturnLabels
                          /\ ret[a].bad \in ReturnLabels
           /\ outer[a].ok \in ReturnLabels /\ outer[a].bad \in ReturnLabels
<1>1. ret[a] \in Calls /\ outer[a] \in PlainCalls
  BY DEF TypeOK
<1>2. ~Held(a) => ret[a] \in PlainCalls
  BY <1>1 DEF Held, Calls
<1>3. \A c \in PlainCalls : c.ok \in ReturnLabels /\ c.bad \in ReturnLabels
  BY DEF PlainCalls
<1>4. Held(a) => /\ ret[a].ok = ret[a].bad
                 /\ ret[a].ok \in {"w_held", "d_held"}
  BY DEF Held, FromLoop, FromFlush
<1> QED
  BY <1>1, <1>2, <1>3, <1>4

\* The calls of a listener under the lock are none of the others.
LEMMA CallKinds ==
    /\ PlainCalls \cap {FromLoop, FromFlush} = {}
    /\ NoCall \in PlainCalls
    /\ FromLoop \in Calls /\ FromFlush \in Calls
    /\ PlainCalls \subseteq Calls
    /\ ReturnLabels \subseteq Labels
    /\ ReturnLabels \cap ({"connect", "disconnect", "status", "abort", "recv",
                           "unborn", "waiting", "dead"} \cup LockLabels) = {}
BY DEF PlainCalls, Calls, FromLoop, FromFlush, NoCall, ReturnLabels, Labels,
   LockLabels

\* The lock stays with the actor in the middle of a method when one actor
\* takes it, keeps it or gives it back.
LEMMA LockMoves ==
    ASSUME Inv, NEW a \in Actors,
           lock \in {NoThread, a}, lock' \in {NoThread, a},
           \A b \in Actors : b # a => (InLock(b)' => InLock(b)),
           InLock(a)' <=> lock' = a
    PROVE  LockOwned'
<1> SUFFICES ASSUME NEW b \in Actors, b # a
             PROVE  ~InLock(b)' /\ lock' # b
  BY DEF LockOwned
<1>1. b # NoThread
  BY ActorsAssumption DEF Actors
<1>2. ~InLock(b)
  BY <1>1 DEF Inv, LockOwned
<1> QED
  BY <1>1, <1>2

\* No step of another actor makes one hold the lock.
LEMMA OthersOutside ==
    ASSUME TypeOK, NEW a \in Actors, NEW l, pc' = [pc EXCEPT ![a] = l],
           ret' = ret \/ \E c : ret' = [ret EXCEPT ![a] = c]
    PROVE  /\ \A b \in Actors : b # a => (InLock(b)' => InLock(b))
           /\ pc'[a] = l
BY DEF TypeOK, InLock, Held

\* A method that comes to its end gives the lock back if it took it.
LEMMA LockGivenBack ==
    ASSUME Inv, NEW a \in Actors, NEW l, pc' = [pc EXCEPT ![a] = l],
           l \in {ret[a].ok, ret[a].bad},
           ret' = [ret EXCEPT ![a] = NoCall],
           lock \in {NoThread, a}, Release(a)
    PROVE  LockOwned'
<1>1. TypeOK
  BY DEF Inv
<1>2. IF Held(a) THEN l \in {"w_held", "d_held"} ELSE l \in ReturnLabels
  BY <1>1, CallsReturn
<1>3. \A b \in Actors : b # a => (InLock(b)' => InLock(b))
  BY <1>1, OthersOutside
<1>4. pc'[a] = l /\ a # NoThread
  BY <1>1, ActorsAssumption DEF TypeOK, Actors
<1>5. InLock(a)' <=> Held(a)
  BY <1>2, <1>4, CallKinds DEF InLock, LockLabels
<1>6. lock' = IF Held(a) THEN a ELSE NoThread
  BY DEF Release
<1> QED
  BY <1>3, <1>4, <1>5, <1>6, LockMoves

\* Nobody connects while the lock is free, or held by one who does not.
LEMMA NotConnecting ==
    ASSUME LockOwned', NEW a \in Actors, lock' \in {NoThread, a},
           pc'[a] \notin {"c_reactor", "c_start", "s_start", "s_reactor"}
    PROVE  Connecting'
<1> SUFFICES ASSUME NEW b \in Actors,
                    pc'[b] \in {"c_reactor", "c_start", "s_start", "s_reactor"}
             PROVE  FALSE
  BY DEF Connecting
<1>1. lock' = b /\ b # NoThread
  BY ActorsAssumption DEF LockOwned, InLock, Actors
<1> QED
  BY <1>1

------------------------------------------------------------------------------
\* A step in which one actor moves between labels, a networking thread
\* between labels of a running thread, and nothing that the slots, sockets
\* and flags are made of changes.
LEMMA LocalStep ==
    ASSUME Inv, TypeOK', ReadsOwnStream', LockOwned',
           NEW a \in Actors, NEW l \in Labels,
           pc' = [pc EXCEPT ![a] = l],
           l \notin {"c_reactor", "c_start", "s_start", "s_reactor"},
           a \in Threads => Running(a) /\ l \notin {"unborn", "waiting", "dead"},
           UNCHANGED <<networking_thread, new_networking_thread, interrupt,
                       previous_thread, socket, file_object, open>>
    PROVE  Inv'
<1> USE DEF Inv
<1>1. \A b \in Actors : b # a => pc'[b] = pc[b]
  BY DEF TypeOK
<1>2. pc'[a] = l
  BY DEF TypeOK
<1>4. \A t \in Threads : Running(t)' <=> Running(t)
  BY <1>1, <1>2 DEF Running, Actors
<1>5. \A t \in Threads : pc'[t] = "waiting" <=> pc[t] = "waiting"
  BY <1>1, <1>2 DEF Running, Actors
<1>6. SlotsTruthful'
  BY <1>4, <1>5 DEF SlotsTruthful
<1>7. Connecting'
  <2> SUFFICES ASSUME NEW b \in Actors,
                      pc'[b] \in {"c_reactor", "c_start", "s_start", "s_reactor"}
               PROVE  /\ pc[b] = pc'[b]
                      /\ socket \in Threads /\ pc[socket] = "unborn"
                            => pc'[socket] = "unborn"
    BY DEF Connecting, Existing
  <2>1. pc[b] = pc'[b]
    BY <1>1, <1>2
  <2>2. ASSUME socket \in Threads, pc[socket] = "unborn"
        PROVE  pc'[socket] = "unborn"
    BY <2>2, <1>1 DEF Running, Actors
  <2> QED
    BY <2>1, <2>2
<1>8. OwnSocket'
  BY DEF OwnSocket
<1> QED
  BY <1>6, <1>7, <1>8

\* The same step, taken outside the lock: a jump, or a call of a method by
\* one who does not hold the lock.
LEMMA FreeStep ==
    ASSUME Inv, TypeOK', ReadsOwnStream',
           NEW a \in Actors, NEW l \in Labels,
           pc' = [pc EXCEPT ![a] = l],
           l \notin LockLabels,
           pc[a] \notin LockLabels \cup {"connect", "disconnect"},
           \/ ret' = ret /\ l \notin {"connect", "disconnect"}
           \/ \E c \in PlainCalls : ret' = [ret EXCEPT ![a] = c],
           a \in Threads => Running(a) /\ l \notin {"unborn", "waiting", "dead"},
           UNCHANGED <<slots, interrupt, previous_thread, socket, file_object,
                       open>>
    PROVE  Inv'
<1> USE DEF Inv
<1>1. pc'[a] = l /\ \A b \in Actors : b # a => (InLock(b)' <=> InLock(b))
  BY DEF TypeOK, InLock, Held
<1>2. ~InLock(a)
  BY DEF InLock, LockLabels
<1>3. ~InLock(a)'
  <2>1. CASE l \notin {"connect", "disconnect"}
    BY <1>1, <2>1 DEF InLock, LockLabels
  <2>2. CASE \E c \in PlainCalls : ret' = [ret EXCEPT ![a] = c]
    <3>1. ret'[a] \in PlainCalls
      BY <2>2 DEF TypeOK
    <3>2. ~Held(a)'
      BY <3>1, CallKinds DEF Held
    <3> QED
      BY <1>1, <3>2 DEF InLock, LockLabels
  <2> QED
    BY <2>1, <2>2
<1>4. LockOwned'
  BY <1>1, <1>2, <1>3 DEF LockOwned, slots
<1> QED
  BY <1>4, LocalStep DEF slots, LockLabels

\* ReadsOwnStream is kept when no thread enters a read.
LEMMA NoNewRead ==
    ASSUME Inv, NEW a \in Actors,
           NEW l \in Labels \ {"recv"}, pc' = [pc EXCEPT ![a] = l],
           UNCHANGED interrupt,
           stream' = stream \/ \E x : stream' = [stream EXCEPT ![a] = x]
    PROVE  ReadsOwnStream'
<1> SUFFICES ASSUME NEW t \in Threads, pc'[t] = "recv"
             PROVE  pc[t] = "recv" /\ stream'[t] = stream[t]
  BY DEF ReadsOwnStream, Inv
<1> QED
  BY DEF Inv, TypeOK, Actors

\* The types of pc and ret after a call or a jump.
LEMMA CallTyped ==
    ASSUME TypeOK, NEW a \in Actors, NEW op \in Labels,
           NEW ok \in ReturnLabels, NEW bad \in ReturnLabels,
           Call(a, op, ok, bad)
    PROVE  /\ pc' \in [Actors -> Labels]
           /\ ret' \in [Actors -> Calls]
           /\ \E c \in PlainCalls : ret' = [ret EXCEPT ![a] = c]
<1>1. [ok |-> ok, bad |-> bad] \in PlainCalls
  BY DEF PlainCalls
<1> QED
  BY <1>1 DEF Call, Goto, TypeOK, Calls

\* The type of pc after a jump.
LEMMA GotoTyped ==
    ASSUME TypeOK, NEW a \in Actors, NEW l \in Labels, Goto(a, l)
    PROVE  pc' \in [Actors -> Labels]
BY DEF Goto, TypeOK

\* The types of pc and ret after the end of a call.
LEMMA ReturnTyped ==
    ASSUME TypeOK, NEW a \in Actors, Return(a) \/ Raise(a)
    PROVE  /\ pc' \in [Actors -> Labels]
           /\ ret' \in [Actors -> Calls]
           /\ \E l \in Labels \ {"recv"} :
                 /\ l \in {ret[a].ok, ret[a].bad}
                 /\ l \in ReturnLabels \cup {"w_held", "d_held"}
                 /\ pc' = [pc EXCEPT ![a] = l]
                 /\ ret' = [ret EXCEPT ![a] = NoCall]
<1>1. PICK l \in {ret[a].ok, ret[a].bad} : /\ pc' = [pc EXCEPT ![a] = l]
                                           /\ ret' = [ret EXCEPT ![a] = NoCall]
  BY DEF Return, Raise, Goto
<1>2. l \in ReturnLabels \cup {"w_held", "d_held"}
  BY CallsReturn
<1>3. l \in Labels \ {"recv"}
  BY <1>2 DEF ReturnLabels, Labels
<1>4. NoCall \in Calls
  BY CallKinds
<1> QED
  BY <1>1, <1>2, <1>3, <1>4 DEF TypeOK

\* UserCall preserves the invariant.
LEMMA UserCallInv ==
    ASSUME Inv, NEW u \in Users, UserCall(u)
    PROVE  Inv'
<1> USE DEF Inv
<1>1. PICK op \in {"connect", "status", "disconnect", "abort"} :
          /\ pc' = [pc EXCEPT ![u] = op]
          /\ ret' = [ret EXCEPT ![u] = NoCall]
  BY DEF UserCall, Call, Goto, NoCall
<1>2. TypeOK'
  BY <1>1, CallKinds DEF UserCall, TypeOK, slots, conn, locals, Labels, Actors
<1>3. ReadsOwnStream'
  BY <1>1, NoNewRead DEF UserCall, Actors, Labels, locals
<1> QED
  BY <1>1, <1>2, <1>3, CallKinds, FreeStep, ActorsAssumption
  DEF UserCall, Actors, Labels, LockLabels, conn

------------------------------------------------------------------------------
(* connect, status and disconnect.                                          *)

\* ConnectRefused preserves the invariant.
LEMMA ConnectRefusedInv ==
    ASSUME Inv, NEW a \in Actors, ConnectRefused(a)
    PROVE  Inv'
<1> USE DEF Inv
<1>1. PICK l \in Labels \ {"recv"} :
          /\ l \in {ret[a].ok, ret[a].bad}
          /\ l \in ReturnLabels \cup {"w_held", "d_held"}
          /\ pc' = [pc EXCEPT ![a] = l]
          /\ ret' = [ret EXCEPT ![a] = NoCall]
  BY ReturnTyped DEF ConnectRefused
<1>2. TypeOK'
  BY ReturnTyped DEF ConnectRefused, TypeOK, slots, conn, locals
<1>3. ReadsOwnStream'
  BY <1>1, NoNewRead DEF ConnectRefused, locals
<1>4. LockOwned'
  BY <1>1, LockGivenBack DEF ConnectRefused, Acquire, Release, slots
<1> QED
  BY <1>1, <1>2, <1>3, <1>4, CallKinds, LocalStep
  DEF ConnectRefused, slots, conn, Running, LockLabels

\* DisconnectRaises preserves the invariant.
LEMMA DisconnectRaisesInv ==
    ASSUME Inv, NEW a \in Actors, DisconnectRaises(a)
    PROVE  Inv'
<1> USE DEF Inv
<1>1. PICK l \in Labels \ {"recv"} :
          /\ l \in {ret[a].ok, ret[a].bad}
          /\ l \in ReturnLabels \cup {"w_held", "d_held"}
          /\ pc' = [pc EXCEPT ![a] = l]
          /\ ret' = [ret EXCEPT ![a] = NoCall]
  BY ReturnTyped DEF DisconnectRaises
<1>2. TypeOK'
  BY ReturnTyped DEF DisconnectRaises, TypeOK, slots, locals
<1>3. ReadsOwnStream'
  BY <1>1, NoNewRead DEF DisconnectRaises, locals
<1>4. LockOwned'
  BY <1>1, LockGivenBack DEF DisconnectRaises, Acquire, Release, slots
<1> QED
  BY <1>1, <1>2, <1>3, <1>4, CallKinds, LocalStep
  DEF DisconnectRaises, slots, Running, LockLabels

\* The slots keep telling the truth when no thread is started, takes over or
\* dies.
LEMMA SlotsKept ==
    ASSUME Inv, NEW a \in Actors, NEW l \in Labels,
           pc' = [pc EXCEPT ![a] = l],
           a \in Threads => Running(a) /\ l \notin {"unborn", "waiting", "dead"},
           UNCHANGED <<networking_thread, new_networking_thread, previous_thread>>,
           \A t \in Threads : interrupt[t] => interrupt'[t]
    PROVE  SlotsTruthful'
<1> USE DEF Inv
<1>1. \A t \in Threads : Running(t)' <=> Running(t)
  BY DEF TypeOK, Running, Actors
<1>2. \A t \in Threads : pc'[t] = "waiting" <=> pc[t] = "waiting"
  BY DEF TypeOK, Running, Actors
<1> QED
  BY <1>1, <1>2 DEF SlotsTruthful, TypeOK

\* ConnectFails preserves the invariant.
LEMMA ConnectFailsInv ==
    ASSUME Inv, NEW a \in Actors, ConnectFails(a)
    PROVE  Inv'
<1> USE DEF Inv
<1>1. PICK l \in Labels \ {"recv"} :
          /\ l \in {ret[a].ok, ret[a].bad}
          /\ l \in ReturnLabels \cup {"w_held", "d_held"}
          /\ pc' = [pc EXCEPT ![a] = l]
          /\ ret' = [ret EXCEPT ![a] = NoCall]
  BY ReturnTyped DEF ConnectFails
<1>2. TypeOK'
  BY ReturnTyped DEF ConnectFails, TypeOK, slots, locals
<1>3. ReadsOwnStream'
  BY <1>1, NoNewRead DEF ConnectFails, locals
<1>4. LockOwned'
  BY <1>1, LockGivenBack DEF ConnectFails, Acquire, Release, slots
<1>5. Connecting'
  <2>1. pc'[a] = l /\ lock' \in {NoThread, a}
    BY <1>1 DEF TypeOK, ConnectFails, Acquire, slots
  <2> QED
    BY <1>1, <1>4, <2>1, CallKinds, NotConnecting DEF LockLabels
<1>6. SlotsTruthful'
  BY <1>1, CallKinds, SlotsKept DEF ConnectFails, slots, Running
<1>7. OwnSocket'
  BY DEF ConnectFails, slots, OwnSocket, Existing
<1> QED
  BY <1>2, <1>3, <1>4, <1>5, <1>6, <1>7

\* ConnectOpen preserves the invariant.
LEMMA ConnectOpenInv ==
    ASSUME Inv, NEW a \in Actors, ConnectOpen(a)
    PROVE  Inv'
<1> USE DEF Inv
<1>1. PICK l \in {"c_reactor", "s_start"} : pc' = [pc EXCEPT ![a] = l]
  BY DEF ConnectOpen, Goto
<1>2. PICK t \in Threads : /\ pc[t] = "unborn"
                           /\ socket' = t /\ file_object' = t
                           /\ open' = open \cup {t}
  BY DEF ConnectOpen
<1>3. TypeOK'
  BY <1>1, <1>2 DEF ConnectOpen, TypeOK, locals, Labels, Actors
<1>4. ReadsOwnStream'
  BY <1>1, NoNewRead DEF ConnectOpen, Labels, locals
<1>5. LockOwned'
  <2>1. \A b \in Actors : b # a => (InLock(b)' => InLock(b))
    BY <1>1, OthersOutside DEF ConnectOpen
  <2>2. lock \in {NoThread, a} /\ lock' = a
    BY DEF ConnectOpen, Acquire
  <2>3. InLock(a)'
    BY <1>1 DEF InLock, TypeOK
  <2> QED
    BY <2>1, <2>2, <2>3, LockMoves
<1>6. Connecting'
  <2> SUFFICES ASSUME NEW b \in Actors,
                      pc'[b] \in {"c_reactor", "c_start", "s_start", "s_reactor"}
               PROVE  /\ b = a
                      /\ ~Existing' /\ socket' \in Threads
                      /\ pc'[socket'] = "unborn"
                      /\ file_object' = socket' /\ socket' \in open'
    BY <1>1 DEF Connecting, TypeOK
  <2>1. b = a
    BY <1>1, <1>5 DEF LockOwned, InLock, ConnectOpen
  <2>2. pc'[t] = "unborn"
    BY <1>1, <1>2 DEF ConnectOpen, TypeOK, Actors
  <2> QED
    BY <1>2, <2>1, <2>2 DEF ConnectOpen, Existing
<1>7. SlotsTruthful'
  BY <1>1, SlotsKept DEF ConnectOpen, Labels, Running
<1>8. OwnSocket'
  BY DEF ConnectOpen, OwnSocket, Existing
<1> QED
  BY <1>3, <1>4, <1>5, <1>6, <1>7, <1>8

\* ConnectReactor preserves the invariant.
LEMMA ConnectReactorInv ==
    ASSUME Inv, NEW a \in Actors, ConnectReactor(a)
    PROVE  Inv'
<1> USE DEF Inv
<1>1. pc' = [pc EXCEPT ![a] = "c_start"]
  BY DEF ConnectReactor, Goto
<1>2. socket \in Threads
  BY DEF ConnectReactor, Connecting
<1>3. TypeOK'
  BY <1>1, <1>2 DEF ConnectReactor, TypeOK, locals, slots, Labels, Reactors,
     ReactorKinds
<1>4. ReadsOwnStream'
  BY <1>1, NoNewRead DEF ConnectReactor, Labels, locals
<1>5. LockOwned'
  BY <1>1 DEF ConnectReactor, slots, LockOwned, InLock, Held, TypeOK
<1>6. Connecting'
  BY <1>1 DEF ConnectReactor, slots, Connecting, Existing, TypeOK, Actors
<1>7. SlotsTruthful'
  BY <1>1, SlotsKept DEF ConnectReactor, slots, Labels, Running
<1>8. OwnSocket'
  BY DEF ConnectReactor, slots, OwnSocket
<1> QED
  BY <1>3, <1>4, <1>5, <1>6, <1>7, <1>8

\* StatusReactorSet preserves the invariant.
LEMMA StatusReactorSetInv ==
    ASSUME Inv, NEW a \in Actors, StatusReactorSet(a)
    PROVE  Inv'
<1> USE DEF Inv
<1>1. PICK l \in Labels \ {"recv"} :
          /\ l \in {ret[a].ok, ret[a].bad}
          /\ l \in ReturnLabels \cup {"w_held", "d_held"}
          /\ pc' = [pc EXCEPT ![a] = l]
          /\ ret' = [ret EXCEPT ![a] = NoCall]
  BY ReturnTyped DEF StatusReactorSet
<1>2. socket \in Threads /\ lock = a
  BY DEF StatusReactorSet, Connecting, LockOwned, InLock
<1>3. TypeOK'
  <2>1. reactor' \in Reactors
    BY <1>2 DEF StatusReactorSet, Reactors, ReactorKinds
  <2>2. lock' \in Actors \cup {NoThread}
    BY DEF StatusReactorSet, Release
  <2> QED
    BY <2>1, <2>2, ReturnTyped DEF StatusReactorSet, TypeOK, locals
<1>4. ReadsOwnStream'
  BY <1>1, NoNewRead DEF StatusReactorSet, locals
<1>5. LockOwned'
  BY <1>1, <1>2, LockGivenBack DEF StatusReactorSet
<1> QED
  BY <1>1, <1>3, <1>4, <1>5, CallKinds, LocalStep
  DEF StatusReactorSet, Running, LockLabels

\* DisconnectFlush preserves the invariant.
LEMMA DisconnectFlushInv ==
    ASSUME Inv, NEW a \in Actors, DisconnectFlush(a)
    PROVE  Inv'
<1> USE DEF Inv
<1>1. pc' = [pc EXCEPT ![a] = "d_close"]
  BY DEF DisconnectFlush, Goto
<1>2. TypeOK'
  BY <1>1 DEF DisconnectFlush, TypeOK, locals, Labels
<1>3. ReadsOwnStream'
  BY <1>1, NoNewRead DEF DisconnectFlush, Labels, locals
<1>4. LockOwned'
  <2>1. \A b \in Actors : b # a => (InLock(b)' => InLock(b))
    BY <1>1, OthersOutside DEF DisconnectFlush
  <2>2. lock \in {NoThread, a} /\ lock' = a
    BY DEF DisconnectFlush, Acquire
  <2>3. InLock(a)'
    BY <1>1 DEF InLock, TypeOK
  <2> QED
    BY <2>1, <2>2, <2>3, LockMoves
<1> QED
  BY <1>1, <1>2, <1>3, <1>4, LocalStep
  DEF DisconnectFlush, Labels, Running

\* DisconnectListens preserves the invariant.
LEMMA DisconnectListensInv ==
    ASSUME Inv, NEW a \in Actors, DisconnectListens(a)
    PROVE  Inv'
<1> USE DEF Inv
<1>1. PICK l \in {"connect", "disconnect"} :
          /\ pc' = [pc EXCEPT ![a] = l]
          /\ ret' = [ret EXCEPT ![a] = FromFlush]
  BY ActorsAssumption DEF DisconnectListens, Call, Goto, FromFlush
<1>2. lock \in {NoThread, a} /\ lock' = a
  BY DEF DisconnectListens, LockOwned, InLock
<1>3. TypeOK'
  <2>1. pc' \in [Actors -> Labels] /\ ret' \in [Actors -> Calls]
    BY <1>1, CallKinds DEF TypeOK, Labels
  <2>2. outer' \in [Actors -> PlainCalls]
    BY CallsReturn DEF DisconnectListens, TypeOK
  <2>3. connected' \in BOOLEAN
    BY DEF DisconnectListens, TypeOK
  <2> QED
    BY <1>2, <2>1, <2>2, <2>3 DEF DisconnectListens, TypeOK, locals
<1>4. ReadsOwnStream'
  BY <1>1, NoNewRead DEF DisconnectListens, locals, Labels
<1>5. LockOwned'
  <2>1. \A b \in Actors : b # a => (InLock(b)' => InLock(b))
    BY <1>1, OthersOutside
  <2>2. InLock(a)'
    BY <1>1 DEF InLock, Held, TypeOK
  <2> QED
    BY <1>2, <2>1, <2>2, LockMoves
<1> QED
  BY <1>1, <1>3, <1>4, <1>5, LocalStep
  DEF DisconnectListens, Labels, Running

\* FlushEnds preserves the invariant.
LEMMA FlushEndsInv ==
    ASSUME Inv, NEW a \in Actors, FlushEnds(a)
    PROVE  Inv'
<1> USE DEF Inv
<1>1. PICK l \in ReturnLabels \cup {"d_close"} :
          /\ pc' = [pc EXCEPT ![a] = l]
          /\ l = "d_close" => lock' = lock
          /\ l # "d_close" => lock' = NoThread
          /\ ret' = ret \/ ret' = [ret EXCEPT ![a] = outer[a]]
  <2>1. outer[a].bad \in ReturnLabels /\ "d_close" \notin ReturnLabels
    BY CallsReturn, CallKinds DEF LockLabels
  <2> QED
    BY <2>1 DEF FlushEnds, Goto
<1>2. lock = a /\ a # NoThread
  BY ActorsAssumption DEF FlushEnds, LockOwned, InLock, Actors
<1>3. l \in Labels \ {"recv"}
  BY CallKinds DEF Labels
<1>4. TypeOK'
  <2>1. outer[a] \in Calls
    BY DEF TypeOK, Calls
  <2>2. pc' \in [Actors -> Labels] /\ ret' \in [Actors -> Calls]
    BY <1>1, <1>3, <2>1 DEF TypeOK
  <2>3. outer' \in [Actors -> PlainCalls]
    BY CallKinds DEF FlushEnds, TypeOK
  <2> QED
    BY <1>1, <1>2, <2>2, <2>3 DEF FlushEnds, TypeOK, locals, conn
<1>5. ReadsOwnStream'
  BY <1>1, <1>3, NoNewRead DEF FlushEnds, locals
<1>6. LockOwned'
  <2>1. \A b \in Actors : b # a => (InLock(b)' => InLock(b))
    BY <1>1, OthersOutside
  <2>2. InLock(a)' <=> l = "d_close"
    BY <1>1, CallKinds DEF InLock, LockLabels, TypeOK
  <2> QED
    BY <1>1, <1>2, <2>1, <2>2, LockMoves
<1> QED
  BY <1>1, <1>3, <1>4, <1>5, <1>6, CallKinds, LocalStep
  DEF FlushEnds, conn, Running, LockLabels

\* DisconnectClose preserves the invariant.
LEMMA DisconnectCloseInv ==
    ASSUME Inv, NEW a \in Actors, DisconnectClose(a)
    PROVE  Inv'
<1> USE DEF Inv
<1>0. Return(a) \/ Raise(a)
  BY DEF DisconnectClose
<1>1. PICK l \in Labels \ {"recv"} :
          /\ l \in {ret[a].ok, ret[a].bad}
          /\ l \in ReturnLabels \cup {"w_held", "d_held"}
          /\ pc' = [pc EXCEPT ![a] = l]
          /\ ret' = [ret EXCEPT ![a] = NoCall]
  BY <1>0, ReturnTyped
<1>2. TypeOK'
  <2>1. lock' \in Actors \cup {NoThread}
    BY DEF DisconnectClose, Release
  <2>2. interrupt' \in [Threads -> BOOLEAN]
    BY DEF DisconnectClose, TypeOK
  <2>3. /\ socket' \in Threads \cup {"unset", "gone", "unconnected"}
        /\ open' \subseteq Threads
    BY DEF DisconnectClose, TypeOK
  <2> QED
    BY <1>0, <2>1, <2>2, <2>3, ReturnTyped DEF DisconnectClose, TypeOK, locals
<1>3. \A t \in Threads : interrupt[t] => interrupt'[t]
  BY DEF DisconnectClose, TypeOK
<1>4. ReadsOwnStream'
  <2> SUFFICES ASSUME NEW t \in Threads, pc'[t] = "recv", ~interrupt'[t]
               PROVE  stream'[t] = t
    BY DEF ReadsOwnStream
  <2>1. pc[t] = "recv" /\ ~interrupt[t]
    BY <1>1, <1>3 DEF TypeOK, Actors
  <2> QED
    BY <2>1 DEF ReadsOwnStream, DisconnectClose, locals
<1>5. LockOwned'
  <2>1. lock = a
    BY DEF DisconnectClose, LockOwned, InLock
  <2> QED
    BY <1>1, <2>1, LockGivenBack DEF DisconnectClose
<1>6. Connecting'
  <2>1. pc'[a] = l /\ lock' \in {NoThread, a}
    BY <1>1 DEF TypeOK, DisconnectClose, Release
  <2> QED
    BY <1>1, <1>5, <2>1, CallKinds, NotConnecting DEF LockLabels
<1>7. SlotsTruthful'
  BY <1>1, <1>3, CallKinds, SlotsKept DEF DisconnectClose, Running
<1>8. OwnSocket'
  <2> SUFFICES ASSUME NEW t \in {networking_thread, new_networking_thread}
                                    \ {NoThread},
                      ~interrupt'[t]
               PROVE  FALSE
    BY DEF OwnSocket, DisconnectClose
  <2>1. t \in Threads /\ t # Current
    BY DEF DisconnectClose, TypeOK
  <2>2. new_networking_thread # NoThread /\ t = networking_thread
    BY <2>1 DEF Current
  <2> QED
    BY <1>3, <2>1, <2>2 DEF SlotsTruthful
<1> QED
  BY <1>2, <1>4, <1>5, <1>6, <1>7, <1>8

\* StartThread preserves the invariant.
LEMMA StartThreadInv ==
    ASSUME Inv, NEW a \in Actors, StartThread(a)
    PROVE  Inv'
<1> USE DEF Inv
<1> DEFINE first == networking_thread = NoThread
           l == IF pc[a] = "c_start" THEN ret[a].ok ELSE "s_reactor"
<1>1. /\ socket \in Threads /\ pc[socket] = "unborn"
      /\ file_object = socket /\ socket \in open
      /\ new_networking_thread = NoThread
      /\ networking_thread # NoThread => interrupt[networking_thread]
  BY DEF StartThread, Connecting, Existing
<1>2. /\ pc' = [pc EXCEPT ![socket] = IF first THEN "loop" ELSE "waiting",
                          ![a] = l]
      /\ l \in ReturnLabels \cup {"s_reactor", "w_held", "d_held"}
      /\ a # socket
      /\ a \in Threads => Running(a)
      /\ networking_thread' = IF first THEN socket ELSE networking_thread
      /\ new_networking_thread' = IF first THEN NoThread ELSE socket
  BY <1>1, CallsReturn DEF StartThread, TypeOK, Running
<1>3. /\ pc'[a] = l
      /\ pc'[socket] = IF first THEN "loop" ELSE "waiting"
      /\ \A b \in Actors \ {a, socket} : pc'[b] = pc[b]
  BY <1>1, <1>2 DEF TypeOK, Actors
<1>4. TypeOK'
  <2>1. pc' \in [Actors -> Labels]
    <3>1. {"loop", "waiting", "s_reactor", "w_held", "d_held"} \subseteq Labels
      BY DEF Labels
    <3> QED
      BY <1>2, <3>1, CallKinds DEF TypeOK
  <2>2. ret' \in [Actors -> Calls]
    BY CallKinds DEF StartThread, TypeOK
  <2>3. lock' \in Actors \cup {NoThread}
    BY DEF StartThread, Release, TypeOK
  <2>4. previous_thread' \in [Threads -> Threads \cup {NoThread}]
    BY DEF StartThread, TypeOK
  <2> QED
    BY <1>1, <1>2, <2>1, <2>2, <2>3, <2>4 DEF StartThread, TypeOK, locals, conn
<1>5. ReadsOwnStream'
  BY <1>1, <1>2, <1>3
  DEF StartThread, ReadsOwnStream, locals, ReturnLabels, Actors
<1>6. LockOwned'
  <2>1. lock = a
    BY DEF StartThread, LockOwned, InLock
  <2>2. \A b \in Actors : b # a => (InLock(b)' => InLock(b))
    <3>1. \A b \in Actors : b = socket => ~InLock(b)'
      BY <1>1, <1>3 DEF InLock
    <3>2. \A b \in Actors \ {a, socket} : ret'[b] = ret[b]
      BY DEF StartThread, TypeOK
    <3> QED
      BY <1>3, <3>1, <3>2 DEF InLock, Held
  <2>3. CASE pc[a] = "c_start"
    <3>1. l \in {ret[a].ok}
      BY <2>3
    <3>2. lock' = (IF Held(a) THEN a ELSE NoThread) /\ a # NoThread
      BY <2>3, ActorsAssumption DEF StartThread, Release, Actors
    <3>3. InLock(a)' <=> Held(a)
      BY <1>3, <3>1, CallsReturn, CallKinds DEF InLock, LockLabels
    <3> QED
      BY <2>1, <2>2, <3>2, <3>3, LockMoves
  <2>4. CASE pc[a] = "s_start"
    BY <1>3, <2>1, <2>2, <2>4, LockMoves DEF StartThread, InLock
  <2> QED
    BY <2>3, <2>4 DEF StartThread
<1>7. Connecting'
  <2>1. lock = a /\ lock' \in {NoThread, a}
    BY DEF StartThread, LockOwned, InLock, Release
  <2> SUFFICES ASSUME NEW b \in Actors, pc'[b] \in
                          {"c_reactor", "c_start", "s_start", "s_reactor"}
               PROVE  pc'[b] = "s_reactor"
    BY <1>1 DEF Connecting, StartThread, conn
  <2>2. b = a
    BY <1>6, <2>1, ActorsAssumption DEF LockOwned, InLock, Actors
  <2> QED
    BY <1>2, <1>3, <2>2, CallKinds DEF LockLabels
<1>8. SlotsTruthful'
  <2>1. ~Running(socket) /\ pc[socket] # "waiting"
    BY <1>1 DEF Running
  <2>2. \A t \in Threads : t # socket => (Running(t)' <=> Running(t))
    BY <1>2, <1>3 DEF Running, ReturnLabels, Actors
  <2>3. \A t \in Threads : t # socket => pc'[t] # "waiting"
    BY <1>1, <1>2, <1>3, ActorsAssumption
    DEF SlotsTruthful, ReturnLabels, Actors
  <2>4. ASSUME NEW t \in Threads
        PROVE  /\ Running(t)' <=> networking_thread' = t
               /\ pc'[t] = "waiting" <=> new_networking_thread' = t
    <3>1. networking_thread # socket
      BY <2>1, <1>1 DEF SlotsTruthful
    <3>2. CASE t = socket
      <4>1. CASE first
        BY <1>1, <1>2, <1>3, <3>2, <4>1, ActorsAssumption DEF Running
      <4>2. CASE ~first
        BY <1>1, <1>2, <1>3, <3>1, <3>2, <4>2 DEF Running
      <4> QED
        BY <4>1, <4>2
    <3>3. CASE t # socket
      BY <1>1, <1>2, <2>2, <2>3, <3>3, ActorsAssumption DEF SlotsTruthful
    <3> QED
      BY <3>2, <3>3
  <2>5. ASSUME new_networking_thread' # NoThread,
               networking_thread' # NoThread
        PROVE  /\ interrupt'[networking_thread']
               /\ previous_thread'[new_networking_thread'] = networking_thread'
    BY <1>1, <1>2, <2>5 DEF StartThread, TypeOK
  <2> QED
    BY <2>4, <2>5 DEF SlotsTruthful
<1>9. OwnSocket'
  BY <1>1, <1>2, ActorsAssumption DEF StartThread, OwnSocket, conn
<1> QED
  BY <1>4, <1>5, <1>6, <1>7, <1>8, <1>9

------------------------------------------------------------------------------
(* The networking thread.                                                   *)

\* A waiting thread finds the first slot empty when its predecessor is dead.
LEMMA SlotEmptyAtTakeOver ==
    ASSUME Inv, NEW t \in Threads, pc[t] = "waiting",
           pc[previous_thread[t]] = "dead"
    PROVE  new_networking_thread = t /\ networking_thread = NoThread
<1>1. new_networking_thread = t
  BY DEF Inv, SlotsTruthful
<1>2. networking_thread # NoThread => Running(networking_thread)
  BY DEF Inv, SlotsTruthful, TypeOK
<1> QED
  BY <1>1, <1>2, ActorsAssumption DEF Inv, SlotsTruthful, TypeOK, Running

\* TakeOver preserves the invariant.
LEMMA TakeOverInv ==
    ASSUME Inv, NEW t \in Threads, TakeOver(t)
    PROVE  Inv'
<1> USE DEF Inv
<1>1. pc' = [pc EXCEPT ![t] = "loop"]
  BY DEF TakeOver, Goto
<1>2. new_networking_thread = t /\ networking_thread = NoThread
  BY SlotEmptyAtTakeOver DEF TakeOver
<1>3. TypeOK'
  BY <1>1 DEF TakeOver, TypeOK, locals, conn, Labels
<1>4. ReadsOwnStream'
  BY <1>1, NoNewRead DEF TakeOver, locals, Labels, Actors
<1>5. LockOwned'
  BY <1>1 DEF TakeOver, LockOwned, InLock, Held, TypeOK
<1>6. Connecting'
  BY <1>5, ActorsAssumption
  DEF TakeOver, Connecting, LockOwned, InLock, Actors
<1>7. SlotsTruthful'
  BY <1>1, <1>2, ActorsAssumption
  DEF TakeOver, SlotsTruthful, Running, TypeOK, Actors
<1>8. OwnSocket'
  BY <1>2, ActorsAssumption DEF TakeOver, OwnSocket, conn
<1> QED
  BY <1>3, <1>4, <1>5, <1>6, <1>7, <1>8

\* Finally preserves the invariant.
LEMMA FinallyInv ==
    ASSUME Inv, NEW t \in Threads, Finally(t)
    PROVE  Inv'
<1> USE DEF Inv
<1>1. pc' = [pc EXCEPT ![t] = "dead"]
  BY DEF Finally, Goto
<1>2. networking_thread = t
  BY DEF Finally, SlotsTruthful, Running
<1>3. TypeOK'
  BY <1>1 DEF Finally, TypeOK, conn, Labels, NoPacket
<1>4. ReadsOwnStream'
  BY <1>1, NoNewRead DEF Finally, Labels, Actors
<1>5. LockOwned'
  BY <1>1 DEF Finally, LockOwned, InLock, Held, TypeOK
<1>6. Connecting'
  BY <1>5, ActorsAssumption
  DEF Finally, Connecting, LockOwned, InLock, Actors
<1>7. SlotsTruthful'
  BY <1>1, <1>2, ActorsAssumption
  DEF Finally, SlotsTruthful, Running, TypeOK, Actors
<1>8. OwnSocket'
  BY DEF Finally, OwnSocket, conn
<1> QED
  BY <1>3, <1>4, <1>5, <1>6, <1>7, <1>8

\* BindFile preserves the invariant.
LEMMA BindFileInv ==
    ASSUME Inv, NEW t \in Threads, BindFile(t)
    PROVE  Inv'
<1> USE DEF Inv
<1>1. PICK l \in {"recv", "raised"} : pc' = [pc EXCEPT ![t] = l]
  BY DEF BindFile, Goto
<1>2. TypeOK'
  BY <1>1 DEF BindFile, TypeOK, slots, conn, Labels
<1>3. ~interrupt[t] => file_object = t
  BY ActorsAssumption DEF BindFile, SlotsTruthful, Running, OwnSocket
<1>4. ReadsOwnStream'
  <2> SUFFICES ASSUME NEW s \in Threads, pc'[s] = "recv", ~interrupt[s]
               PROVE  stream'[s] = s
    BY DEF ReadsOwnStream, BindFile
  <2>1. CASE s = t
    BY <1>3, <2>1 DEF BindFile, TypeOK
  <2>2. CASE s # t
    BY <1>1, <2>2 DEF BindFile, TypeOK, ReadsOwnStream, Actors
  <2> QED
    BY <2>1, <2>2
<1> QED
  BY <1>1, <1>2, <1>4, FreeStep
  DEF BindFile, slots, conn, Labels, Actors, LockLabels, Running

\* Interrupted preserves the invariant.
LEMMA InterruptedInv ==
    ASSUME Inv, NEW t \in Threads, Interrupted(t)
    PROVE  Inv'
<1> USE DEF Inv
<1>1. PICK l \in {"except", "except_eof"} : pc' = [pc EXCEPT ![t] = l]
  BY DEF Interrupted, Goto
<1>2. TypeOK'
  <2>1. /\ pc' \in [Actors -> Labels]
        /\ ret' \in [Actors -> Calls]
    BY <1>1 DEF Interrupted, TypeOK, Labels, Actors
  <2>2. /\ bound' \in [Threads -> Reactors]
        /\ stream' \in [Threads -> Threads \cup {NoThread, "unset"}]
        /\ packet' \in [Threads -> Packets \cup {NoPacket}]
        /\ write_error' \in [Threads -> BOOLEAN]
        /\ interrupt' \in [Threads -> BOOLEAN]
    BY DEF Interrupted, TypeOK, NoReactor, Reactors
  <2> QED
    BY <2>1, <2>2 DEF Interrupted, TypeOK, slots, conn
<1>3. ReadsOwnStream'
  BY <1>1 DEF Interrupted, ReadsOwnStream, TypeOK, Actors
<1>4. LockOwned'
  BY <1>1 DEF Interrupted, slots, LockOwned, InLock, Held, TypeOK, Actors
<1>5. Connecting'
  <2> SUFFICES ASSUME NEW b \in Actors, pc'[b] \in
                          {"c_reactor", "c_start", "s_start", "s_reactor"}
               PROVE  /\ pc[b] = pc'[b]
                      /\ Existing' => Existing
                      /\ socket \in Threads /\ pc[socket] = "unborn"
                            => pc'[socket] = "unborn"
    BY DEF Connecting, Interrupted, conn
  <2> QED
    BY <1>1 DEF Interrupted, slots, Existing, TypeOK, Actors
<1>6. SlotsTruthful'
  BY <1>1, SlotsKept
  DEF Interrupted, slots, Labels, Running, TypeOK, Actors
<1>7. OwnSocket'
  BY DEF Interrupted, slots, conn, OwnSocket, TypeOK
<1> QED
  BY <1>2, <1>3, <1>4, <1>5, <1>6, <1>7

\* LoopTop preserves the invariant.
LEMMA LoopTopInv ==
    ASSUME Inv, NEW t \in Threads, LoopTop(t)
    PROVE  Inv'
<1> USE DEF Inv
<1>1. PICK l \in {"raised", "exit", "write"} :
          pc' = [pc EXCEPT ![t] = l]
  BY DEF LoopTop, Goto
<1>2. TypeOK'
  BY <1>1 DEF LoopTop, TypeOK, slots, conn, locals, Labels, Actors
<1>3. ReadsOwnStream'
  BY <1>1, NoNewRead DEF LoopTop, locals, Labels, Actors
<1> QED
  BY <1>1, <1>2, <1>3, FreeStep
  DEF LoopTop, slots, conn, Labels, Actors, LockLabels, Running

\* WriteListens preserves the invariant.
LEMMA WriteListensInv ==
    ASSUME Inv, NEW t \in Threads, WriteListens(t)
    PROVE  Inv'
<1> USE DEF Inv
<1>0. t \in Actors
  BY DEF Actors
<1>1. PICK l \in {"connect", "disconnect"} :
          /\ pc' = [pc EXCEPT ![t] = l]
          /\ ret' = [ret EXCEPT ![t] = FromLoop]
  BY ActorsAssumption DEF WriteListens, Call, Goto, FromLoop
<1>2. lock \in {NoThread, t} /\ lock' = t
  BY <1>0 DEF WriteListens, LockOwned, InLock
<1>3. TypeOK'
  <2>1. pc' \in [Actors -> Labels] /\ ret' \in [Actors -> Calls]
    BY <1>1, CallKinds DEF TypeOK, Labels
  <2> QED
    BY <1>0, <1>2, <2>1 DEF WriteListens, TypeOK, conn, locals
<1>4. ReadsOwnStream'
  BY <1>0, <1>1, NoNewRead DEF WriteListens, locals, Labels
<1>5. LockOwned'
  <2>1. \A b \in Actors : b # t => (InLock(b)' => InLock(b))
    BY <1>0, <1>1, OthersOutside
  <2>2. InLock(t)'
    BY <1>0, <1>1 DEF InLock, Held, TypeOK
  <2> QED
    BY <1>0, <1>2, <2>1, <2>2, LockMoves
<1> QED
  BY <1>0, <1>1, <1>3, <1>4, <1>5, LocalStep
  DEF WriteListens, conn, Labels, Running

\* WriteQueue preserves the invariant.
LEMMA WriteQueueInv ==
    ASSUME Inv, NEW t \in Threads, WriteQueue(t)
    PROVE  Inv'
<1> USE DEF Inv
<1>0. t \in Actors /\ t # NoThread
  BY ActorsAssumption DEF Actors
<1>1. PICK l \in {"poll", "raised"} :
          pc' = [pc EXCEPT ![t] = l]
  BY DEF WriteQueue, Goto
<1>2. lock \in {NoThread, t} /\ lock' = NoThread
  BY <1>0 DEF WriteQueue, LockOwned, InLock
<1>3. TypeOK'
  <2>1. write_error' \in [Threads -> BOOLEAN]
    BY DEF WriteQueue, TypeOK
  <2>2. pc' \in [Actors -> Labels]
    BY <1>1 DEF TypeOK, Labels
  <2> QED
    BY <1>2, <2>1, <2>2 DEF WriteQueue, TypeOK, conn
<1>4. ReadsOwnStream'
  BY <1>0, <1>1, NoNewRead DEF WriteQueue, Labels
<1>5. LockOwned'
  <2>1. \A b \in Actors : b # t => (InLock(b)' => InLock(b))
    BY <1>0, <1>1, OthersOutside DEF WriteQueue
  <2>2. ~InLock(t)'
    BY <1>0, <1>1 DEF InLock, TypeOK
  <2> QED
    BY <1>0, <1>2, <2>1, <2>2, LockMoves
<1> QED
  BY <1>0, <1>1, <1>3, <1>4, <1>5, LocalStep
  DEF WriteQueue, conn, Labels, Running

\* Poll preserves the invariant.
LEMMA PollInv ==
    ASSUME Inv, NEW t \in Threads, Poll(t)
    PROVE  Inv'
<1> USE DEF Inv
<1>1. PICK l \in {"loop", "bind"} :
          pc' = [pc EXCEPT ![t] = l]
  BY DEF Poll, Goto
<1>2. TypeOK'
  BY <1>1 DEF Poll, TypeOK, slots, conn, locals, Labels, Actors, NoPacket
<1>3. ReadsOwnStream'
  BY <1>1, NoNewRead DEF Poll, locals, Labels, Actors
<1> QED
  BY <1>1, <1>2, <1>3, FreeStep
  DEF Poll, slots, conn, Labels, Actors, LockLabels, Running

\* BindReactor preserves the invariant.
LEMMA BindReactorInv ==
    ASSUME Inv, NEW t \in Threads, BindReactor(t)
    PROVE  Inv'
<1> USE DEF Inv
<1>1. PICK l \in {"bind_file"} :
          pc' = [pc EXCEPT ![t] = l]
  BY DEF BindReactor, Goto
<1>2. TypeOK'
  BY <1>1 DEF BindReactor, TypeOK, slots, conn, locals, Labels, Actors
<1>3. ReadsOwnStream'
  BY <1>1, NoNewRead DEF BindReactor, locals, Labels, Actors
<1> QED
  BY <1>1, <1>2, <1>3, FreeStep
  DEF BindReactor, slots, conn, Labels, Actors, LockLabels, Running

\* Recv preserves the invariant.
LEMMA RecvInv ==
    ASSUME Inv, NEW t \in Threads, Recv(t)
    PROVE  Inv'
<1> USE DEF Inv
<1>1. PICK l \in {"early", "loop", "raised", "raised_eof"} :
          pc' = [pc EXCEPT ![t] = l]
  BY DEF Recv, Goto
<1>2. TypeOK'
  <2>1. /\ pc' \in [Actors -> Labels]
        /\ ret' \in [Actors -> Calls]
    BY <1>1 DEF Recv, TypeOK, Labels, Actors
  <2>2. Parses(bound[t].kind) \subseteq PacketNames
    BY DEF Parses, PacketNames
  <2>3. packet' \in [Threads -> Packets \cup {NoPacket}]
    BY <2>2 DEF Recv, TypeOK, Packets
  <2>4. /\ bound' \in [Threads -> Reactors]
        /\ stream' \in [Threads -> Threads \cup {NoThread, "unset"}]
    BY DEF Recv, TypeOK, NoReactor, Reactors
  <2> QED
    BY <2>1, <2>3, <2>4 DEF Recv, TypeOK, slots, conn
<1>3. ReadsOwnStream'
  BY <1>1, NoNewRead DEF Recv, locals, Labels, Actors
<1> QED
  BY <1>1, <1>2, <1>3, FreeStep
  DEF Recv, slots, conn, Labels, Actors, LockLabels, Running

\* EarlyListeners preserves the invariant.
LEMMA EarlyListenersInv ==
    ASSUME Inv, NEW t \in Threads, EarlyListeners(t)
    PROVE  Inv'
<1> USE DEF Inv
<1>1. PICK l \in {"react", "raised", "poll", "connect", "disconnect"} :
          pc' = [pc EXCEPT ![t] = l]
  BY DEF EarlyListeners, Call, Goto
<1>2. TypeOK'
  <2>1. /\ pc' \in [Actors -> Labels]
        /\ ret' \in [Actors -> Calls]
    <3>1. CASE \E op \in {"connect", "disconnect"} :
                  Call(t, op, "react", "raised")
      <4>1. PICK op \in {"connect", "disconnect"} :
                Call(t, op, "react", "raised")
        BY <3>1
      <4>2. TypeOK /\ t \in Actors /\ op \in Labels
        BY DEF Labels, Actors
      <4>3. "react" \in ReturnLabels /\ "raised" \in ReturnLabels
        BY DEF ReturnLabels
      <4> QED
        BY <4>1, <4>2, <4>3, CallTyped
    <3>2. CASE UNCHANGED ret /\ \E x \in {"react", "raised", "poll"} : Goto(t, x)
      BY <3>2, GotoTyped DEF TypeOK, Labels, Actors
    <3> QED
      BY <3>1, <3>2 DEF EarlyListeners
  <2>2. write_error' \in [Threads -> BOOLEAN]
    BY DEF EarlyListeners, Forgive, TypeOK
  <2> QED
    BY <2>1, <2>2 DEF EarlyListeners, TypeOK, slots, conn
<1>3. ReadsOwnStream'
  BY <1>1, NoNewRead DEF EarlyListeners, locals, Labels, Actors
<1>4. \/ ret' = ret /\ l \notin {"connect", "disconnect"}
      \/ \E c \in PlainCalls : ret' = [ret EXCEPT ![t] = c]
  BY <1>1
  DEF EarlyListeners, Call, Goto, Negotiate, Recover, PlainCalls,
      ReturnLabels, TypeOK, Actors
<1> QED
  BY <1>1, <1>2, <1>3, <1>4, FreeStep
  DEF EarlyListeners, slots, conn, Labels, Actors, LockLabels, Running

\* LateListeners preserves the invariant.
LEMMA LateListenersInv ==
    ASSUME Inv, NEW t \in Threads, LateListeners(t)
    PROVE  Inv'
<1> USE DEF Inv
<1>1. PICK l \in {"raised", "poll", "connect", "disconnect"} :
          pc' = [pc EXCEPT ![t] = l]
  BY DEF LateListeners, Call, Goto
<1>2. TypeOK'
  BY <1>1 DEF LateListeners, TypeOK, slots, conn, locals, Labels, Actors,
     Forgive, Call, ReturnLabels, Calls, PlainCalls
<1>3. ReadsOwnStream'
  BY <1>1, NoNewRead DEF LateListeners, locals, Labels, Actors
<1>4. \/ ret' = ret /\ l \notin {"connect", "disconnect"}
      \/ \E c \in PlainCalls : ret' = [ret EXCEPT ![t] = c]
  BY <1>1
  DEF LateListeners, Call, Goto, Negotiate, Recover, PlainCalls, ReturnLabels,
      TypeOK, Actors
<1> QED
  BY <1>1, <1>2, <1>3, <1>4, FreeStep
  DEF LateListeners, slots, conn, Labels, Actors, LockLabels, Running

\* React preserves the invariant.
LEMMA ReactInv ==
    ASSUME Inv, NEW t \in Threads, React(t)
    PROVE  Inv'
<1> USE DEF Inv
<1>1. PICK l \in {"disconnect", "late", "raised"} :
          pc' = [pc EXCEPT ![t] = l]
  BY DEF React, Call, Goto
<1>2. TypeOK'
  <2>1. /\ pc' \in [Actors -> Labels]
        /\ ret' \in [Actors -> Calls]
    BY CallTyped, GotoTyped
    DEF React, TypeOK, Labels, ReturnLabels, Actors
  <2>2. reactor' = reactor \/ reactor' = [kind |-> "play", for |-> packet[t].from]
    BY DEF React
  <2>3. packet[t].from \in Threads \cup {NoThread}
    BY DEF TypeOK, Packets, NoPacket
  <2>4. reactor' \in Reactors
    BY <2>2, <2>3 DEF TypeOK, Reactors, ReactorKinds
  <2> QED
    BY <2>1, <2>4 DEF React, TypeOK, slots, locals
<1>3. ReadsOwnStream'
  BY <1>1, NoNewRead DEF React, locals, Labels, Actors
<1>4. \/ ret' = ret /\ l \notin {"connect", "disconnect"}
      \/ \E c \in PlainCalls : ret' = [ret EXCEPT ![t] = c]
  BY <1>1 DEF React, Call, Goto, Negotiate, Recover, PlainCalls, ReturnLabels,
     TypeOK, Actors
<1> QED
  BY <1>1, <1>2, <1>3, <1>4, FreeStep
  DEF React, slots, conn, Labels, Actors, LockLabels, Running

\* HandleStatus preserves the invariant.
LEMMA HandleStatusInv ==
    ASSUME Inv, NEW t \in Threads, HandleStatus(t)
    PROVE  Inv'
<1> USE DEF Inv
<1>1. PICK l \in {"raised", "connect"} :
          pc' = [pc EXCEPT ![t] = l]
  BY DEF HandleStatus, Call, Goto
<1>2. TypeOK'
  <2>1. /\ pc' \in [Actors -> Labels]
        /\ ret' \in [Actors -> Calls]
    BY CallTyped, GotoTyped
    DEF HandleStatus, TypeOK, Labels, ReturnLabels, Negotiate, Actors
  <2> QED
    BY <2>1 DEF HandleStatus, TypeOK, slots, locals
<1>3. ReadsOwnStream'
  BY <1>1, NoNewRead DEF HandleStatus, locals, Labels, Actors
<1>4. \/ ret' = ret /\ l \notin {"connect", "disconnect"}
      \/ \E c \in PlainCalls : ret' = [ret EXCEPT ![t] = c]
  BY <1>1
  DEF HandleStatus, Call, Goto, Negotiate, Recover, PlainCalls, ReturnLabels,
      TypeOK, Actors
<1> QED
  BY <1>1, <1>2, <1>3, <1>4, FreeStep
  DEF HandleStatus, slots, conn, Labels, Actors, LockLabels, Running

\* HandleExit preserves the invariant.
LEMMA HandleExitInv ==
    ASSUME Inv, NEW t \in Threads, HandleExit(t)
    PROVE  Inv'
<1> USE DEF Inv
<1>1. PICK l \in {"finally", "raised", "connect"} :
          pc' = [pc EXCEPT ![t] = l]
  BY DEF HandleExit, Call, Goto
<1>2. TypeOK'
  BY <1>1 DEF HandleExit, TypeOK, slots, conn, locals, Labels, Actors, Call,
     ReturnLabels, Calls, PlainCalls
<1>3. ReadsOwnStream'
  BY <1>1, NoNewRead DEF HandleExit, locals, Labels, Actors
<1>4. \/ ret' = ret /\ l \notin {"connect", "disconnect"}
      \/ \E c \in PlainCalls : ret' = [ret EXCEPT ![t] = c]
  BY <1>1
  DEF HandleExit, Call, Goto, Negotiate, Recover, PlainCalls, ReturnLabels,
      TypeOK, Actors
<1> QED
  BY <1>1, <1>2, <1>3, <1>4, FreeStep
  DEF HandleExit, slots, conn, Labels, Actors, LockLabels, Running

\* ReactorHandler preserves the invariant.
LEMMA ReactorHandlerInv ==
    ASSUME Inv, NEW t \in Threads, ReactorHandler(t)
    PROVE  Inv'
<1> USE DEF Inv
<1>1. PICK l \in {"abort", "handlers"} :
          pc' = [pc EXCEPT ![t] = l]
  BY DEF ReactorHandler, Call, Goto
<1>2. TypeOK'
  <2>1. /\ pc' \in [Actors -> Labels]
        /\ ret' \in [Actors -> Calls]
    BY CallTyped, GotoTyped
    DEF ReactorHandler, TypeOK, Labels, ReturnLabels, Actors
  <2> QED
    BY <2>1 DEF ReactorHandler, TypeOK, slots, conn, locals
<1>3. ReadsOwnStream'
  BY <1>1, NoNewRead DEF ReactorHandler, locals, Labels, Actors
<1>4. \/ ret' = ret /\ l \notin {"connect", "disconnect"}
      \/ \E c \in PlainCalls : ret' = [ret EXCEPT ![t] = c]
  BY <1>1
  DEF ReactorHandler, Call, Goto, Negotiate, Recover, PlainCalls,
      ReturnLabels, TypeOK, Actors
<1> QED
  BY <1>1, <1>2, <1>3, <1>4, FreeStep
  DEF ReactorHandler, slots, conn, Labels, Actors, LockLabels, Running

\* HandleFailure preserves the invariant.
LEMMA HandleFailureInv ==
    ASSUME Inv, NEW t \in Threads, HandleFailure(t)
    PROVE  Inv'
<1> USE DEF Inv
<1>1. PICK l \in {"connect"} :
          pc' = [pc EXCEPT ![t] = l]
  BY DEF HandleFailure, Call, Goto
<1>2. TypeOK'
  BY <1>1 DEF HandleFailure, TypeOK, slots, conn, locals, Labels, Actors,
     Call, ReturnLabels, Calls, PlainCalls, Recover
<1>3. ReadsOwnStream'
  BY <1>1, NoNewRead DEF HandleFailure, locals, Labels, Actors
<1>4. \/ ret' = ret /\ l \notin {"connect", "disconnect"}
      \/ \E c \in PlainCalls : ret' = [ret EXCEPT ![t] = c]
  BY <1>1
  DEF HandleFailure, Call, Goto, Negotiate, Recover, PlainCalls, ReturnLabels,
      TypeOK, Actors
<1> QED
  BY <1>1, <1>2, <1>3, <1>4, FreeStep
  DEF HandleFailure, slots, conn, Labels, Actors, LockLabels, Running

\* UserHandlers preserves the invariant.
LEMMA UserHandlersInv ==
    ASSUME Inv, NEW t \in Threads, UserHandlers(t)
    PROVE  Inv'
<1> USE DEF Inv
<1>1. PICK l \in {"check", "connect", "disconnect"} :
          pc' = [pc EXCEPT ![t] = l]
  BY DEF UserHandlers, Call, Goto
<1>2. TypeOK'
  BY <1>1 DEF UserHandlers, TypeOK, slots, conn, locals, Labels, Actors,
     Call, ReturnLabels, Calls, PlainCalls
<1>3. ReadsOwnStream'
  BY <1>1, NoNewRead DEF UserHandlers, locals, Labels, Actors
<1>4. \/ ret' = ret /\ l \notin {"connect", "disconnect"}
      \/ \E c \in PlainCalls : ret' = [ret EXCEPT ![t] = c]
  BY <1>1
  DEF UserHandlers, Call, Goto, Negotiate, Recover, PlainCalls, ReturnLabels,
      TypeOK, Actors
<1> QED
  BY <1>1, <1>2, <1>3, <1>4, FreeStep
  DEF UserHandlers, slots, conn, Labels, Actors, LockLabels, Running

\* CheckCurrent preserves the invariant.
LEMMA CheckCurrentInv ==
    ASSUME Inv, NEW t \in Threads, CheckCurrent(t)
    PROVE  Inv'
<1> USE DEF Inv
<1>1. PICK l \in {"abort", "finally"} :
          pc' = [pc EXCEPT ![t] = l]
  BY DEF CheckCurrent, Call, Goto
<1>2. TypeOK'
  BY <1>1 DEF CheckCurrent, TypeOK, slots, conn, locals, Labels, Actors,
     Call, ReturnLabels, Calls, PlainCalls
<1>3. ReadsOwnStream'
  BY <1>1, NoNewRead DEF CheckCurrent, locals, Labels, Actors
<1>4. \/ ret' = ret /\ l \notin {"connect", "disconnect"}
      \/ \E c \in PlainCalls : ret' = [ret EXCEPT ![t] = c]
  BY <1>1
  DEF CheckCurrent, Call, Goto, Negotiate, Recover, PlainCalls, ReturnLabels,
      TypeOK, Actors
<1> QED
  BY <1>1, <1>2, <1>3, <1>4, FreeStep
  DEF CheckCurrent, slots, conn, Labels, Actors, LockLabels, Running

------------------------------------------------------------------------------
(* The theorems.                                                            *)

\* Every step preserves the invariant.
LEMMA NextInv == Inv /\ [Next]_vars => Inv'
<1> SUFFICES ASSUME Inv, [Next]_vars PROVE Inv'
  OBVIOUS
<1>1. CASE \E u \in Users : UserCall(u)
  BY <1>1, UserCallInv
<1>2. ASSUME NEW a \in Actors, MethodStep(a) PROVE Inv'
  BY <1>2, ConnectRefusedInv, ConnectFailsInv, ConnectOpenInv,
     ConnectReactorInv, StartThreadInv, StatusReactorSetInv,
     DisconnectRaisesInv, DisconnectFlushInv, DisconnectListensInv,
     FlushEndsInv, DisconnectCloseInv
  DEF MethodStep
<1>3. ASSUME NEW t \in Threads, ThreadStep(t) PROVE Inv'
  BY <1>3, TakeOverInv, LoopTopInv, WriteListensInv, WriteQueueInv, PollInv,
     BindReactorInv, BindFileInv, RecvInv, EarlyListenersInv, ReactInv,
     LateListenersInv, HandleStatusInv, HandleExitInv, InterruptedInv,
     ReactorHandlerInv, HandleFailureInv, UserHandlersInv, CheckCurrentInv,
     FinallyInv
  DEF ThreadStep
<1>4. CASE UNCHANGED vars
  BY <1>4 DEF vars, slots, locals, conn, Inv, TypeOK, LockOwned, Connecting,
     SlotsTruthful, OwnSocket, ReadsOwnStream, InLock, Held, Existing, Running
<1> QED
  BY <1>1, <1>2, <1>3, <1>4 DEF Next

\* The invariant holds throughout.
LEMMA SpecInv == Spec => []Inv
BY InitInv, NextInv, PTL DEF Spec

\* The attributes of the connection and of its threads keep their types.
THEOREM TypeCorrect == Spec => []TypeOK
BY SpecInv, PTL DEF Inv

\* The slots name the running and the waiting thread, for any number of
\* application threads and reconnections.
THEOREM SlotsAreTruthful == Spec => []SlotsTruthful
BY SpecInv, PTL DEF Inv

\* At most one networking thread is between taking over and its end.
THEOREM OneRunner == Spec => []SingleRunner
<1>1. Inv => SingleRunner
  BY DEF Inv, SlotsTruthful, SingleRunner
<1> QED
  BY <1>1, SpecInv, PTL

\* A thread that is not told to stop has its own open socket installed.
THEOREM SocketsAreOwn == Spec => []OwnSocket
BY SpecInv, PTL DEF Inv

\* A thread that is not told to stop reads from its own connection.
THEOREM ReadsAreOwn == Spec => []ReadsOwnStream
BY SpecInv, PTL DEF Inv

\* _handle_exception never evaluates None.interrupt.
THEOREM HandlerHasThread == Spec => []HandlerFindsThread
<1>1. Inv => HandlerFindsThread
  BY ActorsAssumption
  DEF Inv, SlotsTruthful, HandlerFindsThread, Running, Current
<1> QED
  BY <1>1, SpecInv, PTL

------------------------------------------------------------------------------
(* The threads implement Handover.                                          *)

\* The labels a thread reaches only after it was told to stop.
Ending == {"exit", "except", "except_eof", "handle_failure", "handlers",
           "check", "finally"}

\* A thread that ends, or will when its present call returns or raises, was
\* told to stop.
EndsInterrupted ==
    \A t \in Threads :
        pc[t] \in Ending \/ ret[t].ok \in Ending \/ ret[t].bad \in Ending
            \/ outer[t].ok \in Ending \/ outer[t].bad \in Ending
            => interrupt[t]

\* Every step keeps the threads on the exception path interrupted.
LEMMA EndsInterruptedInv ==
    Inv /\ EndsInterrupted /\ [Next]_vars => EndsInterrupted'
<1> SUFFICES ASSUME Inv, EndsInterrupted, [Next]_vars,
                    NEW t \in Threads,
                    \/ pc'[t] \in Ending
                    \/ ret'[t].ok \in Ending \/ ret'[t].bad \in Ending
                    \/ outer'[t].ok \in Ending \/ outer'[t].bad \in Ending
             PROVE  interrupt'[t]
  BY DEF EndsInterrupted
<1> USE DEF EndsInterrupted, Ending
<1>1. TypeOK
  BY DEF Inv
<1>2. CASE \E u \in Users : UserCall(u)
  BY <1>1, <1>2, ActorsAssumption DEF UserCall, Call, Goto, TypeOK, Actors
<1>3. ASSUME NEW a \in Actors, MethodStep(a) PROVE interrupt'[t]
  <2> USE <1>1 DEF TypeOK, Actors
  <2>1. CASE ConnectRefused(a)
    BY <2>1 DEF ConnectRefused, Raise, Goto, NoCall
  <2>2. CASE ConnectFails(a)
    BY <2>2 DEF ConnectFails, Raise, Goto, NoCall
  <2>3. CASE ConnectOpen(a)
    BY <2>3 DEF ConnectOpen, Goto
  <2>4. CASE ConnectReactor(a)
    BY <2>4 DEF ConnectReactor, Goto
  <2>5. CASE StartThread(a)
    <3>1. socket \in Threads /\ pc[socket] = "unborn"
      BY <2>5 DEF StartThread, Inv, Connecting
    <3> QED
      BY <2>5, <3>1 DEF StartThread, NoCall
  <2>6. CASE StatusReactorSet(a)
    BY <2>6 DEF StatusReactorSet, Return, Goto, NoCall
  <2>7. CASE DisconnectRaises(a)
    BY <2>7 DEF DisconnectRaises, Raise, Goto, NoCall
  <2>8. CASE DisconnectFlush(a)
    BY <2>8 DEF DisconnectFlush, Goto
  <2>9. CASE DisconnectClose(a)
    BY <2>9 DEF DisconnectClose, Return, Raise, Goto, NoCall
  <2>10. CASE DisconnectListens(a)
    <3>1. \E op \in {"connect", "disconnect"} : pc' = [pc EXCEPT ![a] = op]
      BY <2>10, ActorsAssumption DEF DisconnectListens, Call, Goto
    <3>2. ret' = [ret EXCEPT ![a] = FromFlush]
      BY <2>10 DEF DisconnectListens, Call, FromFlush
    <3>3. outer' = outer \/ outer' = [outer EXCEPT ![a] = ret[a]]
      BY <2>10 DEF DisconnectListens
    <3>4. interrupt' = interrupt
      BY <2>10 DEF DisconnectListens
    <3> QED
      BY <3>1, <3>2, <3>3, <3>4 DEF FromFlush
  <2>11. CASE FlushEnds(a)
    BY <2>11 DEF FlushEnds, Goto, NoCall
  <2> QED
    BY <1>3, <2>1, <2>2, <2>3, <2>4, <2>5, <2>6, <2>7, <2>8, <2>9, <2>10,
       <2>11 DEF MethodStep
<1>4. ASSUME NEW s \in Threads, ThreadStep(s) PROVE interrupt'[t]
  <2> USE <1>1 DEF TypeOK, Actors, Goto
  <2>1. CASE TakeOver(s)
    BY <2>1 DEF TakeOver
  <2>2. CASE LoopTop(s)
    BY <2>2 DEF LoopTop
  <2>3. CASE WriteQueue(s)
    BY <2>3 DEF WriteQueue
  <2>4. CASE Poll(s)
    BY <2>4 DEF Poll
  <2>5. CASE BindReactor(s)
    BY <2>5 DEF BindReactor
  <2>6. CASE BindFile(s)
    BY <2>6 DEF BindFile
  <2>7. CASE Recv(s)
    BY <2>7 DEF Recv
  <2>8. CASE EarlyListeners(s)
    BY <2>8 DEF EarlyListeners, Call
  <2>9. CASE React(s)
    <3>1. \/ /\ pc' = [pc EXCEPT ![s] = "late"] \/ pc' = [pc EXCEPT ![s] = "raised"]
             /\ ret' = ret
          \/ /\ pc' = [pc EXCEPT ![s] = "disconnect"]
             /\ \E ok \in {"handle_status", "late"} :
                   ret' = [ret EXCEPT ![s] = [ok |-> ok, bad |-> "raised"]]
      BY <2>9 DEF React, Call
    <3>2. interrupt' = interrupt /\ outer' = outer
      BY <2>9 DEF React
    <3> QED
      BY <3>1, <3>2
  <2>10. CASE LateListeners(s)
    BY <2>10 DEF LateListeners, Call
  <2>11. CASE HandleStatus(s)
    BY <2>11 DEF HandleStatus, Call, Negotiate
  <2>12. CASE HandleExit(s)
    BY <2>12 DEF HandleExit, Call
  <2>13. CASE Interrupted(s)
    BY <2>13 DEF Interrupted
  <2>14. CASE ReactorHandler(s)
    BY <2>14 DEF ReactorHandler, Call
  <2>15. CASE HandleFailure(s)
    BY <2>15 DEF HandleFailure, Call, Recover
  <2>16. CASE UserHandlers(s)
    BY <2>16 DEF UserHandlers, Call
  <2>17. CASE CheckCurrent(s)
    BY <2>17 DEF CheckCurrent, Call
  <2>18. CASE Finally(s)
    BY <2>18 DEF Finally
  <2>19. CASE WriteListens(s)
    <3>1. \E op \in {"connect", "disconnect"} : pc' = [pc EXCEPT ![s] = op]
      BY <2>19, ActorsAssumption DEF WriteListens, Call
    <3> QED
      BY <2>19, <3>1 DEF WriteListens, Call, FromLoop
  <2> QED
    BY <1>4, <2>1, <2>2, <2>3, <2>4, <2>5, <2>6, <2>7, <2>8, <2>9,
       <2>10, <2>11, <2>12, <2>13, <2>14, <2>15, <2>16, <2>17, <2>18, <2>19
    DEF ThreadStep
<1>5. CASE UNCHANGED vars
  BY <1>5 DEF vars, slots
<1> QED
  BY <1>2, <1>3, <1>4, <1>5 DEF Next

\* A thread on the exception path is always interrupted.
LEMMA SpecEndsInterrupted == Spec => []EndsInterrupted
<1>1. Init => EndsInterrupted
  BY DEF Init, EndsInterrupted, Ending, NoCall, Actors
<1> QED
  BY <1>1, SpecInv, EndsInterruptedInv, PTL DEF Spec

\* The place is empty at first.
LEMMA HandoverInit == Init => Place!Init
BY DEF Init, Place!Init, Actors

\* The steps that neither tell a thread to stop nor move one between slots
\* leave the place as it is.
LEMMA HandoverStutter ==
    ASSUME UNCHANGED <<networking_thread, new_networking_thread, interrupt>>,
           \A t \in Threads : pc[t] = "dead" <=> pc'[t] = "dead"
    PROVE  UNCHANGED Place!vars
BY DEF Place!vars

\* Setting the interrupt flag of a thread in a slot is Tell of the hand-over.
LEMMA HandoverTell ==
    ASSUME Inv, NEW t \in {networking_thread, new_networking_thread} \ {NoThread},
           UNCHANGED <<networking_thread, new_networking_thread>>,
           interrupt' = [interrupt EXCEPT ![t] = TRUE],
           \A s \in Threads : pc[s] = "dead" <=> pc'[s] = "dead"
    PROVE  Place!Next
<1>1. t \in Threads
  BY DEF Inv, TypeOK
<1>2. {s \in Threads : interrupt[s]}' = {s \in Threads : interrupt[s]} \cup {t}
  BY <1>1 DEF Inv, TypeOK
<1>3. {s \in Threads : pc[s] = "dead"}' = {s \in Threads : pc[s] = "dead"}
  OBVIOUS
<1>4. Place!Tell(t)
  BY <1>2, <1>3 DEF Place!Tell
<1> QED
  BY <1>1, <1>4 DEF Place!Next

\* StartThread is a step of the hand-over, or leaves it as it is.
LEMMA StartThreadHandover ==
    ASSUME Inv, NEW a \in Actors, StartThread(a)
    PROVE  Place!Next
<1>1. /\ socket \in Threads /\ pc[socket] = "unborn"
      /\ new_networking_thread = NoThread
      /\ networking_thread # NoThread => interrupt[networking_thread]
  BY DEF StartThread, Inv, Connecting, Existing
<1>2. networking_thread # socket
  BY <1>1 DEF Inv, SlotsTruthful, Running
<1>3. {s \in Threads : pc[s] = "dead"}' = {s \in Threads : pc[s] = "dead"}
  <2> SUFFICES ASSUME NEW s \in Threads
               PROVE  pc'[s] = "dead" <=> pc[s] = "dead"
    OBVIOUS
  <2>1. ret[a].ok # "dead"
    BY CallsReturn, CallKinds DEF Inv
  <2> QED
    BY <1>1, <2>1 DEF StartThread, Inv, TypeOK, Actors
<1>4. {s \in Threads : interrupt[s]}' = {s \in Threads : interrupt[s]}
  BY DEF StartThread
<1>5. Place!Fresh(socket)
  BY <1>1, <1>2, ActorsAssumption DEF Place!Fresh
<1>6. CASE networking_thread = NoThread
  <2>1. Place!Begin(socket)
    BY <1>1, <1>3, <1>4, <1>5, <1>6 DEF Place!Begin, StartThread
  <2> QED
    BY <1>1, <2>1 DEF Place!Next
<1>7. CASE networking_thread # NoThread
  <2>1. networking_thread \in {s \in Threads : interrupt[s]}
    BY <1>1, <1>7 DEF Inv, TypeOK
  <2>2. Place!Wait(socket)
    BY <1>1, <1>3, <1>4, <1>5, <1>7, <2>1 DEF Place!Wait, StartThread
  <2> QED
    BY <1>1, <2>2 DEF Place!Next
<1> QED
  BY <1>6, <1>7

\* DisconnectClose is a step of the hand-over, or leaves it as it is.
LEMMA DisconnectCloseHandover ==
    ASSUME Inv, NEW a \in Actors, DisconnectClose(a)
    PROVE  [Place!Next]_Place!vars
<1>1. \A s \in Threads : pc[s] = "dead" <=> pc'[s] = "dead"
  <2>1. (Return(a) \/ Raise(a)) /\ TypeOK
    BY DEF DisconnectClose, Inv
  <2>2. pc[a] = "d_close"
    BY DEF DisconnectClose
  <2> QED
    BY <2>1, <2>2, ReturnTyped, CallKinds DEF TypeOK, Actors
<1>2. UNCHANGED <<networking_thread, new_networking_thread>>
  BY DEF DisconnectClose
<1>3. CASE Current = NoThread
  <2>1. interrupt' = interrupt
    BY <1>3, ActorsAssumption DEF DisconnectClose, Inv, TypeOK
  <2> QED
    BY <1>1, <1>2, <2>1, HandoverStutter
<1>4. CASE Current # NoThread
  <2>1. Current \in {networking_thread, new_networking_thread} \ {NoThread}
    BY <1>4 DEF Current
  <2>2. interrupt' = [interrupt EXCEPT ![Current] = TRUE]
    BY DEF DisconnectClose, Inv, TypeOK
  <2> QED
    BY <1>1, <1>2, <2>1, <2>2, HandoverTell
<1> QED
  BY <1>3, <1>4

\* TakeOver is a step of the hand-over, or leaves it as it is.
LEMMA TakeOverHandover ==
    ASSUME Inv, NEW t \in Threads, TakeOver(t)
    PROVE  Place!Next
<1>1. new_networking_thread = t /\ networking_thread = NoThread
  BY SlotEmptyAtTakeOver DEF TakeOver
<1>2. {s \in Threads : pc[s] = "dead"}' = {s \in Threads : pc[s] = "dead"}
  BY DEF TakeOver, Goto, Inv, TypeOK, Actors
<1>3. {s \in Threads : interrupt[s]}' = {s \in Threads : interrupt[s]}
  BY DEF TakeOver
<1>4. Place!Enter
  BY <1>1, <1>2, <1>3, ActorsAssumption DEF Place!Enter, TakeOver
<1> QED
  BY <1>4 DEF Place!Next

\* Finally is a step of the hand-over, or leaves it as it is.
LEMMA FinallyHandover ==
    ASSUME Inv, EndsInterrupted, NEW t \in Threads, Finally(t)
    PROVE  Place!Next
<1>1. networking_thread = t
  BY DEF Finally, Inv, SlotsTruthful, Running
<1>2. t \in {s \in Threads : interrupt[s]}
  BY DEF EndsInterrupted, Ending, Finally
<1>3. {s \in Threads : pc[s] = "dead"}' = {s \in Threads : pc[s] = "dead"} \cup {t}
  BY DEF Finally, Goto, Inv, TypeOK, Actors
<1>4. {s \in Threads : interrupt[s]}' = {s \in Threads : interrupt[s]}
  BY DEF Finally
<1>5. Place!Leave
  BY <1>1, <1>2, <1>3, <1>4 DEF Place!Leave, Finally
<1> QED
  BY <1>5 DEF Place!Next

\* Interrupted is a step of the hand-over, or leaves it as it is.
LEMMA InterruptedHandover ==
    ASSUME Inv, NEW t \in Threads, Interrupted(t)
    PROVE  Place!Next
<1>1. t \in {networking_thread, new_networking_thread} \ {NoThread}
  BY ActorsAssumption DEF Interrupted, Inv, SlotsTruthful, Running
<1>2. \A s \in Threads : pc[s] = "dead" <=> pc'[s] = "dead"
  BY DEF Interrupted, Goto, Inv, TypeOK, Actors
<1> QED
  BY <1>1, <1>2, HandoverTell DEF Interrupted, slots

\* Every step is a step of the hand-over or leaves it as it is.
LEMMA HandoverNext ==
    Inv /\ EndsInterrupted /\ [Next]_vars => [Place!Next]_Place!vars
<1> SUFFICES ASSUME Inv, EndsInterrupted, [Next]_vars
             PROVE  [Place!Next]_Place!vars
  OBVIOUS
<1>1. TypeOK
  BY DEF Inv
<1>2. CASE \E u \in Users : UserCall(u)
  <2>1. \A s \in Threads : pc[s] = "dead" <=> pc'[s] = "dead"
    BY <1>1, <1>2, ActorsAssumption DEF UserCall, Call, Goto, TypeOK, Actors
  <2> QED
    BY <1>2, <2>1, HandoverStutter DEF UserCall, slots
<1>3. ASSUME NEW a \in Actors, MethodStep(a)
      PROVE  [Place!Next]_Place!vars
  <2>1. CASE StartThread(a)
    BY <2>1, StartThreadHandover
  <2>2. CASE DisconnectClose(a)
    BY <2>2, DisconnectCloseHandover
  <2>3. CASE ConnectRefused(a)
    <3>1. \A s \in Threads : pc[s] = "dead" <=> pc'[s] = "dead"
      BY <1>1, <2>3, ReturnTyped, CallKinds DEF ConnectRefused, TypeOK, Actors
    <3> QED
      BY <2>3, <3>1, HandoverStutter DEF ConnectRefused, slots
  <2>4. CASE ConnectFails(a)
    <3>1. \A s \in Threads : pc[s] = "dead" <=> pc'[s] = "dead"
      BY <1>1, <2>4, ReturnTyped, CallKinds DEF ConnectFails, TypeOK, Actors
    <3> QED
      BY <2>4, <3>1, HandoverStutter DEF ConnectFails, slots
  <2>5. CASE ConnectOpen(a)
    <3>1. \A s \in Threads : pc[s] = "dead" <=> pc'[s] = "dead"
      BY <1>1, <2>5 DEF ConnectOpen, Goto, TypeOK, ReturnLabels, Actors
    <3> QED
      BY <2>5, <3>1, HandoverStutter DEF ConnectOpen, slots
  <2>6. CASE ConnectReactor(a)
    <3>1. \A s \in Threads : pc[s] = "dead" <=> pc'[s] = "dead"
      BY <1>1, <2>6 DEF ConnectReactor, Goto, TypeOK, ReturnLabels, Actors
    <3> QED
      BY <2>6, <3>1, HandoverStutter DEF ConnectReactor, slots
  <2>7. CASE StatusReactorSet(a)
    <3>1. \A s \in Threads : pc[s] = "dead" <=> pc'[s] = "dead"
      BY <1>1, <2>7, ReturnTyped, CallKinds DEF StatusReactorSet, TypeOK, Actors
    <3> QED
      BY <2>7, <3>1, HandoverStutter DEF StatusReactorSet, slots
  <2>8. CASE DisconnectRaises(a)
    <3>1. \A s \in Threads : pc[s] = "dead" <=> pc'[s] = "dead"
      BY <1>1, <2>8, ReturnTyped, CallKinds DEF DisconnectRaises, TypeOK, Actors
    <3> QED
      BY <2>8, <3>1, HandoverStutter DEF DisconnectRaises, slots
  <2>9. CASE DisconnectFlush(a)
    <3>1. \A s \in Threads : pc[s] = "dead" <=> pc'[s] = "dead"
      BY <1>1, <2>9 DEF DisconnectFlush, Goto, TypeOK, ReturnLabels, Actors
    <3> QED
      BY <2>9, <3>1, HandoverStutter DEF DisconnectFlush, slots
  <2>10. CASE DisconnectListens(a)
    <3>1. \A s \in Threads : pc[s] = "dead" <=> pc'[s] = "dead"
      BY <1>1, <2>10, ActorsAssumption
      DEF DisconnectListens, Call, Goto, TypeOK, Actors
    <3> QED
      BY <2>10, <3>1, HandoverStutter DEF DisconnectListens
  <2>11. CASE FlushEnds(a)
    <3>1. \A s \in Threads : pc[s] = "dead" <=> pc'[s] = "dead"
      BY <1>1, <2>11, CallsReturn, CallKinds DEF FlushEnds, Goto, TypeOK, Actors
    <3> QED
      BY <2>11, <3>1, HandoverStutter DEF FlushEnds
  <2> QED
    BY <1>3, <2>1, <2>2, <2>3, <2>4, <2>5, <2>6, <2>7, <2>8, <2>9, <2>10,
       <2>11 DEF MethodStep
<1>4. ASSUME NEW t \in Threads, ThreadStep(t)
      PROVE  [Place!Next]_Place!vars
  <2>1. CASE TakeOver(t)
    BY <2>1, TakeOverHandover
  <2>2. CASE Finally(t)
    BY <2>2, FinallyHandover
  <2>3. CASE Interrupted(t)
    BY <2>3, InterruptedHandover
  <2>4. CASE LoopTop(t)
    <3>1. \A s \in Threads : pc[s] = "dead" <=> pc'[s] = "dead"
      BY <1>1, <2>4 DEF LoopTop, Goto, TypeOK, Actors
    <3> QED
      BY <2>4, <3>1, HandoverStutter DEF LoopTop, slots
  <2>5. CASE WriteQueue(t)
    <3>1. \A s \in Threads : pc[s] = "dead" <=> pc'[s] = "dead"
      BY <1>1, <2>5 DEF WriteQueue, Goto, TypeOK, Actors
    <3> QED
      BY <2>5, <3>1, HandoverStutter DEF WriteQueue, slots
  <2>6. CASE Poll(t)
    <3>1. \A s \in Threads : pc[s] = "dead" <=> pc'[s] = "dead"
      BY <1>1, <2>6 DEF Poll, Goto, TypeOK, Actors
    <3> QED
      BY <2>6, <3>1, HandoverStutter DEF Poll, slots
  <2>7. CASE BindReactor(t)
    <3>1. \A s \in Threads : pc[s] = "dead" <=> pc'[s] = "dead"
      BY <1>1, <2>7 DEF BindReactor, Goto, TypeOK, Actors
    <3> QED
      BY <2>7, <3>1, HandoverStutter DEF BindReactor, slots
  <2>8. CASE BindFile(t)
    <3>1. \A s \in Threads : pc[s] = "dead" <=> pc'[s] = "dead"
      BY <1>1, <2>8 DEF BindFile, Goto, TypeOK, Actors
    <3> QED
      BY <2>8, <3>1, HandoverStutter DEF BindFile, slots
  <2>9. CASE Recv(t)
    <3>1. \A s \in Threads : pc[s] = "dead" <=> pc'[s] = "dead"
      BY <1>1, <2>9 DEF Recv, Goto, TypeOK, Actors
    <3> QED
      BY <2>9, <3>1, HandoverStutter DEF Recv, slots
  <2>10. CASE EarlyListeners(t)
    <3>1. \A s \in Threads : pc[s] = "dead" <=> pc'[s] = "dead"
      BY <1>1, <2>10 DEF EarlyListeners, Call, Goto, TypeOK, Actors
    <3> QED
      BY <2>10, <3>1, HandoverStutter DEF EarlyListeners, slots
  <2>11. CASE React(t)
    <3>1. \A s \in Threads : pc[s] = "dead" <=> pc'[s] = "dead"
      BY <1>1, <2>11 DEF React, Call, Goto, TypeOK, Actors
    <3> QED
      BY <2>11, <3>1, HandoverStutter DEF React, slots
  <2>12. CASE LateListeners(t)
    <3>1. \A s \in Threads : pc[s] = "dead" <=> pc'[s] = "dead"
      BY <1>1, <2>12 DEF LateListeners, Call, Goto, TypeOK, Actors
    <3> QED
      BY <2>12, <3>1, HandoverStutter DEF LateListeners, slots
  <2>13. CASE HandleStatus(t)
    <3>1. \A s \in Threads : pc[s] = "dead" <=> pc'[s] = "dead"
      BY <1>1, <2>13 DEF HandleStatus, Call, Goto, TypeOK, Actors
    <3> QED
      BY <2>13, <3>1, HandoverStutter DEF HandleStatus, slots
  <2>14. CASE HandleExit(t)
    <3>1. \A s \in Threads : pc[s] = "dead" <=> pc'[s] = "dead"
      BY <1>1, <2>14 DEF HandleExit, Call, Goto, TypeOK, Actors
    <3> QED
      BY <2>14, <3>1, HandoverStutter DEF HandleExit, slots
  <2>15. CASE ReactorHandler(t)
    <3>1. \A s \in Threads : pc[s] = "dead" <=> pc'[s] = "dead"
      BY <1>1, <2>15 DEF ReactorHandler, Call, Goto, TypeOK, Actors
    <3> QED
      BY <2>15, <3>1, HandoverStutter DEF ReactorHandler, slots
  <2>16. CASE HandleFailure(t)
    <3>1. \A s \in Threads : pc[s] = "dead" <=> pc'[s] = "dead"
      BY <1>1, <2>16 DEF HandleFailure, Call, Goto, TypeOK, Actors
    <3> QED
      BY <2>16, <3>1, HandoverStutter DEF HandleFailure, slots
  <2>17. CASE UserHandlers(t)
    <3>1. \A s \in Threads : pc[s] = "dead" <=> pc'[s] = "dead"
      BY <1>1, <2>17 DEF UserHandlers, Call, Goto, TypeOK, Actors
    <3> QED
      BY <2>17, <3>1, HandoverStutter DEF UserHandlers, slots
  <2>18. CASE CheckCurrent(t)
    <3>1. \A s \in Threads : pc[s] = "dead" <=> pc'[s] = "dead"
      BY <1>1, <2>18 DEF CheckCurrent, Call, Goto, TypeOK, Actors
    <3> QED
      BY <2>18, <3>1, HandoverStutter DEF CheckCurrent, slots
  <2>19. CASE WriteListens(t)
    <3>1. \A s \in Threads : pc[s] = "dead" <=> pc'[s] = "dead"
      BY <1>1, <2>19, ActorsAssumption
      DEF WriteListens, Call, Goto, TypeOK, Actors
    <3> QED
      BY <2>19, <3>1, HandoverStutter DEF WriteListens
  <2> QED
    BY <1>4, <2>1, <2>2, <2>3, <2>4, <2>5, <2>6, <2>7, <2>8, <2>9,
       <2>10, <2>11, <2>12, <2>13, <2>14, <2>15, <2>16, <2>17, <2>18, <2>19
    DEF ThreadStep
<1>5. CASE UNCHANGED vars
  BY <1>5, HandoverStutter DEF vars, slots
<1> QED
  BY <1>2, <1>3, <1>4, <1>5 DEF Next

\* The two thread slots, however connects, disconnects and dying threads
\* interleave, implement the hand-over of one place.
THEOREM RefinesHandover == Spec => ImplementsHandover
BY SpecInv, SpecEndsInterrupted, HandoverInit, HandoverNext, PTL
DEF Spec, ImplementsHandover, Place!Spec
------------------------------------------------------------------------------
(* A connection that says it is connected, and has its socket, is served.   *)

\* Some actor is between the creation of a socket and the start of its
\* thread.
Opening == \E a \in Actors : pc[a] \in {"c_reactor", "c_start", "s_start"}

\* The networking thread has failed and will come to line 568.
Failing(t) ==
    \/ pc[t] \in {"except", "except_eof", "handlers", "check", "abort"}
    \/ pc[t] \in {"connect", "disconnect"} /\ ret[t].bad = "check"

\* The connection says it is connected and has its socket.
Live == connected /\ socket \in Threads

\* A socket has its file object.  While the connection is live, no pending
\* thread has been told to stop, and if no thread is to go on, one is about to
\* start or the running one is about to disconnect.
Served ==
    /\ file_object = "unset" => socket \notin Threads
    /\ \A t \in Threads : pc[t] = "unborn" => ~interrupt[t]
    /\ new_networking_thread # NoThread /\ interrupt[new_networking_thread]
          => ~Live
    /\ Live /\ ~Existing =>
          \/ Opening
          \/ networking_thread # NoThread /\ Failing(networking_thread)

\* A step of one actor that neither ends an opening, nor changes slots or
\* flags, nor leads a failed thread astray.
LEMMA ServedLocally ==
    ASSUME Inv, Served,
           NEW a \in Actors, pc[a] \notin {"c_reactor", "c_start", "s_start"},
           NEW l \in Labels, pc' = [pc EXCEPT ![a] = l],
           l # "unborn", file_object' = file_object,
           \A t \in Threads : t # a => ret'[t] = ret[t],
           UNCHANGED <<networking_thread, new_networking_thread, interrupt>>,
           socket' \in Threads => socket' = socket,
           Live' => Live,
           Live' /\ ~Existing /\ a = networking_thread /\ Failing(a)
              => Failing(a)'
    PROVE  Served'
<1> USE DEF Inv
<1>1. \A b \in Actors : pc'[b] = IF b = a THEN l ELSE pc[b]
  BY DEF TypeOK
<1>2. \A t \in Threads : t \in Actors
  BY DEF Actors
<1>3. file_object' = "unset" => socket' \notin Threads
  BY DEF Served
<1>4. \A t \in Threads : pc'[t] = "unborn" => ~interrupt'[t]
  BY <1>1, <1>2 DEF Served
<1>5. new_networking_thread' # NoThread /\ interrupt'[new_networking_thread']
         => ~Live'
  BY DEF Served
<1>6. Existing' <=> Existing
  BY DEF Existing
<1>7. Opening => Opening'
  BY <1>1 DEF Opening
<1>8. ASSUME Live', ~Existing, networking_thread # NoThread,
             Failing(networking_thread)
      PROVE  Failing(networking_thread)'
  <2>1. networking_thread \in Threads
    BY <1>8 DEF TypeOK
  <2>2. CASE networking_thread = a
    BY <1>8, <2>2 DEF Failing
  <2>3. CASE networking_thread # a
    BY <1>8, <2>1, <2>3, <1>1, <1>2 DEF Failing
  <2> QED
    BY <2>2, <2>3
<1> QED
  BY <1>3, <1>4, <1>5, <1>6, <1>7, <1>8 DEF Served

\* The steps of a method that change no slot or flag keep the connection
\* served.
LEMMA MethodServed ==
    ASSUME Inv, Served, NEW a \in Actors,
           \/ ConnectRefused(a) \/ ConnectFails(a) \/ StatusReactorSet(a)
           \/ DisconnectRaises(a) \/ DisconnectFlush(a)
           \/ DisconnectListens(a) \/ FlushEnds(a)
    PROVE  Served'
<1>1. TypeOK
  BY DEF Inv
<1>2. \A t \in Threads : t # a => ret'[t] = ret[t]
  <2>1. ret' = ret \/ \E c : ret' = [ret EXCEPT ![a] = c]
    <3>1. CASE ConnectRefused(a) \/ ConnectFails(a) \/ StatusReactorSet(a)
                  \/ DisconnectRaises(a)
      BY <3>1 DEF ConnectRefused, ConnectFails, StatusReactorSet,
         DisconnectRaises, Return, Raise
    <3>2. CASE DisconnectFlush(a) \/ FlushEnds(a)
      BY <3>2 DEF DisconnectFlush, FlushEnds
    <3>3. CASE DisconnectListens(a)
      BY <3>3 DEF DisconnectListens, Call
    <3> QED
      BY <3>1, <3>2, <3>3
  <2> QED
    BY <1>1, <2>1 DEF TypeOK, Actors
<1>3. UNCHANGED <<networking_thread, new_networking_thread, interrupt,
                  file_object>>
  BY DEF ConnectRefused, ConnectFails, StatusReactorSet, DisconnectRaises,
     DisconnectFlush, DisconnectListens, FlushEnds, slots, conn
<1>4. CASE ConnectRefused(a) \/ ConnectFails(a)
  <2>1. PICK l \in Labels \ {"recv"} :
            /\ l \in ReturnLabels \cup {"w_held", "d_held"}
            /\ pc' = [pc EXCEPT ![a] = l]
    BY <1>1, <1>4, ReturnTyped DEF ConnectRefused, ConnectFails
  <2>2. /\ pc[a] \in {"connect", "status"}
        /\ pc' = [pc EXCEPT ![a] = ret[a].bad]
        /\ connected' = connected
        /\ socket' = socket \/ socket' = "unconnected"
    BY <1>4 DEF ConnectRefused, ConnectFails, Raise, Goto, conn
  <2>3. Failing(a) => Failing(a)'
    BY <1>1, <2>2 DEF Failing, TypeOK
  <2>4. socket' \in Threads => socket' = socket
    BY <2>2, ActorsAssumption
  <2>5. Live' => Live
    BY <2>2, <2>4 DEF Live
  <2>6. l # "unborn" /\ pc[a] \notin {"c_reactor", "c_start", "s_start"}
    BY <2>1, <2>2, CallKinds
  <2> QED
    BY <1>2, <1>3, <2>1, <2>3, <2>4, <2>5, <2>6, ServedLocally
<1>5. CASE StatusReactorSet(a)
  <2>1. PICK l \in Labels \ {"recv"} :
            /\ l \in ReturnLabels \cup {"w_held", "d_held"}
            /\ pc' = [pc EXCEPT ![a] = l]
    BY <1>1, <1>5, ReturnTyped DEF StatusReactorSet
  <2>2. /\ pc[a] = "s_reactor" /\ ~Failing(a)
        /\ socket' = socket /\ Live' = Live
    BY <1>5 DEF StatusReactorSet, Failing, Live
  <2>3. l # "unborn"
    BY <2>1, CallKinds
  <2> QED
    BY <1>2, <1>3, <2>1, <2>2, <2>3, ServedLocally
<1>6. CASE DisconnectRaises(a)
  <2>1. PICK l \in Labels \ {"recv"} :
            /\ l \in ReturnLabels \cup {"w_held", "d_held"}
            /\ pc' = [pc EXCEPT ![a] = l]
    BY <1>1, <1>6, ReturnTyped DEF DisconnectRaises
  <2>2. /\ pc[a] \in {"disconnect", "abort"}
        /\ socket' = socket /\ ~Live'
    BY <1>6 DEF DisconnectRaises, Live
  <2>3. l # "unborn"
    BY <2>1, CallKinds
  <2> QED
    BY <1>2, <1>3, <2>1, <2>2, <2>3, ServedLocally
<1>7. CASE DisconnectFlush(a)
  <2>1. /\ pc[a] \in {"disconnect", "abort"}
        /\ pc' = [pc EXCEPT ![a] = "d_close"]
        /\ socket' = socket /\ ~Live'
    BY <1>7 DEF DisconnectFlush, Goto, Live
  <2>2. "d_close" \in Labels
    BY DEF Labels
  <2> QED
    BY <1>2, <1>3, <2>1, <2>2, ServedLocally
<1>8. CASE DisconnectListens(a)
  <2>1. PICK l \in {"connect", "disconnect"} : pc' = [pc EXCEPT ![a] = l]
    BY <1>8, ActorsAssumption DEF DisconnectListens, Call, Goto
  <2>2. /\ pc[a] \in {"disconnect", "d_held"}
        /\ socket' = socket
        /\ pc[a] = "d_held" \/ ~Live'
        /\ pc[a] = "d_held" => (Live' <=> Live)
    BY <1>8 DEF DisconnectListens, Live
  <2>3. pc[a] = "d_held" => ~Failing(a)
    BY DEF Failing
  <2>4. l \in Labels /\ l # "unborn"
    BY <2>1 DEF Labels
  <2>5. Live' => Live /\ ~Failing(a)
    BY <2>2, <2>3
  <2>6. pc[a] \notin {"c_reactor", "c_start", "s_start"}
    BY <2>2
  <2> QED
    BY <1>2, <1>3, <2>1, <2>2, <2>4, <2>5, <2>6, ServedLocally
<1>9. CASE FlushEnds(a)
  <2>1. PICK l \in ReturnLabels \cup {"d_close"} : pc' = [pc EXCEPT ![a] = l]
    BY <1>1, <1>9, CallsReturn DEF FlushEnds, Goto
  <2>2. pc[a] = "d_held" /\ socket' = socket /\ Live' = Live
    BY <1>9 DEF FlushEnds, Live, conn
  <2>3. ~Failing(a)
    BY <2>2 DEF Failing
  <2>4. l \in Labels /\ l # "unborn"
    BY <2>1, CallKinds DEF Labels
  <2> QED
    BY <1>2, <1>3, <2>1, <2>2, <2>3, <2>4, ServedLocally
<1> QED
  BY <1>4, <1>5, <1>6, <1>7, <1>8, <1>9

\* The steps that open, start and close a connection keep it served.
LEMMA OpeningServed ==
    ASSUME Inv, Served, NEW a \in Actors,
           \/ ConnectOpen(a) \/ ConnectReactor(a) \/ StartThread(a)
           \/ DisconnectClose(a)
    PROVE  Served'
<1>1. TypeOK /\ \A t \in Threads : t \in Actors
  BY DEF Inv, Actors
<1>2. CASE ConnectOpen(a)
  <2>1. /\ pc' = [pc EXCEPT ![a] = IF pc[a] = "connect" THEN "c_reactor"
                                                        ELSE "s_start"]
        /\ UNCHANGED <<networking_thread, new_networking_thread, interrupt>>
        /\ file_object' \in Threads
        /\ ~Existing
    BY <1>2 DEF ConnectOpen, Goto
  <2>2. Opening'
    BY <1>1, <2>1 DEF Opening, TypeOK
  <2>3. file_object' # "unset"
    BY <2>1, ActorsAssumption
  <2>4. \A t \in Threads : pc'[t] = "unborn" => pc[t] = "unborn"
    BY <1>1, <2>1 DEF TypeOK
  <2>5. new_networking_thread = NoThread
    BY <2>1 DEF Existing
  <2> QED
    BY <2>1, <2>2, <2>3, <2>4, <2>5 DEF Served
<1>3. CASE ConnectReactor(a)
  <2>1. /\ pc' = [pc EXCEPT ![a] = "c_start"]
        /\ UNCHANGED <<networking_thread, new_networking_thread, interrupt,
                       connected, socket, file_object>>
    BY <1>3 DEF ConnectReactor, Goto, slots
  <2>2. Opening'
    BY <1>1, <2>1 DEF Opening, TypeOK
  <2>3. \A b \in Actors : pc'[b] = "unborn" => pc[b] = "unborn"
    BY <1>1, <2>1 DEF TypeOK
  <2> QED
    BY <1>1, <2>1, <2>2, <2>3 DEF Served, Live
<1>4. CASE StartThread(a)
  <2>1. /\ socket \in Threads
        /\ pc[socket] = "unborn"
        /\ ~Existing
    BY <1>4 DEF StartThread, Inv, Connecting
  <2>2. PICK l \in {"loop", "waiting"},
             r \in ReturnLabels \cup {"s_reactor", "w_held", "d_held"} :
           pc' = [pc EXCEPT ![socket] = l, ![a] = r]
    BY <1>1, <1>4, CallsReturn DEF StartThread
  <2>3. /\ interrupt' = interrupt
        /\ UNCHANGED <<connected, socket, file_object>>
        /\ \/ new_networking_thread' = socket
           \/ /\ networking_thread' = socket
              /\ new_networking_thread' = NoThread
    BY <1>4 DEF StartThread, conn
  <2>4. ~interrupt[socket]
    BY <2>1 DEF Served
  <2>5. \A b \in Actors : pc'[b] = "unborn" => pc[b] = "unborn"
    <3>1. \A b \in Actors : pc'[b] = IF b = a THEN r
                                     ELSE IF b = socket THEN l ELSE pc[b]
      BY <1>1, <2>2 DEF TypeOK
    <3> QED
      BY <3>1, CallKinds
  <2>6. Existing'
    BY <2>1, <2>3, <2>4, ActorsAssumption DEF Existing
  <2> QED
    BY <1>1, <2>1, <2>3, <2>4, <2>5, <2>6 DEF Served, Live
<1>5. CASE DisconnectClose(a)
  <2>1. socket' \notin Threads
    <3>1. socket' = "gone" \/ (socket' = socket /\ file_object = "unset")
      BY <1>5 DEF DisconnectClose
    <3> QED
      BY <3>1, ActorsAssumption DEF Served
  <2>2. interrupt' = [t \in Threads |-> interrupt[t] \/ t = Current]
    BY <1>5 DEF DisconnectClose
  <2>3. \A t \in Threads : pc'[t] = "unborn" => pc[t] = "unborn"
    <3>1. Return(a) \/ Raise(a)
      BY <1>5 DEF DisconnectClose
    <3>2. PICK l \in Labels \ {"recv"} :
              /\ l \in ReturnLabels \cup {"w_held", "d_held"}
              /\ pc' = [pc EXCEPT ![a] = l]
      BY <1>1, <3>1, ReturnTyped
    <3> QED
      BY <1>1, <3>2, CallKinds DEF TypeOK
  <2>4. \A t \in Threads : pc[t] = "unborn" => t # Current
    BY ActorsAssumption DEF Current, Inv, SlotsTruthful, Running
  <2>5. \A t \in Threads : pc'[t] = "unborn" => ~interrupt'[t]
    BY <2>2, <2>3, <2>4 DEF Served
  <2> QED
    BY <2>1, <2>5 DEF Served, Live
<1> QED
  BY <1>2, <1>3, <1>4, <1>5

\* The steps that change the slots or raise a flag keep the connection
\* served.
LEMMA EndServed ==
    ASSUME Inv, Served, EndsInterrupted, NEW t \in Threads,
           TakeOver(t) \/ Interrupted(t) \/ Finally(t)
    PROVE  Served'
<1>1. TypeOK /\ t \in Actors
  BY DEF Inv, Actors
<1>2. CASE TakeOver(t)
  <2>1. /\ pc' = [pc EXCEPT ![t] = "loop"]
        /\ networking_thread' = t
        /\ new_networking_thread' = NoThread
        /\ UNCHANGED <<interrupt, connected, socket, file_object>>
    BY <1>2 DEF TakeOver, Goto, conn
  <2>2. new_networking_thread = t
    BY <1>2 DEF TakeOver, Inv, SlotsTruthful
  <2>3. interrupt[t] => ~Live
    BY <2>2, ActorsAssumption DEF Served
  <2>4. \A b \in Actors : pc'[b] = "unborn" => pc[b] = "unborn"
    BY <1>1, <2>1 DEF TypeOK
  <2>5. \A s \in Threads : s \in Actors
    BY DEF Actors
  <2>6. Live' => Existing'
    BY <2>1, <2>3, ActorsAssumption DEF Existing, Live
  <2> QED
    BY <2>1, <2>4, <2>5, <2>6 DEF Served, Live
<1>3. CASE Interrupted(t)
  <2>1. /\ pc[t] \in {"raised", "raised_eof"}
        /\ pc' = [pc EXCEPT ![t] = IF pc[t] = "raised" THEN "except"
                                                       ELSE "except_eof"]
        /\ interrupt' = [interrupt EXCEPT ![t] = TRUE]
        /\ UNCHANGED <<networking_thread, new_networking_thread, connected,
                       socket, file_object>>
    BY <1>3 DEF Interrupted, Goto, slots, conn
  <2>2. networking_thread = t /\ new_networking_thread # t
    BY <2>1 DEF Inv, SlotsTruthful, Running
  <2>3. Failing(t)'
    BY <1>1, <2>1 DEF Failing, TypeOK
  <2>4. \A b \in Actors : pc'[b] = "unborn" => pc[b] = "unborn" /\ b # t
    BY <1>1, <2>1 DEF TypeOK
  <2>5. \A s \in Threads : s \in Actors /\ (s # t => interrupt'[s] = interrupt[s])
    BY <1>1, <2>1 DEF Actors, TypeOK
  <2>6. new_networking_thread # NoThread
           => interrupt'[new_networking_thread] = interrupt[new_networking_thread]
    BY <1>1, <2>2, <2>5 DEF TypeOK
  <2> QED
    BY <2>1, <2>2, <2>3, <2>4, <2>5, <2>6, ActorsAssumption
    DEF Served, Failing, Live
<1>4. CASE Finally(t)
  <2>1. /\ pc[t] = "finally" /\ lock = NoThread
        /\ pc' = [pc EXCEPT ![t] = "dead"]
        /\ networking_thread' = NoThread
        /\ UNCHANGED <<new_networking_thread, interrupt, connected, socket,
                       file_object>>
    BY <1>4 DEF Finally, Goto, conn
  <2>2. networking_thread = t
    BY <2>1 DEF Inv, SlotsTruthful, Running
  <2>3. ~Opening
    <3>1. \A b \in Actors : ~InLock(b)
      BY <2>1, ActorsAssumption DEF Inv, LockOwned, Actors
    <3> QED
      BY <3>1 DEF Opening, InLock
  <2>4. ~Failing(t)
    BY <2>1 DEF Failing
  <2>5. Live => new_networking_thread # NoThread
    BY <2>1, <2>2, <2>3, <2>4 DEF Served, Existing, EndsInterrupted, Ending
  <2>6. \A b \in Actors : pc'[b] = "unborn" => pc[b] = "unborn"
    BY <1>1, <2>1 DEF TypeOK
  <2>7. \A s \in Threads : s \in Actors
    BY DEF Actors
  <2>8. Live' => Existing'
    BY <2>1, <2>5 DEF Existing, Live
  <2> QED
    BY <2>1, <2>6, <2>7, <2>8 DEF Served, Live
<1> QED
  BY <1>2, <1>3, <1>4

\* The other steps of a thread keep the connection served.
LEMMA ThreadServed ==
    ASSUME Inv, Served, NEW t \in Threads, ThreadStep(t),
           ~TakeOver(t), ~Interrupted(t), ~Finally(t)
    PROVE  Served'
<1>1. TypeOK /\ t \in Actors
  BY DEF Inv, Actors
<1>2. UNCHANGED <<networking_thread, new_networking_thread, interrupt,
                  connected, socket, file_object>>
  BY DEF ThreadStep, LoopTop, WriteListens, WriteQueue, Poll, BindReactor,
     BindFile, Recv, EarlyListeners, React, LateListeners, HandleStatus,
     HandleExit, ReactorHandler, HandleFailure, UserHandlers, CheckCurrent,
     slots, conn
<1> DEFINE Elsewhere == Labels \ {"unborn", "d_close", "c_reactor", "c_start",
                                  "s_start"}
           Moves(l) == pc' = [pc EXCEPT ![t] = l]
<1>3. ASSUME pc[t] \in Elsewhere,
             \E l \in Elsewhere : Moves(l),
             \A s \in Threads : s # t => ret'[s] = ret[s],
             ~Existing /\ t = networking_thread /\ Failing(t) => Failing(t)'
      PROVE  Served'
  <2>1. PICK l \in Elsewhere : Moves(l)
    BY <1>3
  <2> QED
    BY <1>1, <1>2, <1>3, <2>1, ServedLocally DEF Live
<1>4. CASE ~Failing(t)
  <2>1. pc[t] \in Elsewhere
    BY DEF ThreadStep, LoopTop, WriteListens, WriteQueue, Poll, BindReactor,
       BindFile, Recv, EarlyListeners, React, LateListeners, HandleStatus,
       HandleExit, ReactorHandler, HandleFailure, UserHandlers, CheckCurrent,
       Labels
  <2>2. \A s \in Threads : s # t => ret'[s] = ret[s]
    BY <1>1
    DEF ThreadStep, LoopTop, WriteListens, WriteQueue, Poll, BindReactor,
        BindFile, Recv, EarlyListeners, React, LateListeners, HandleStatus,
        HandleExit, ReactorHandler, HandleFailure, UserHandlers, CheckCurrent,
        Call, TypeOK, Goto, Actors
  <2>3. CASE LoopTop(t) \/ WriteListens(t) \/ WriteQueue(t) \/ Poll(t) \/ BindReactor(t)
               \/ BindFile(t) \/ Recv(t)
    <3>1. \E l \in Elsewhere : Moves(l)
      BY <2>3, ActorsAssumption
      DEF LoopTop, WriteListens, WriteQueue, Poll, BindReactor, BindFile, Recv,
          Call, Goto, Labels
    <3> QED
      BY <1>3, <1>4, <2>1, <2>2, <3>1
  <2>4. CASE EarlyListeners(t) \/ LateListeners(t) \/ HandleStatus(t)
               \/ HandleExit(t) \/ HandleFailure(t)
    <3>1. \E l \in Elsewhere : Moves(l)
      BY <2>4 DEF EarlyListeners, LateListeners, HandleStatus, HandleExit,
         HandleFailure, Call, Goto, Labels
    <3> QED
      BY <1>3, <1>4, <2>1, <2>2, <3>1
  <2>5. CASE React(t)
    <3>1. \E l \in Elsewhere : Moves(l)
      BY <2>5 DEF React, Call, Goto, Labels
    <3> QED
      BY <1>3, <1>4, <2>1, <2>2, <3>1
  <2>6. CASE ReactorHandler(t) \/ UserHandlers(t) \/ CheckCurrent(t)
    BY <1>4, <2>6 DEF ReactorHandler, UserHandlers, CheckCurrent, Failing
  <2> QED
    BY <2>3, <2>4, <2>5, <2>6 DEF ThreadStep
<1>5. CASE Failing(t)
  <2>1. ReactorHandler(t) \/ UserHandlers(t) \/ CheckCurrent(t)
    BY <1>5
    DEF ThreadStep, LoopTop, WriteListens, WriteQueue, Poll, BindReactor,
        BindFile, Recv, EarlyListeners, React, LateListeners, HandleStatus,
        HandleExit, HandleFailure, Failing
  <2>2. \A s \in Threads : s # t => ret'[s] = ret[s]
    BY <1>1, <2>1 DEF ReactorHandler, UserHandlers, CheckCurrent, Call, TypeOK,
       Actors
  <2>3. CASE ReactorHandler(t)
    <3>1. pc[t] \in Elsewhere /\ \E l \in {"abort", "handlers"} : Moves(l)
      BY <2>3 DEF ReactorHandler, Call, Goto, Labels
    <3>2. Failing(t)'
      BY <1>1, <3>1 DEF Failing, TypeOK
    <3> QED
      BY <1>3, <2>2, <3>1, <3>2 DEF Labels
  <2>4. CASE UserHandlers(t)
    <3>1. /\ pc[t] \in Elsewhere
          /\ \/ Moves("check")
             \/ /\ \E l \in {"connect", "disconnect"} : Moves(l)
                /\ ret' = [ret EXCEPT ![t] = [ok |-> "check", bad |-> "check"]]
      BY <2>4 DEF UserHandlers, Call, Goto, Labels
    <3>2. Failing(t)'
      BY <1>1, <3>1 DEF Failing, TypeOK
    <3> QED
      BY <1>3, <2>2, <3>1, <3>2 DEF Labels
  <2>5. CASE CheckCurrent(t)
    <3>1. pc[t] \in Elsewhere /\ \E l \in {"abort", "finally"} : Moves(l)
      BY <2>5 DEF CheckCurrent, Call, Goto, Labels
    <3>2. ASSUME ~Existing, t = networking_thread PROVE Failing(t)'
      <4>1. Current = t /\ t # NoThread /\ interrupt[t]
        BY <3>2, ActorsAssumption DEF Current, Existing, Actors
      <4>2. Moves("abort")
        BY <2>5, <4>1 DEF CheckCurrent, Call, Goto
      <4> QED
        BY <1>1, <4>2 DEF Failing, TypeOK
    <3> QED
      BY <1>3, <2>2, <3>1, <3>2 DEF Labels
  <2> QED
    BY <2>1, <2>3, <2>4, <2>5
<1> QED
  BY <1>4, <1>5

\* Every step keeps the connection served.
LEMMA ServedInv ==
    Inv /\ EndsInterrupted /\ Served /\ [Next]_vars => Served'
<1> SUFFICES ASSUME Inv, EndsInterrupted, Served, [Next]_vars PROVE Served'
  OBVIOUS
<1>1. ASSUME NEW u \in Users, UserCall(u) PROVE Served'
  <2>1. TypeOK /\ u \in Actors /\ u \notin Threads
    BY ActorsAssumption DEF Inv, Actors
  <2>2. PICK op \in {"connect", "status", "disconnect", "abort"} :
           /\ pc' = [pc EXCEPT ![u] = op]
           /\ \A t \in Threads : t # u => ret'[t] = ret[t]
    BY <1>1, <2>1 DEF UserCall, Call, Goto, TypeOK, Actors
  <2>3. /\ UNCHANGED <<networking_thread, new_networking_thread, interrupt,
                       connected, socket, file_object>>
        /\ pc[u] = "idle"
    BY <1>1 DEF UserCall, slots, conn
  <2> QED
    BY <2>1, <2>2, <2>3, ActorsAssumption, ServedLocally
    DEF Labels, TypeOK, Live
<1>2. ASSUME NEW a \in Actors, MethodStep(a) PROVE Served'
  BY <1>2, MethodServed, OpeningServed DEF MethodStep
<1>3. ASSUME NEW t \in Threads, ThreadStep(t) PROVE Served'
  BY <1>3, EndServed, ThreadServed
<1>4. CASE UNCHANGED vars
  BY <1>4 DEF vars, slots, conn, Served, Live, Existing, Opening, Failing
<1> QED
  BY <1>1, <1>2, <1>3, <1>4 DEF Next

\* However late an old thread dies, it leaves no connection that says it is
\* connected, and has its socket, without a thread (connection.py 487, 494,
\* 568, 631-633).
THEOREM ConnectionIsServed == Spec => []ConnectedIsServed
<1>1. Init => Served
  BY ActorsAssumption DEF Init, Served, Live, Actors
<1>2. Inv /\ Served => ConnectedIsServed
  <2> SUFFICES ASSUME Inv, Served, Live, lock = NoThread
               PROVE  Current # NoThread
    BY DEF ConnectedIsServed, Live
  <2>1. \A a \in Actors : ~InLock(a)
    BY ActorsAssumption DEF Inv, LockOwned, Actors
  <2>2. ~Opening
    BY <2>1 DEF Opening, InLock
  <2> QED
    BY <2>2 DEF Served, Existing, Current
<1> QED
  BY <1>1, <1>2, SpecInv, SpecEndsInterrupted, ServedInv, PTL DEF Spec
==============================================================================
