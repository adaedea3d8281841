------------------------------ MODULE Handover ------------------------------
(***************************************************************************)
(* What the thread slots of minecraft.networking.connection.Connection     *)
(* promise, without sockets, locks or packets: one place that is held by   *)
(* at most one worker, a worker gives it up only after it was told to,     *)
(* and at most one other worker waits for it, behind a holder that was     *)
(* told to go.                                                             *)
(***************************************************************************)
CONSTANTS Workers, NoWorker

VARIABLES
    holder,     \* the worker in the place
    next,       \* the worker that waits for it
    told,       \* the workers told to stop
    gone        \* the workers that have stopped

vars == <<holder, next, told, gone>>

Init == holder = NoWorker /\ next = NoWorker /\ told = {} /\ gone = {}

Fresh(w) == w \notin gone \cup {holder, next}

\* A worker starts in the empty place.
Begin(w) ==
    /\ holder = NoWorker /\ next = NoWorker
    /\ Fresh(w)
    /\ holder' = w
    /\ UNCHANGED <<next, told, gone>>

\* A worker starts to wait for a holder that was told to stop.
Wait(w) ==
    /\ holder \in told /\ next = NoWorker
    /\ Fresh(w)
    /\ next' = w
    /\ UNCHANGED <<holder, told, gone>>

\* The waiting worker enters the empty place.
Enter ==
    /\ holder = NoWorker /\ next # NoWorker
    /\ holder' = next
    /\ next' = NoWorker
    /\ UNCHANGED <<told, gone>>

\* The holder may be told to stop, and the waiting worker before it starts.
Tell(w) ==
    /\ w \in {holder, next} \ {NoWorker}
    /\ told' = told \cup {w}
    /\ UNCHANGED <<holder, next, gone>>

Leave ==
    /\ holder \in told
    /\ holder' = NoWorker
    /\ gone' = gone \cup {holder}
    /\ UNCHANGED <<next, told>>

Next ==
    \/ \E w \in Workers : Begin(w) \/ Wait(w) \/ Tell(w)
    \/ Enter \/ Leave

Spec == Init /\ [][Next]_vars
=============================================================================
