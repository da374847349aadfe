------------------------------ MODULE Dispatcher ------------------------------
(***************************************************************************)
(* What ConnectionWorker promises its clients: a packet is dispatched in   *)
(* one step, to all the callbacks that are registered for its channel at   *)
(* that moment and to no other, and each of them is called at most once.   *)
(* A callback leaves the registry only after a call in which it refused,   *)
(* and a packet is dropped only while the worker is stopped.               *)
(*                                                                         *)
(* A call takes its argument from the worker's one buffer.  It is called   *)
(* with the packet it is due for if it starts before the worker receives   *)
(* again; a later call is given whatever the buffer then holds, or a       *)
(* packet torn by the reception under way.                                 *)
(*                                                                         *)
(* A call <<p, c>> is callback c's of packet p.  The promise ends with the *)
(* first undefined step: UndefinedHasCause says when there can be one.     *)
(***************************************************************************)
CONSTANTS
  Callbacks,  \* the callbacks the clients ever register
  Packets,    \* the packets the Crazyflie ever sends
  CbChan,     \* CbChan[c]: the channel callback c is registered for
  PktChan,    \* PktChan[p]: the channel of packet p
  Empty,      \* the buffer before the first packet, and when none came
  Torn        \* a packet copied while the next one overwrites it

VARIABLES
  registered,  \* the callbacks in the registry
  waiting,     \* the packets that are not dispatched yet
  stopped,     \* has a client stopped the worker?
  buffer,      \* the packet received last
  receiving,   \* is a reception into the buffer under way?
  stage,       \* how far each call has come
  argument,    \* what each call was given
  undefined    \* was there an undefined step?

bufferVars     == <<buffer, receiving>>
callVars       == <<stage, argument>>
dispatcherVars == <<registered, waiting, stopped, bufferVars, callVars, undefined>>

Calls == Packets \X Callbacks

DispatcherInit ==
  /\ registered = {} /\ waiting = Packets /\ stopped \in BOOLEAN
  /\ buffer = Empty /\ receiving = FALSE
  /\ stage = [k \in Calls |-> "none"] /\ argument = [k \in Calls |-> Empty]
  /\ undefined = FALSE

Register(c) ==
  /\ c \notin registered /\ registered' = registered \cup {c}
  /\ UNCHANGED <<waiting, stopped, bufferVars, callVars, undefined>>

Switch ==
  /\ stopped' \in BOOLEAN
  /\ UNCHANGED <<registered, waiting, bufferVars, callVars, undefined>>

BeginReceive ==
  /\ ~receiving /\ receiving' = TRUE
  /\ UNCHANGED <<registered, waiting, stopped, buffer, callVars, undefined>>

EndReceive ==
  /\ receiving /\ receiving' = FALSE
  /\ buffer' \in waiting \cup {Empty}
  /\ UNCHANGED <<registered, waiting, stopped, callVars, undefined>>

\* A stop() of this moment comes too late for the packet.
Dispatch(p) ==
  /\ buffer = p /\ ~receiving
  /\ p \in waiting /\ waiting' = waiting \ {p}
  /\ stage' = [k \in Calls |->
       IF k[1] = p /\ k[2] \in registered /\ PktChan[p] = CbChan[k[2]] THEN "due" ELSE stage[k]]
  /\ UNCHANGED <<registered, stopped, bufferVars, argument, undefined>>

Drop(p) ==
  /\ stopped /\ buffer = p
  /\ p \in waiting /\ waiting' = waiting \ {p}
  /\ UNCHANGED <<registered, stopped, bufferVars, callVars, undefined>>

Advance(k, from, to) ==
  /\ k[2] \in registered
  /\ stage[k] = from /\ stage' = [stage EXCEPT ![k] = to]
  /\ UNCHANGED <<waiting, stopped, bufferVars, undefined>>

Call(k) ==
  /\ Advance(k, "due", "calling")
  /\ \/ argument' = [argument EXCEPT ![k] = buffer]
     \/ receiving /\ argument' = [argument EXCEPT ![k] = Torn]
  /\ UNCHANGED registered

Keep(k)   == Advance(k, "calling", "done") /\ UNCHANGED <<registered, argument>>
Refuse(k) == Advance(k, "calling", "refused") /\ UNCHANGED <<registered, argument>>
Erase(k)  ==
  /\ Advance(k, "refused", "erased") /\ UNCHANGED argument
  /\ registered' = registered \ {k[2]}

Stray ==
  /\ undefined' = TRUE
  /\ \/ UNCHANGED stage
     \/ \E k \in Calls : /\ stage[k] \in {"due", "calling", "refused"}
                         /\ stage' = [stage EXCEPT ![k] = "wild"]
  /\ receiving' \in {receiving, FALSE}
  /\ UNCHANGED <<registered, waiting, stopped, buffer, argument>>

DispatcherNext ==
  /\ ~undefined
  /\ \/ \E c \in Callbacks : Register(c)
     \/ \E p \in Packets : Dispatch(p) \/ Drop(p)
     \/ \E k \in Calls : Call(k) \/ Keep(k) \/ Refuse(k) \/ Erase(k)
     \/ BeginReceive \/ EndReceive
     \/ Switch \/ Stray

DispatcherSpec == DispatcherInit /\ [][DispatcherNext]_dispatcherVars
=============================================================================
