-------------------------- MODULE ConnectionWorker --------------------------
(***************************************************************************)
(* The receive thread of ConnectionWorker.cpp, the detached threads it     *)
(* spawns to run packet callbacks, and the public operations that other    *)
(* threads call.  One behaviour is one ConnectionWorker object from the    *)
(* start of its thread in the constructor to its destructor.               *)
(*                                                                         *)
(* A callback is one node of _paramReceivedCallbacks; it is registered at  *)
(* most once.  A packet is received at most once, so the detached thread   *)
(* spawned for packet p and node c is named <<p, c>>.                      *)
(*                                                                         *)
(* C++ leaves some steps undefined (a read through a dangling pointer, an  *)
(* erase of an erased node).  Such a step puts its thread in the state     *)
(* "wild"; nothing is claimed of the program afterwards, so no step        *)
(* follows it (UB).                                                        *)
(***************************************************************************)
EXTENDS Integers, Sequences, SequencesExt

CONSTANTS
  Callbacks, \* the callback bundles the program ever registers
  Packets,   \* the packets the Crazyflie ever sends
  CbChan,    \* CbChan[c]: the (port, channel) callback c is registered for
  PktChan,   \* PktChan[p]: the (port, channel) of packet p
  Returns,   \* Returns[c]: the values callback c may return
  Empty,     \* the packet recv returns when it times out
  Torn,      \* a packet copied while the receive thread overwrites it
  NoNode     \* an iterator that was never set

ASSUME ConstAssumption ==
  /\ DOMAIN CbChan = Callbacks
  /\ DOMAIN PktChan = Packets
  /\ Returns \in [Callbacks -> SUBSET BOOLEAN]
  /\ Empty \notin Packets /\ Torn \notin Packets
  /\ NoNode \notin Callbacks

VARIABLES
  life,        \* the object: "constructing", "live", "closing", "destroyed"
  con,         \* _conAtomicPtr # nullptr
  deactivate,  \* _deactivateThread
  list,        \* _paramReceivedCallbacks
  added,       \* the callbacks that were ever registered
  link,        \* packets the driver has not handed over yet
  wpc,         \* control point of the receive thread
  pRecv,       \* p_recv
  it,          \* the dispatch loop's iterator, Len(list) + 1 for end()
  iterDone,    \* isIteratorFinished
  tpc,         \* control point of each detached thread
  tIt,         \* the detached thread's own copy of the iterator
  tPkt,        \* the packet its callback is called with
  woken        \* history: the packets whose wait of line 98 woke without a notification

objVars    == <<life, con, deactivate>>
workerVars == <<wpc, pRecv, it, iterDone>>
threadVars == <<tpc, tIt, tPkt>>
vars       == <<objVars, list, added, link, workerVars, threadVars, woken>>

Threads == Packets \X Callbacks

(***************************************************************************)
(* The receive thread holds _callbackMutex from the lock_guard of line 76  *)
(* to the end of its block; in the same block live mu, waitForIterator,    *)
(* isIteratorFinished and the iterator: the frame that the threads it      *)
(* spawned point into.  mu is free only while the thread is blocked.       *)
(***************************************************************************)
Waiting         == {"blocked", "recheck", "preblock"}
DispatchPcs     == {"scan"} \cup Waiting
CallbackMutexIsFree == wpc \notin DispatchPcs
FrameAlive(t)   == wpc \in DispatchPcs /\ pRecv = t[1]
MuIsFree        == wpc = "blocked"

Matches(p, c) == PktChan[p] = CbChan[c]
Listed(c)     == c \in ToSet(list)

\* Some thread has run into undefined behaviour.
UB == wpc = "wild" \/ \E t \in Threads : tpc[t] = "wild"

(***************************************************************************)
(* The constructor starts the thread before it assigns _deactivateThread:  *)
(* until then the thread reads an uninitialized value.                     *)
(***************************************************************************)
Init ==
  /\ life = "constructing" /\ con = TRUE /\ deactivate \in BOOLEAN
  /\ list = <<>> /\ added = {} /\ link = Packets
  /\ wpc = "top" /\ pRecv = Empty /\ it = 1 /\ iterDone = FALSE
  /\ tpc = [t \in Threads |-> "none"]
  /\ tIt = [t \in Threads |-> NoNode]
  /\ tPkt = [t \in Threads |-> Empty]
  /\ woken = {}

-----------------------------------------------------------------------------
(* Operations of the public interface, called by any thread.               *)

\* notify_all on _threadSleepConVar: a parked thread re-evaluates its predicate.
NotifySleeper == wpc' = IF wpc = "parked" THEN "unparked" ELSE wpc

constructed ==
  /\ life = "constructing"
  /\ life' = "live" /\ deactivate' = TRUE
  /\ UNCHANGED <<con, list, added, link, workerVars, threadVars, woken>>

\* Mutated form: the flag changes but nobody is notified.
startNoNotify ==
  /\ life = "live"
  /\ deactivate' = FALSE
  /\ UNCHANGED <<life, con, list, added, link, workerVars, threadVars, woken>>

start ==
  /\ life = "live"
  /\ deactivate' = FALSE
  /\ NotifySleeper
  /\ UNCHANGED <<life, con, list, added, link, pRecv, it, iterDone, threadVars, woken>>

stop ==
  /\ life = "live"
  /\ deactivate' = TRUE
  /\ NotifySleeper
  /\ UNCHANGED <<life, con, list, added, link, pRecv, it, iterDone, threadVars, woken>>

addCallback(c) ==
  /\ life = "live" /\ c \notin added
  /\ CallbackMutexIsFree
  /\ list' = Append(list, c) /\ added' = added \cup {c}
  /\ UNCHANGED <<objVars, link, workerVars, threadVars, woken>>

\* The destructor is two steps: the pointer first, then stop().
destroyPointer ==
  /\ life = "live"
  /\ life' = "closing" /\ con' = FALSE
  /\ UNCHANGED <<deactivate, list, added, link, workerVars, threadVars, woken>>

destroyStop ==
  /\ life = "closing"
  /\ life' = "destroyed" /\ deactivate' = TRUE
  /\ NotifySleeper
  /\ UNCHANGED <<con, list, added, link, pRecv, it, iterDone, threadVars, woken>>

-----------------------------------------------------------------------------
(* The receive thread: receivePacketsThreadFunc.                           *)

Jump(pc) == wpc' = pc /\ UNCHANGED <<objVars, list, added, link, pRecv, it, iterDone, threadVars>>
GoTo(pc) == Jump(pc) /\ UNCHANGED woken

\* Line 48: an unlocked read decides whether to park.
LoopTop == wpc = "top" /\ GoTo(IF deactivate THEN "unparked" ELSE "conCheck")

\* Line 52: the predicate, evaluated under _threadSleepMutex.
ParkOrGo == wpc = "unparked" /\ GoTo(IF deactivate THEN "parked" ELSE "conCheck")

SpuriousUnpark == wpc = "parked" /\ GoTo("unparked")

\* Lines 56-61: the first read of the pointer; a null one ends the thread.
CheckConnection == wpc = "conCheck" /\ GoTo(IF con THEN "recv" ELSE "exit")

\* Line 58 reads the pointer a second time.
RecvNull == wpc = "recv" /\ ~con /\ GoTo("wild")

Recv(p) ==
  /\ wpc = "recv" /\ con
  /\ p \in link
  /\ wpc' = "gate" /\ pRecv' = p /\ link' = link \ {p}
  /\ UNCHANGED <<objVars, list, added, it, iterDone, threadVars, woken>>

\* recv(1) gave up after a millisecond and p_recv is an invalid packet.
RecvTimeout ==
  /\ wpc = "recv" /\ con
  /\ wpc' = "gate" /\ pRecv' = Empty
  /\ UNCHANGED <<objVars, list, added, link, it, iterDone, threadVars, woken>>

\* Line 63: drop the packet, or take it.
Gate ==
  /\ wpc = "gate"
  /\ GoTo(IF pRecv # Empty /\ ~deactivate THEN "accepted" ELSE "top")

\* Lines 71-80: lock both mutexes and begin the loop.
DispatchBegin ==
  /\ wpc = "accepted" /\ CallbackMutexIsFree
  /\ wpc' = "scan" /\ it' = 1 /\ iterDone' = FALSE
  /\ UNCHANGED <<objVars, list, added, link, pRecv, threadVars, woken>>

AtEnd == it > Len(list)

\* it == end(): the block is left and its locals and locks with it.
DispatchEnd == wpc = "scan" /\ AtEnd /\ GoTo("top")

SkipCallback ==
  /\ wpc = "scan" /\ ~AtEnd
  /\ ~Matches(pRecv, list[it])
  /\ it' = it + 1
  /\ UNCHANGED <<objVars, list, added, link, wpc, pRecv, iterDone, threadVars, woken>>

\* Lines 85-98: start the thread and wait for isIteratorFinished.  The flag is
\* never reset, so only the first match of a packet really waits.
SpawnCallback ==
  /\ wpc = "scan" /\ ~AtEnd
  /\ Matches(pRecv, list[it])
  /\ tpc' = [tpc EXCEPT ![<<pRecv, list[it]>>] = "lock"]
  /\ IF iterDone THEN it' = it + 1 /\ UNCHANGED wpc
                 ELSE wpc' = "blocked" /\ UNCHANGED it
  /\ UNCHANGED <<objVars, list, added, link, pRecv, iterDone, tIt, tPkt, woken>>

SpuriousHandshake ==
  /\ wpc = "blocked" /\ Jump("recheck")
  /\ woken' = woken \cup {pRecv}

\* Mutated form: the first match ends the loop.
AwaitIteratorBreak ==
  /\ wpc = "recheck"
  /\ \/ iterDone /\ wpc' = "scan" /\ it' = Len(list) + 1
     \/ ~iterDone /\ wpc' = "preblock" /\ UNCHANGED it
  /\ UNCHANGED <<objVars, list, added, link, pRecv, iterDone, threadVars, woken>>

\* The waiter holds mu again and evaluates its predicate.
AwaitIterator ==
  /\ wpc = "recheck"
  /\ \/ iterDone /\ wpc' = "scan" /\ it' = it + 1
     \/ ~iterDone /\ wpc' = "preblock" /\ UNCHANGED it
  /\ UNCHANGED <<objVars, list, added, link, pRecv, iterDone, threadVars, woken>>

\* The predicate was false: release mu and sleep.
Reblock == wpc = "preblock" /\ GoTo("blocked")

Worker ==
  /\ ~UB
  /\ \/ LoopTop \/ ParkOrGo \/ CheckConnection
     \/ RecvNull \/ RecvTimeout \/ \E p \in Packets : Recv(p)
     \/ Gate \/ DispatchBegin \/ DispatchEnd \/ SkipCallback \/ SpawnCallback
     \/ AwaitIterator \/ Reblock

-----------------------------------------------------------------------------
(* A detached callback thread t = <<p, c>>: the lambda of lines 85-96.     *)

Step(t, from, to) == tpc[t] = from /\ tpc' = [tpc EXCEPT ![t] = to]
OwnStepOnly == UNCHANGED <<objVars, list, added, link, workerVars, woken>>

\* Mutated form: *itPtr is read without mu.
CopyIteratorNoLock(t) ==
  /\ FrameAlive(t)
  /\ Step(t, "lock", "copied")
  /\ tIt' = [tIt EXCEPT ![t] = IF AtEnd THEN NoNode ELSE list[it]]
  /\ OwnStepOnly /\ UNCHANGED tPkt

\* Mutated form: mu is taken but *itPtr is not read.
CopyIteratorForgotten(t) ==
  /\ FrameAlive(t) /\ MuIsFree
  /\ Step(t, "lock", "copied")
  /\ OwnStepOnly /\ UNCHANGED <<tIt, tPkt>>

\* Lines 86-88: lock mu, copy *itPtr, unlock.
CopyIterator(t) ==
  /\ FrameAlive(t) /\ MuIsFree
  /\ Step(t, "lock", "copied")
  /\ tIt' = [tIt EXCEPT ![t] = list[it]]
  /\ OwnStepOnly /\ UNCHANGED tPkt

\* The frame is gone before the thread got mu: mu and *itPtr dangle.
CopyFromDeadFrame(t) ==
  /\ ~FrameAlive(t)
  /\ Step(t, "lock", "wild")
  /\ OwnStepOnly /\ UNCHANGED <<tIt, tPkt>>

\* Mutated form: the flag is left as it is.
FinishIteratorNoFlag(t) ==
  /\ Step(t, "copied", "flagged")
  /\ OwnStepOnly /\ UNCHANGED <<tIt, tPkt>>

\* Mutated form: the receive thread polls the flag instead of awaiting the notification.
FinishIteratorPolled(t) ==
  /\ Step(t, "copied", "flagged")
  /\ iterDone' = TRUE /\ wpc' = IF wpc = "blocked" THEN "recheck" ELSE wpc
  /\ UNCHANGED <<objVars, list, added, link, pRecv, it, tIt, tPkt, woken>>

\* Line 89: *isIteratorFinishedPtr = true, without mu.
FinishIterator(t) ==
  /\ IF FrameAlive(t) THEN Step(t, "copied", "flagged") /\ iterDone' = TRUE
                      ELSE Step(t, "copied", "wild") /\ UNCHANGED iterDone
  /\ UNCHANGED <<objVars, list, added, link, wpc, pRecv, it, tIt, tPkt, woken>>

\* Mutated form: the waiting receive thread is not notified.
NotifyIteratorLost(t) ==
  /\ Step(t, "flagged", "ready")
  /\ OwnStepOnly /\ UNCHANGED <<tIt, tPkt>>

\* Line 90: notify_all on the frame's condition variable.
NotifyIterator(t) ==
  /\ Step(t, "flagged", IF FrameAlive(t) THEN "ready" ELSE "wild")
  /\ wpc' = IF FrameAlive(t) /\ wpc = "blocked" THEN "recheck" ELSE wpc
  /\ UNCHANGED <<objVars, list, added, link, pRecv, it, iterDone, tIt, tPkt, woken>>

\* Line 91: the argument is copied from p_recv, which the receive thread may by now have
\* overwritten or be overwriting; the node may have been erased, and p_recv is gone once
\* that thread has left its function.
CallCallback(t) ==
  /\ \/ /\ Listed(tIt[t]) /\ wpc # "exit"
        /\ Step(t, "ready", "calling")
        /\ \E p \in {pRecv} \cup (IF wpc = "recv" THEN {Torn} ELSE {}) :
              tPkt' = [tPkt EXCEPT ![t] = p]
     \/ /\ ~Listed(tIt[t]) \/ wpc = "exit"
        /\ Step(t, "ready", "wild") /\ UNCHANGED tPkt
  /\ OwnStepOnly /\ UNCHANGED tIt

\* The callback returns; its std::function must still be in the list.
ReturnFromCallback(t) ==
  /\ \/ Listed(tIt[t]) /\ \E keep \in Returns[tIt[t]] :
                             Step(t, "calling", IF keep THEN "done" ELSE "refused")
     \/ ~Listed(tIt[t]) /\ Step(t, "calling", "wild")
  /\ OwnStepOnly /\ UNCHANGED <<tIt, tPkt>>

\* Mutated form: the first node is erased, whichever refused.
EraseFront(t) ==
  /\ CallbackMutexIsFree /\ list # <<>>
  /\ Step(t, "refused", "erased") /\ list' = Tail(list)
  /\ UNCHANGED <<objVars, added, link, workerVars, tIt, tPkt, woken>>

\* Lines 93-94: erase the node under _callbackMutex.
EraseCallback(t) ==
  /\ CallbackMutexIsFree
  /\ \/ \E i \in DOMAIN list :
           /\ list[i] = tIt[t] /\ list' = RemoveAt(list, i)
           /\ Step(t, "refused", "erased")
     \/ ~Listed(tIt[t]) /\ Step(t, "refused", "wild") /\ UNCHANGED list
  /\ UNCHANGED <<objVars, added, link, workerVars, tIt, tPkt, woken>>

Thread(t) ==
  /\ ~UB
  /\ \/ CopyIterator(t) \/ CopyFromDeadFrame(t) \/ FinishIterator(t)
     \/ NotifyIterator(t) \/ CallCallback(t) \/ ReturnFromCallback(t)
     \/ EraseCallback(t)

-----------------------------------------------------------------------------
Api ==
  /\ ~UB
  /\ \/ constructed \/ start \/ stop \/ destroyPointer \/ destroyStop
     \/ \E c \in Callbacks : addCallback(c)

Spurious == ~UB /\ (SpuriousUnpark \/ SpuriousHandshake)

Next == Api \/ Worker \/ Spurious \/ \E t \in Threads : Thread(t)

Spec == Init /\ [][Next]_vars

(***************************************************************************)
(* The scheduler runs every thread that can run, recv(1) returns within a  *)
(* millisecond, and a packet in the driver is handed over in the end.  The *)
(* callers of the public operations promise nothing, except that a         *)
(* destructor that has begun ends.  A wait is woken spuriously only        *)
(* finitely often, so that a thread that waits for mu gets it.             *)
(***************************************************************************)
FairSpec ==
  /\ Spec
  /\ WF_vars(Worker)
  /\ WF_vars(~UB /\ destroyStop)
  /\ \A t \in Threads : WF_vars(Thread(t))
  /\ <>[][~SpuriousHandshake]_vars

-----------------------------------------------------------------------------
(* Properties.                                                             *)

TPcs == {"none", "lock", "copied", "flagged", "ready", "calling", "done",
         "refused", "erased", "wild"}
WPcs == {"top", "unparked", "parked", "conCheck", "recv", "gate", "accepted", "exit", "wild"}
          \cup DispatchPcs
PastCopy == {"copied", "flagged", "ready", "calling", "done", "refused", "erased"}

\* Types; a thread that has passed its copy of the iterator has one, and the
\* dispatch loop's own iterator is a node or end() of the list as it is now.
TypeOK ==
  /\ life \in {"constructing", "live", "closing", "destroyed"}
  /\ con \in BOOLEAN /\ deactivate \in BOOLEAN
  /\ list \in Seq(Callbacks) /\ added \in SUBSET Callbacks /\ link \in SUBSET Packets
  /\ wpc \in WPcs /\ pRecv \in Packets \cup {Empty}
  /\ it \in Nat \ {0} /\ iterDone \in BOOLEAN
  /\ tpc \in [Threads -> TPcs]
  /\ tIt \in [Threads -> Callbacks \cup {NoNode}]
  /\ tPkt \in [Threads -> Packets \cup {Empty, Torn}]
  /\ \A t \in Threads : tpc[t] \in PastCopy => tIt[t] # NoNode
  /\ wpc \in DispatchPcs => it <= Len(list) + 1
  /\ woken \in SUBSET Packets

\* The handshake of lines 85-98 does what it is for: the iterator a callback
\* thread works with is the node it was spawned for, although the loop that owns
\* the iterator runs on in another thread.
OwnIterator == \A t \in Threads : tpc[t] \in PastCopy => tIt[t] = t[2]

\* A node leaves the list only if it was itself called, returned false and its
\* own thread erased it; no thread ever erases somebody else's callback.
ErasedOnlyIfRefused ==
  \A c \in added : ~Listed(c) => \E p \in Packets : tpc[<<p, c>>] = "erased"

\* start() is never missed: whatever the interleaving of start() and stop() with the
\* unlocked test of line 48, the thread does not sleep while it is activated.
NoMissedStart == wpc = "parked" => deactivate

\* The wait of line 98 is a lost wake-up only if it woke once without a notification: a
\* thread of the frame has yet to notify a blocked loop, unless the loop found the flag of
\* line 89, which is set without mu, unset between such a wake-up and its next sleep.
HasWaker == \E t \in Threads : FrameAlive(t) /\ tpc[t] \in {"lock", "copied", "flagged"}
BlockedHasWaker == wpc = "blocked" => HasWaker \/ pRecv \in woken

\* The frame that holds mu, the flag and the condition variable outlives the handshake: the
\* write of line 89 always finds the flag, and the notification of line 90 finds the
\* condition variable unless a wake-up without a notification let the loop see the flag.
FrameOutlivesHandshake ==
  \A t \in Threads :
     /\ tpc[t] = "copied" => FrameAlive(t)
     /\ tpc[t] = "flagged" => FrameAlive(t) \/ t[1] \in woken

\* Undefined behaviour has one of these causes: the destructor has begun (lines 18 and 58,
\* and p_recv at line 91), the wait for this packet woke without a notification (line 90),
\* the packet matches a second callback (line 98 does not wait for its thread), or the
\* callback has refused another packet before and is erased.  In a worker that lives and
\* is not woken spuriously, a callback with a channel to itself that never refuses meets none.
UndefinedHasCause ==
  LET Destroyed == life \in {"closing", "destroyed"}
  IN /\ wpc = "wild" => Destroyed
     /\ \A t \in Threads : tpc[t] = "wild" =>
          \/ Destroyed \/ t[1] \in woken
          \/ \E u \in Threads \ {t} :
               \/ u[1] = t[1] /\ tpc[u] # "none"
               \/ u[2] = t[2] /\ tpc[u] = "erased"

\* The dispatch of lines 63-102, a loop that runs beside the threads it spawns and beside
\* start(), stop() and addCallback(), is one step to its clients: the worker implements
\* Dispatcher.  A call is due from the step in which the loop takes the lock, although its
\* thread is spawned only when the loop comes to its node.
StillAhead(t) ==
  /\ wpc \in DispatchPcs /\ t[1] = pRecv /\ Matches(pRecv, t[2])
  /\ \E i \in it..Len(list) : list[i] = t[2]

DuePcs == {"lock", "copied", "flagged", "ready"}
Stage ==
  [t \in Threads |->
     IF tpc[t] \in DuePcs \/ (tpc[t] = "none" /\ StillAhead(t)) THEN "due" ELSE tpc[t]]

Undispatched == link \cup (IF wpc \in {"gate", "accepted"} THEN {pRecv} \ {Empty} ELSE {})

Promise == INSTANCE Dispatcher WITH
  registered <- ToSet(list), waiting <- Undispatched, stopped <- deactivate,
  buffer <- pRecv, receiving <- (wpc = "recv"),
  stage <- Stage, argument <- tPkt, undefined <- UB
DispatchIsAtomic == Promise!DispatcherSpec

\* Every dispatch ends, and with it the hold on _callbackMutex, so addCallback and the
\* erasing threads are not shut out for ever; what is left is the lost wake-up to which
\* BlockedHasWaker confines the wait, in which a finished handshake is slept through.
Overslept == wpc = "blocked" /\ pRecv \in woken /\ iterDone /\ ~HasWaker
DispatchEnds == (wpc \in DispatchPcs) ~> (wpc \notin DispatchPcs \/ UB \/ Overslept)

\* A callback that returned false is removed from the list (ConnectionWorker.h:19), unless
\* the dispatch that keeps its thread from _callbackMutex sleeps through its handshake.
RefusedIsRemoved ==
  \A c \in Callbacks :
     (\E p \in Packets : tpc[<<p, c>>] = "refused") ~> (~Listed(c) \/ UB \/ Overslept)

\* "The callback will be called for another loop" (ConnectionWorker.h:18): a thread
\* spawned to call a callback gets its iterator before the frame that holds it dies.
SpawnedFindsFrame == \A t \in Threads : tpc[t] = "lock" => FrameAlive(t)

\* A callback is called with a packet of the port and channel in its bundle
\* (ConnectionWorker.h:22).
CalledWithOwnChannel ==
  \A t \in Threads : tpc[t] = "calling" =>
     tPkt[t] \in Packets /\ Matches(tPkt[t], tIt[t])

\* The destructor stops the thread completely (ConnectionWorker.h:52-53).
DestructorStopsThread == (life = "destroyed") ~> (wpc = "exit" \/ UB)

=============================================================================
